---------------------------- MODULE ClientProofs ----------------------------
(***************************************************************************)
(* Theorems about a client: how it is told from others (Identifiers), what  *)
(* its bank statement says (Statements), how its KYC verdict is reached     *)
(* (Onboarding), how its loan's account goes (Pricing, Account) and what    *)
(* the books say of it (Books), for any numbers, statements, staff,         *)
(* policies, products, amounts and dates.                                   *)
(***************************************************************************)
EXTENDS Books, Onboarding, Statements, Identifiers, FiniteSetTheorems, WellFoundedInduction,
        TLAPS

---------------------------------------------------------------------------
(***************************************************************************)
(* Check digits.  Two sums that differ in one term differ modulo 10, because *)
(* what a digit adds in its place is one-to-one on the digits: doubling with *)
(* the digits added up is, and so is multiplying by 7, 3 or 1 modulo 10.   *)
(***************************************************************************)
(* A total decides the check digit, up to a multiple of 10. *)
LEMMA SameCheckDigit ==
  ASSUME NEW s \in Nat, NEW t \in Nat, (10 - (s % 10)) % 10 = (10 - (t % 10)) % 10
  PROVE  s % 10 = t % 10
BY SMTT(60)

LEMMA SameRemainder ==
  ASSUME NEW s \in Int, NEW a \in 0..9, NEW b \in 0..9, (s + a) % 10 = (s + b) % 10
  PROVE  a = b
BY SMTT(60)

LEMMA DoubledIsOneToOne ==
  /\ \A d \in Digit : Doubled(d) \in Digit
  /\ \A d, e \in Digit : Doubled(d) = Doubled(e) => d = e
BY DEF Doubled, Digit

(* The sum behind a check digit, and what one place adds to it. *)
DigitTotal(n) == n[1] + Doubled(n[2]) + n[3] + Doubled(n[4]) + n[5] + Doubled(n[6])
Adds(i, d) == IF i \in {2, 4, 6} THEN Doubled(d) ELSE d

LEMMA AddsIsOneToOne ==
  ASSUME NEW i \in 1..6
  PROVE  /\ \A d \in Digit : Adds(i, d) \in Digit
         /\ \A d, e \in Digit : Adds(i, d) = Adds(i, e) => d = e
BY DoubledIsOneToOne DEF Adds

LEMMA TotalSplits ==
  ASSUME NEW m \in CustomerNumber, NEW n \in CustomerNumber, NEW i \in 1..6,
         \A k \in (1..6) \ {i} : m[k] = n[k]
  PROVE  \E rest \in Int : DigitTotal(m) = rest + Adds(i, m[i]) /\ DigitTotal(n) = rest + Adds(i, n[i])
<1> DEFINE rest == DigitTotal(m) - Adds(i, m[i])
<1>1. \A k \in 1..6 : /\ m[k] \in Int /\ Doubled(m[k]) \in Int
                      /\ n[k] \in Int /\ Doubled(n[k]) \in Int
  BY DoubledIsOneToOne DEF CustomerNumber, Digit
<1>2. rest \in Int /\ DigitTotal(m) = rest + Adds(i, m[i]) BY <1>1 DEF DigitTotal, Adds
<1>3. DigitTotal(n) = rest + Adds(i, n[i])
  <2>1. CASE i = 1 BY <1>1, <2>1 DEF DigitTotal, Adds
  <2>2. CASE i = 2 BY <1>1, <2>2 DEF DigitTotal, Adds
  <2>3. CASE i = 3 BY <1>1, <2>3 DEF DigitTotal, Adds
  <2>4. CASE i = 4 BY <1>1, <2>4 DEF DigitTotal, Adds
  <2>5. CASE i = 5 BY <1>1, <2>5 DEF DigitTotal, Adds
  <2>6. CASE i = 6 BY <1>1, <2>6 DEF DigitTotal, Adds
  <2> QED BY <2>1, <2>2, <2>3, <2>4, <2>5, <2>6
<1> QED BY <1>2, <1>3

LEMMA TotalIsNat == \A n \in CustomerNumber : DigitTotal(n) \in Nat
BY DoubledIsOneToOne DEF DigitTotal, CustomerNumber, Digit

(* "The Luhn check digit rejects any single mistyped digit"                 *)
(* (customer_number.luhn_check_digit).                                      *)
THEOREM MistypedIsCaught == TypoCaught
<1> SUFFICES ASSUME NEW m \in CustomerNumber, NEW n \in CustomerNumber, NEW i \in 1..7,
                    is_valid(m), is_valid(n), DifferAt(i, m, n)
             PROVE  FALSE
  BY DEF TypoCaught
<1>1. m[7] = (10 - (DigitTotal(m) % 10)) % 10 /\ n[7] = (10 - (DigitTotal(n) % 10)) % 10
  BY DEF is_valid, luhn_check_digit, DigitTotal
<1>2. CASE i = 7
  <2>1. \A k \in 1..6 : m[k] = n[k] BY <1>2 DEF DifferAt
  <2>2. DigitTotal(m) = DigitTotal(n) BY <2>1 DEF DigitTotal
  <2> QED BY <1>1, <1>2, <2>2 DEF DifferAt
<1>3. CASE i \in 1..6
  <2>1. \A k \in (1..6) \ {i} : m[k] = n[k] BY DEF DifferAt
  <2>2. m[7] = n[7] BY <1>3 DEF DifferAt
  <2>3. DigitTotal(m) % 10 = DigitTotal(n) % 10 BY <1>1, <2>2, TotalIsNat, SameCheckDigit
  <2>4. PICK rest \in Int : DigitTotal(m) = rest + Adds(i, m[i]) /\ DigitTotal(n) = rest + Adds(i, n[i])
    BY <1>3, <2>1, TotalSplits
  <2>5. m[i] \in Digit /\ n[i] \in Digit BY DEF CustomerNumber
  <2>6. Adds(i, m[i]) = Adds(i, n[i])
    BY <1>3, <2>3, <2>4, <2>5, AddsIsOneToOne, SameRemainder DEF Digit
  <2> QED BY <1>3, <2>5, <2>6, AddsIsOneToOne DEF DifferAt
<1> QED BY <1>2, <1>3

(* How much more a digit adds doubled than plain tells the digits apart,    *)
(* modulo 10, except 0 from 9.                                              *)
LEMMA DoublingTellsApart ==
  ASSUME NEW s \in Int, NEW a \in Digit, NEW b \in Digit, a # b, {a, b} # {0, 9},
         (s + Doubled(a) + b) % 10 = 0
  PROVE  (s + Doubled(b) + a) % 10 # 0
<1>1. ~(a = 0 /\ b = 9) /\ ~(a = 9 /\ b = 0) OBVIOUS
<1>2. a \in 0..9 /\ b \in 0..9 BY DEF Digit
<1> HIDE DEF Digit
<1>3. CASE a < 5 /\ b < 5 BY <1>1, <1>2, <1>3, SMTT(60) DEF Doubled
<1>4. CASE a < 5 /\ b >= 5 BY <1>1, <1>2, <1>4, SMTT(60) DEF Doubled
<1>5. CASE a >= 5 /\ b < 5 BY <1>1, <1>2, <1>5, SMTT(60) DEF Doubled
<1>6. CASE a >= 5 /\ b >= 5 BY <1>1, <1>2, <1>6, SMTT(60) DEF Doubled
<1> QED BY <1>2, <1>3, <1>4, <1>5, <1>6

(* A number is valid when the sum with its check digit is a multiple of 10. *)
LEMMA ValidSums ==
  ASSUME NEW n \in CustomerNumber
  PROVE  is_valid(n) <=> (DigitTotal(n) + n[7]) % 10 = 0
<1>1. ASSUME NEW t \in Nat, NEW c \in 0..9
      PROVE  (10 - (t % 10)) % 10 = c <=> (t + c) % 10 = 0
  BY <1>1, SMTT(60)
<1>2. DigitTotal(n) \in Nat /\ n[7] \in 0..9 BY TotalIsNat DEF CustomerNumber, Digit
<1> QED BY <1>1, <1>2 DEF is_valid, luhn_check_digit, DigitTotal

(* "... and most swapped adjacent digits" (customer_number): every pair but *)
(* 0 and 9, wherever it stands, the check digit included.                   *)
THEOREM SwappedIsCaught == SwapCaught
<1> SUFFICES ASSUME NEW m \in CustomerNumber, NEW n \in CustomerNumber, NEW i \in 1..6,
                    is_valid(m), SwappedAt(i, m, n), m[i] # n[i], {m[i], n[i]} # {0, 9}
             PROVE  ~is_valid(n)
  BY DEF SwapCaught
<1> DEFINE a == m[i]  b == n[i]
<1>1. a \in Digit /\ b \in Digit /\ a # b /\ {a, b} # {0, 9} BY DEF CustomerNumber
<1>2. \A k \in 1..7 : /\ m[k] \in Int /\ Doubled(m[k]) \in Int
                      /\ n[k] \in Int /\ Doubled(n[k]) \in Int
  <2>1. \A k \in 1..7 : m[k] \in Digit /\ n[k] \in Digit BY DEF CustomerNumber
  <2>2. \A d \in Digit : d \in Int BY DEF Digit
  <2> QED BY <2>1, <2>2, DoubledIsOneToOne
<1>3. /\ m[i + 1] = b /\ n[i + 1] = a
      /\ \A k \in (1..7) \ {i, i + 1} : n[k] = m[k]
  BY DEF SwappedAt
<1>4. (DigitTotal(m) + m[7]) % 10 = 0 BY ValidSums
<1>5. CASE i \in {2, 4, 6}
  <2> DEFINE s == DigitTotal(m) + m[7] - Doubled(a) - b
  <2>1. s \in Int /\ DigitTotal(m) + m[7] = s + Doubled(a) + b BY <1>2, <1>3 DEF DigitTotal
  <2>2. DigitTotal(n) + n[7] = s + Doubled(b) + a
    <3>1. CASE i = 2 BY <1>2, <1>3, <3>1 DEF DigitTotal
    <3>2. CASE i = 4 BY <1>2, <1>3, <3>2 DEF DigitTotal
    <3>3. CASE i = 6 BY <1>2, <1>3, <3>3 DEF DigitTotal
    <3> QED BY <1>5, <3>1, <3>2, <3>3
  <2> HIDE DEF s, a, b
  <2>3. (DigitTotal(n) + n[7]) % 10 # 0
    BY <1>1, <1>4, <2>1, <2>2, DoublingTellsApart
  <2> QED BY <2>3, ValidSums
<1>6. CASE i \in {1, 3, 5}
  <2> DEFINE s == DigitTotal(m) + m[7] - Doubled(b) - a
  <2>1. s \in Int /\ DigitTotal(m) + m[7] = s + Doubled(b) + a BY <1>2, <1>3 DEF DigitTotal
  <2>2. DigitTotal(n) + n[7] = s + Doubled(a) + b
    <3>1. CASE i = 1 BY <1>2, <1>3, <3>1 DEF DigitTotal
    <3>2. CASE i = 3 BY <1>2, <1>3, <3>2 DEF DigitTotal
    <3>3. CASE i = 5 BY <1>2, <1>3, <3>3 DEF DigitTotal
    <3> QED BY <1>6, <3>1, <3>2, <3>3
  <2> HIDE DEF s, a, b
  <2>3. {b, a} # {0, 9} BY <1>1
  <2>4. (DigitTotal(n) + n[7]) % 10 # 0
    BY <1>1, <1>4, <2>1, <2>2, <2>3, DoublingTellsApart
  <2> QED BY <2>4, ValidSums
<1> QED BY <1>5, <1>6

---------------------------------------------------------------------------
(* The machine-readable zone. *)

(* What a character adds to the sum in place i. *)
Weight(i) == IF i \in {1, 4, 7} THEN 7 ELSE IF i \in {2, 5, 8} THEN 3 ELSE 1

Scaled(i, ch) == Weight(i) * ValueOf(ch)

ScaledSum(f) == Scaled(1, f[1]) + Scaled(2, f[2]) + Scaled(3, f[3])
              + Scaled(4, f[4]) + Scaled(5, f[5]) + Scaled(6, f[6])
              + Scaled(7, f[7]) + Scaled(8, f[8]) + Scaled(9, f[9])

LEMMA ScaledIsInt == \A i \in 1..9, ch \in Char : Scaled(i, ch) \in Int
<1> SUFFICES ASSUME NEW i \in 1..9, NEW ch \in Char PROVE Scaled(i, ch) \in Int OBVIOUS
<1>1. ValueOf(ch) \in Int BY DEF ValueOf, Char, Filler
<1>2. CASE Weight(i) = 7 BY <1>1, <1>2 DEF Scaled
<1>3. CASE Weight(i) = 3 BY <1>1, <1>3 DEF Scaled
<1>4. CASE Weight(i) = 1 BY <1>1, <1>4 DEF Scaled
<1> QED BY <1>2, <1>3, <1>4 DEF Weight

LEMMA CheckDigitIsSum ==
  ASSUME NEW f \in Field
  PROVE  check_digit(f) = ScaledSum(f) % 10
<1>1. \A k \in 1..9 : ValueOf(f[k]) \in Int BY DEF Field, ValueOf, Char, Filler
<1>2. /\ Scaled(1, f[1]) = 7 * ValueOf(f[1]) /\ Scaled(4, f[4]) = 7 * ValueOf(f[4])
      /\ Scaled(7, f[7]) = 7 * ValueOf(f[7])
  BY DEF Scaled, Weight
<1>3. /\ Scaled(2, f[2]) = 3 * ValueOf(f[2]) /\ Scaled(5, f[5]) = 3 * ValueOf(f[5])
      /\ Scaled(8, f[8]) = 3 * ValueOf(f[8])
  BY DEF Scaled, Weight
<1>4. /\ Scaled(3, f[3]) = ValueOf(f[3]) /\ Scaled(6, f[6]) = ValueOf(f[6])
      /\ Scaled(9, f[9]) = ValueOf(f[9])
  BY <1>1 DEF Scaled, Weight
<1> QED BY <1>2, <1>3, <1>4 DEF check_digit, ScaledSum

LEMMA SumSplits ==
  ASSUME NEW f \in Field, NEW g \in Field, NEW i \in 1..9,
         \A k \in (1..9) \ {i} : g[k] = f[k]
  PROVE  \E rest \in Int : /\ ScaledSum(f) = rest + Scaled(i, f[i])
                           /\ ScaledSum(g) = rest + Scaled(i, g[i])
<1> DEFINE rest == ScaledSum(f) - Scaled(i, f[i])
<1>1. \A k \in 1..9 : Scaled(k, f[k]) \in Int /\ Scaled(k, g[k]) \in Int
  BY ScaledIsInt DEF Field
<1>2. rest \in Int /\ ScaledSum(f) = rest + Scaled(i, f[i]) BY <1>1 DEF ScaledSum
<1>3. ScaledSum(g) = rest + Scaled(i, g[i])
  <2>1. CASE i = 1 BY <1>1, <2>1 DEF ScaledSum
  <2>2. CASE i = 2 BY <1>1, <2>2 DEF ScaledSum
  <2>3. CASE i = 3 BY <1>1, <2>3 DEF ScaledSum
  <2>4. CASE i = 4 BY <1>1, <2>4 DEF ScaledSum
  <2>5. CASE i = 5 BY <1>1, <2>5 DEF ScaledSum
  <2>6. CASE i = 6 BY <1>1, <2>6 DEF ScaledSum
  <2>7. CASE i = 7 BY <1>1, <2>7 DEF ScaledSum
  <2>8. CASE i = 8 BY <1>1, <2>8 DEF ScaledSum
  <2>9. CASE i = 9 BY <1>1, <2>9 DEF ScaledSum
  <2> QED BY <2>1, <2>2, <2>3, <2>4, <2>5, <2>6, <2>7, <2>8, <2>9
<1> QED BY <1>2, <1>3

LEMMA TimesThreeTellsApart ==
  ASSUME NEW s \in Int, NEW u \in 0..35, NEW v \in 0..35,
         (s + 3 * u) % 10 = (s + 3 * v) % 10
  PROVE  u % 10 = v % 10
BY SMTT(60)

LEMMA TimesSevenTellsApart ==
  ASSUME NEW s \in Int, NEW u \in 0..35, NEW v \in 0..35,
         (s + 7 * u) % 10 = (s + 7 * v) % 10
  PROVE  u % 10 = v % 10
BY SMTT(60)

(* The check digits of a zone catch every character that was read wrong,    *)
(* unless its value ends in the same digit (mrz._check_digit): such a       *)
(* document number is never reported with high confidence.                  *)
THEOREM MisreadIsCaught == MisreadNotTrusted
<1> SUFFICES ASSUME NEW z \in Zone, NEW y \in Zone, NEW i \in 1..9,
                    NumberChecks(z), NumberChecks(y), y.numberCheck = z.numberCheck,
                    \A k \in (1..9) \ {i} : y.number[k] = z.number[k]
             PROVE  ValueOf(y.number[i]) % 10 = ValueOf(z.number[i]) % 10
  BY DEF MisreadNotTrusted
<1> DEFINE f == z.number  g == y.number
<1>1. f \in Field /\ g \in Field /\ \A k \in (1..9) \ {i} : g[k] = f[k] BY DEF Zone
<1>2. check_digit(f) = check_digit(g) BY DEF NumberChecks, matches_check
<1> HIDE DEF f, g
<1>3. ScaledSum(f) % 10 = ScaledSum(g) % 10 BY <1>1, <1>2, CheckDigitIsSum
<1>4. PICK rest \in Int : /\ ScaledSum(f) = rest + Scaled(i, f[i])
                          /\ ScaledSum(g) = rest + Scaled(i, g[i])
  BY <1>1, SumSplits
<1>5. ValueOf(f[i]) \in 0..35 /\ ValueOf(g[i]) \in 0..35
  BY <1>1 DEF Field, Char, ValueOf, Filler
<1>6. (rest + Scaled(i, f[i])) % 10 = (rest + Scaled(i, g[i])) % 10 BY <1>3, <1>4
<1>7. ValueOf(f[i]) % 10 = ValueOf(g[i]) % 10
  <2> DEFINE u == ValueOf(f[i])  v == ValueOf(g[i])
  <2>1. u \in 0..35 /\ v \in 0..35 BY <1>5
  <2>2. \/ (rest + 7 * u) % 10 = (rest + 7 * v) % 10
        \/ (rest + 3 * u) % 10 = (rest + 3 * v) % 10
        \/ (rest + u) % 10 = (rest + v) % 10
    <3>1. CASE Weight(i) = 7 BY <1>6, <3>1 DEF Scaled
    <3>2. CASE Weight(i) = 3 BY <1>6, <3>2 DEF Scaled
    <3>3. CASE Weight(i) = 1
      <4>1. Scaled(i, f[i]) = u /\ Scaled(i, g[i]) = v BY <1>5, <3>3 DEF Scaled
      <4> QED BY <1>6, <4>1
    <3> QED BY <3>1, <3>2, <3>3 DEF Weight
  <2> HIDE DEF u, v
  <2>3. u % 10 = v % 10
    <3>1. CASE (rest + 7 * u) % 10 = (rest + 7 * v) % 10
      BY <2>1, <3>1, TimesSevenTellsApart
    <3>2. CASE (rest + 3 * u) % 10 = (rest + 3 * v) % 10
      BY <2>1, <3>2, TimesThreeTellsApart
    <3>3. CASE (rest + u) % 10 = (rest + v) % 10 BY <2>1, <3>3, SMTT(60)
    <3> QED BY <2>2, <3>1, <3>2, <3>3
  <2> QED BY <2>3 DEF u, v
<1> QED BY <1>7 DEF f, g

(* A date of birth that is read lies in the last hundred years, whatever    *)
(* century its two digits were printed in (mrz._parse_date).                *)
THEOREM BirthsArePlausible == BirthPlausible
<1> SUFFICES ASSUME NEW f \in Field, NEW thisYear \in 2000..2099
             PROVE  parse_date(f, thisYear) # NoDate
                    => parse_date(f, thisYear).year \in (thisYear - 99)..thisYear
  BY ZenonT(30) DEF BirthPlausible
<1> HAVE parse_date(f, thisYear) # NoDate
<1> DEFINE date  == parse_date(f, thisYear)
            year  == Century(10 * f[1] + f[2], thisYear)
            fits  == /\ \A i \in 1..6 : f[i] \in Digit
                     /\ 10 * f[3] + f[4] \in 1..12
                     /\ 10 * f[5] + f[6] \in 1..DaysIn(10 * f[3] + f[4], year)
            found == [year |-> year, month |-> 10 * f[3] + f[4], day |-> 10 * f[5] + f[6]]
<1>1. date = IF fits THEN found ELSE NoDate BY DEF parse_date
<1>2. date # NoDate OBVIOUS
<1>3. found.year = year OBVIOUS
<1>4. fits => year \in (thisYear - 99)..thisYear
  <2> SUFFICES ASSUME f[1] \in Digit, f[2] \in Digit
               PROVE  year \in (thisYear - 99)..thisYear
    OBVIOUS
  <2>1. 10 * f[1] + f[2] \in 0..99 BY DEF Digit
  <2> QED BY <2>1 DEF Century
<1> HIDE DEF date, year, fits, found
<1>5. CASE fits BY <1>1, <1>3, <1>4, <1>5 DEF date
<1>6. CASE ~fits BY <1>1, <1>2, <1>6
<1> QED BY <1>5, <1>6
---------------------------------------------------------------------------
(***************************************************************************)
(* A bank statement: its score and its balances.                           *)
(***************************************************************************)
---------------------------------------------------------------------------
(* The score is called 0 to 100, and nobody gets more than 85; the signs of *)
(* tampering leave at most 60 and never help.                               *)
LEMMA RoundedBelow ==
  ASSUME NEW points \in Int, points > 0, NEW top \in Nat, points <= top * Part
  PROVE  RoundEven(points, Part) \in Nat /\ RoundEven(points, Part) <= top
BY SMTT(30) DEF RoundEven, RoundDiv, Part

THEOREM ScoreTopsOut ==
  ASSUME NEW avg_in \in Nat, NEW net \in Int, NEW regularity \in 0..100, NEW debt \in Nat,
         NEW balance \in Int, NEW lenders \in Nat, NEW tampering \in BOOLEAN
  PROVE  affordability_score(avg_in, net, regularity, debt, balance, lenders, tampering)
           \in 0..(IF tampering THEN 60 ELSE 85)
<1> DEFINE points == Points(avg_in, net, regularity, debt, balance, lenders, tampering)
           burden == IF avg_in = 0 THEN 0
                     ELSE IF debt >= avg_in THEN 25 * Part ELSE (25 * Part * debt) \div avg_in
           top == IF tampering THEN 60 ELSE 85
<1>1. burden \in Nat
  <2>1. 25 * Part \in Nat /\ 25 * Part * debt \in Nat BY DEF Part
  <2>2. ASSUME avg_in # 0 PROVE (25 * Part * debt) \div avg_in \in Nat
    <3> DEFINE served == 25 * Part * debt
    <3>1. served \in Nat BY <2>1
    <3> HIDE DEF served
    <3>2. served \div avg_in \in Nat BY <2>2, <3>1
    <3> QED BY <3>2 DEF served
  <2> QED BY <2>1, <2>2
<1>2. points \in Int /\ points <= top * Part
  <2>1. points =   Least(9 * avg_in, 30 * Part) + Least(20 * AtLeast(net, 0), 25 * Part)
                 + 4800 * regularity + Least(12 * AtLeast(balance, 0), 10 * Part)
                 - burden - 2 * Part * Least(lenders, 5) - (IF tampering THEN 25 * Part ELSE 0)
    BY DEF Points
  <2>2. /\ Least(9 * avg_in, 30 * Part) \in Int /\ Least(9 * avg_in, 30 * Part) <= 720000
        /\ Least(20 * AtLeast(net, 0), 25 * Part) \in Int
        /\ Least(20 * AtLeast(net, 0), 25 * Part) <= 600000
        /\ Least(12 * AtLeast(balance, 0), 10 * Part) \in Int
        /\ Least(12 * AtLeast(balance, 0), 10 * Part) <= 240000
        /\ Least(lenders, 5) \in Nat
    BY DEF Least, AtLeast, Part
  <2> HIDE DEF points, burden
  <2> QED BY <1>1, <2>1, <2>2 DEF Part
<1>3. top \in Nat /\ top <= 100 OBVIOUS
<1> HIDE DEF points, top
<1>4. ASSUME points > 0 PROVE RoundEven(points, Part) \in Nat /\ RoundEven(points, Part) <= top
  BY <1>2, <1>3, <1>4, RoundedBelow
<1>5. affordability_score(avg_in, net, regularity, debt, balance, lenders, tampering)
        = Least(100, IF points <= 0 THEN 0 ELSE RoundEven(points, Part))
  BY DEF affordability_score, points
<1>6. affordability_score(avg_in, net, regularity, debt, balance, lenders, tampering) \in 0..top
  BY <1>2, <1>3, <1>4, <1>5 DEF Least
<1> QED BY <1>6 DEF top

---------------------------------------------------------------------------
(* One altered balance, well off, breaks the running balance twice: at its  *)
(* row and at the next.  Whether the statement is suspect then depends on   *)
(* its length: two rows are more than 15 percent only up to 14 rows.        *)
LEMMA SuspectIsSevere ==
  ASSUME NEW lines, Breaks(lines) # {}
  PROVE  tampering_suspected(lines) <=> Severe(lines)
<1>1. ASSUME Severe(lines) PROVE tampering_suspected(lines)
  <2> DEFINE f == [code |-> "balance_discontinuity", severity |-> "high"]
  <2>1. f \in integrity_flags(lines) BY <1>1 DEF integrity_flags
  <2> QED BY <2>1 DEF tampering_suspected
<1>2. ASSUME tampering_suspected(lines) PROVE Severe(lines)
  <2>1. PICK f \in integrity_flags(lines) : f.severity = "high" BY <1>2 DEF tampering_suspected
  <2> QED BY <2>1 DEF integrity_flags
<1> QED BY <1>1, <1>2

LEMMA RowFields ==
  ASSUME NEW r \in Row
  PROVE  r.balance \in Int /\ r.paid_in \in Int /\ r.withdrawn \in Int
BY DEF Row

LEMMA MissBy ==
  ASSUME NEW before \in Int, NEW change \in Int, NEW after \in Int, NEW balance \in Int
  PROVE  /\ before + change - balance = before + change - after - (balance - after)
         /\ balance + change - after = before + change - after + (balance - before)
OBVIOUS

THEOREM OneAlteredBalance ==
  ASSUME NEW lines \in Seq(Row), Breaks(lines) = {}, NEW k \in 2..Len(lines) - 1,
         NEW balance \in Int, balance - lines[k].balance > 200 \/ balance - lines[k].balance < -200
  PROVE  LET altered == [lines EXCEPT ![k].balance = balance]
         IN /\ Breaks(altered) = {k, k + 1}
            /\ tampering_suspected(altered) <=> Len(lines) <= 14
<1> DEFINE altered == [lines EXCEPT ![k].balance = balance]
           old(i) == lines[i].balance
           change(i) == lines[i].paid_in - lines[i].withdrawn
           by == balance - old(k)
<1>1. /\ Len(lines) \in Nat /\ k \in Int /\ k \in 1..Len(lines) /\ k + 1 \in 1..Len(lines)
      /\ k \in 2..Len(lines) /\ k + 1 \in 2..Len(lines) /\ Len(altered) = Len(lines)
  OBVIOUS
<1>2. ASSUME NEW i \in 1..Len(lines)
      PROVE  old(i) \in Int /\ change(i) \in Int /\ lines[i].paid_in \in Int /\ lines[i].withdrawn \in Int
  <2>1. lines[i] \in Row OBVIOUS
  <2>2. lines[i].balance \in Int /\ lines[i].paid_in \in Int /\ lines[i].withdrawn \in Int
    BY <2>1, RowFields
  <2> QED BY <2>2
<1>3. /\ altered[k].balance = balance
      /\ altered[k].paid_in = lines[k].paid_in /\ altered[k].withdrawn = lines[k].withdrawn
      /\ \A i \in 1..Len(lines) : i # k => altered[i] = lines[i]
  <2>1. lines[k] \in Row BY <1>1
  <2> QED BY <1>1, <2>1 DEF Row
<1> HIDE DEF altered, old, change, by
<1>4. ASSUME NEW i \in 2..Len(lines)
      PROVE  /\ i - 1 \in 1..Len(lines) /\ i \in 1..Len(lines) /\ i \in Int
             /\ Miss(lines, i) = old(i - 1) + change(i) - old(i)
  <2>1. i - 1 \in 1..Len(lines) /\ i \in 1..Len(lines) /\ i \in Int BY <1>1
  <2>2. old(i - 1) \in Int /\ old(i) \in Int /\ lines[i].paid_in \in Int /\ lines[i].withdrawn \in Int
    BY <1>2, <2>1
  <2>3. Miss(lines, i) = lines[i - 1].balance + lines[i].paid_in - lines[i].withdrawn - lines[i].balance
    BY DEF Miss
  <2>4. old(i - 1) = lines[i - 1].balance /\ old(i) = lines[i].balance
        /\ change(i) = lines[i].paid_in - lines[i].withdrawn
    BY DEF old, change
  <2> QED BY <2>1, <2>2, <2>3, <2>4
<1>5. /\ Miss(altered, k) = Miss(lines, k) - by
      /\ Miss(altered, k + 1) = Miss(lines, k + 1) + by
  <2>1. /\ k - 1 \in 1..Len(lines) /\ k - 1 # k /\ k + 1 # k /\ (k + 1) - 1 = k
        /\ Miss(lines, k) = old(k - 1) + change(k) - old(k)
        /\ Miss(lines, k + 1) = old(k) + change(k + 1) - old(k + 1)
    BY <1>1, <1>4
  <2>2. altered[k - 1] = lines[k - 1] /\ altered[k + 1] = lines[k + 1] BY <1>1, <1>3, <2>1
  <2>3. /\ old(k - 1) \in Int /\ old(k) \in Int /\ old(k + 1) \in Int
        /\ lines[k].paid_in \in Int /\ lines[k].withdrawn \in Int
        /\ lines[k + 1].paid_in \in Int /\ lines[k + 1].withdrawn \in Int
    BY <1>1, <1>2, <2>1
  <2>4. Miss(altered, k) = old(k - 1) + change(k) - balance
    <3>1. Miss(altered, k) = lines[k - 1].balance + lines[k].paid_in - lines[k].withdrawn - balance
      BY <1>3, <2>2 DEF Miss
    <3> QED BY <2>3, <3>1 DEF old, change
  <2>5. Miss(altered, k + 1) = balance + change(k + 1) - old(k + 1)
    <3>1. Miss(altered, k + 1) = balance + lines[k + 1].paid_in - lines[k + 1].withdrawn - lines[k + 1].balance
      BY <1>3, <2>1, <2>2 DEF Miss
    <3> QED BY <2>3, <3>1 DEF old, change
  <2>6. change(k) \in Int /\ change(k + 1) \in Int BY <1>1, <1>2
  <2>7. Miss(altered, k) = Miss(lines, k) - (balance - old(k))
    BY <2>1, <2>3, <2>4, <2>6, MissBy
  <2>8. Miss(altered, k + 1) = Miss(lines, k + 1) + (balance - old(k))
    BY <2>1, <2>3, <2>5, <2>6, MissBy
  <2> QED BY <2>7, <2>8 DEF by
<1>6. ASSUME NEW i \in 2..Len(lines), i \notin {k, k + 1}
      PROVE  Miss(altered, i) = Miss(lines, i)
  <2>1. i \in 1..Len(lines) /\ i - 1 \in 1..Len(lines) /\ i # k /\ i - 1 # k BY <1>1, <1>4, <1>6
  <2>2. altered[i] = lines[i] /\ altered[i - 1] = lines[i - 1] BY <1>3, <2>1
  <2> QED BY <2>2 DEF Miss
<1>7. Breaks(altered) = {k, k + 1}
  <2>1. \A i \in 2..Len(lines) : Miss(lines, i) \in Int /\ Miss(lines, i) <= 100 /\ Miss(lines, i) >= -100
    <3>1. ASSUME NEW i \in 2..Len(lines) PROVE Miss(lines, i) \in Int
      <4>1. /\ i - 1 \in 1..Len(lines) /\ i \in 1..Len(lines)
            /\ Miss(lines, i) = old(i - 1) + change(i) - old(i)
        BY <1>4
      <4>2. old(i - 1) \in Int BY <1>2, <4>1
      <4>3. old(i) \in Int /\ change(i) \in Int BY <1>2, <4>1
      <4> QED BY <4>1, <4>2, <4>3
    <3> QED BY <3>1 DEF Breaks
  <2>2. by \in Int /\ (by > 200 \/ by < -200)
    <3>1. old(k) \in Int BY <1>1, <1>2
    <3>2. by = balance - old(k) /\ by = balance - lines[k].balance BY DEF by, old
    <3> QED BY <3>1, <3>2
  <2>3. k \in Breaks(altered) BY <1>1, <1>5, <2>1, <2>2 DEF Breaks
  <2>4. k + 1 \in Breaks(altered) BY <1>1, <1>5, <2>1, <2>2 DEF Breaks
  <2>5. \A i \in Breaks(altered) : i \in {k, k + 1}
    BY <1>1, <1>6, <2>1 DEF Breaks
  <2> QED BY <2>3, <2>4, <2>5
<1>8. Cardinality(Breaks(altered)) = 2
  <2>1. {k, k + 1} = k..k + 1 BY <1>1
  <2>2. k + 1 \in Int /\ ~(k > k + 1) /\ (k + 1) - k + 1 = 2 BY <1>1
  <2>3. Cardinality(k..k + 1) = IF k > k + 1 THEN 0 ELSE (k + 1) - k + 1 BY <1>1, <2>2, FS_Interval
  <2> QED BY <1>7, <2>1, <2>2, <2>3
<1>9. Severe(altered) <=> Len(lines) <= 14 BY <1>1, <1>8 DEF Severe, AtLeast
<1> QED BY <1>7, <1>9, SuspectIsSevere DEF altered
---------------------------------------------------------------------------
(***************************************************************************)
(* Onboarding.  What a request has read was so at some moment of it: this is *)
(* inductive (RequestsTrue), and every verdict and every conversion is the *)
(* step of a request.                                                      *)
(***************************************************************************)
(* What a request has read was so at some moment of the request: what its  *)
(* copy of the row says was held or missed, and so is what the row and the *)
(* tables say now; a client that it found open was open.                   *)
InRow == {"age", "mpesa", "alt_phone"}

Seen(s) ==
  LET w == work[s]
  IN /\ w.step = "ekyc" =>
          /\ w.client \in Clients
          /\ Held(w.client) \subseteq window[s].held
          /\ CHECKS \ Held(w.client) \subseteq window[s].missed
          /\ FromRow(w.copy) \subseteq window[s].held
          /\ InRow \ FromRow(w.copy) \subseteq window[s].missed
          /\ Open(w.copy.kyc) => window[s].open
     /\ w.step \in {"convert", "cascade"} => w.lead \in Leads
     /\ w.step = "convert" => window[s].ready
     /\ w.step = "cascade" => w.client \in Clients

RequestsTrue == OnboardingTypeOK /\ \A s \in Staff : Seen(s)
---------------------------------------------------------------------------
Windows == [held : SUBSET CHECKS, missed : SUBSET CHECKS, open : BOOLEAN, ready : BOOLEAN]

LEMMA RowChecks == \A row : FromRow(row) \subseteq InRow /\ InRow \subseteq CHECKS
  BY DEF FromRow, InRow, CHECKS

LEMMA TableChecks ==
  \A c : /\ FromTables(c) \subseteq CHECKS \ InRow /\ Held(c) = FromRow(client[c]) \cup FromTables(c)
         /\ Held(c) \subseteq CHECKS
  BY RowChecks DEF FromTables, InRow, CHECKS, Held

LEMMA LookType == \A s : Look(s)' \in Windows
<1> TAKE s
<1> DEFINE ekyc == work'[s].step = "ekyc"
           has == Held(work[s].client)'
<1>1. has \subseteq CHECKS BY RowChecks DEF Held, FromTables, CHECKS
<1>2. Look(s)' = [held |-> IF ekyc THEN has ELSE {}, missed |-> IF ekyc THEN CHECKS \ has ELSE {},
                  open |-> ekyc /\ client'[work'[s].client].kyc \notin {"validated", "rejected"},
                  ready |-> work'[s].step = "convert" /\ lead'[work'[s].lead].approval = "approved"
                                                      /\ lead'[work'[s].lead].client = Nobody]
  BY DEF Look
<1> HIDE DEF has
<1> QED BY <1>1, <1>2 DEF Windows

(* What a step adds to what was so during a request. *)
LEMMA WatchStep ==
  ASSUME OnboardingTypeOK, Watch
  PROVE  /\ window' \in [Staff -> Windows]
         /\ \A s \in Staff : work'[s].step # work[s].step => window'[s] = Look(s)'
         /\ \A s \in Staff : work'[s].step = work[s].step =>
              /\ window'[s].held = window[s].held \cup Look(s)'.held
              /\ window'[s].missed = window[s].missed \cup Look(s)'.missed
              /\ window'[s].open = (window[s].open \/ Look(s)'.open)
              /\ window'[s].ready = (window[s].ready \/ Look(s)'.ready)
<1> DEFINE Wide(s) == [held   |-> window[s].held \cup Look(s)'.held,
                       missed |-> window[s].missed \cup Look(s)'.missed,
                       open   |-> window[s].open \/ Look(s)'.open,
                       ready  |-> window[s].ready \/ Look(s)'.ready]
<1>1. window' = [s \in Staff |-> IF work[s].step # work'[s].step THEN Look(s)' ELSE Wide(s)]
  BY DEF Watch
<1>2. window \in [Staff -> Windows] BY DEF OnboardingTypeOK, Windows
<1>3. \A s \in Staff : Wide(s) \in Windows
  <2> TAKE s \in Staff
  <2> DEFINE look == Look(s)'
  <2>1. look \in Windows /\ window[s] \in Windows BY <1>2, LookType
  <2>2. Wide(s) = [held |-> window[s].held \cup look.held, missed |-> window[s].missed \cup look.missed,
                   open |-> window[s].open \/ look.open, ready |-> window[s].ready \/ look.ready]
    OBVIOUS
  <2> HIDE DEF look, Wide
  <2> QED BY <2>1, <2>2 DEF Windows
<1>4. \A s \in Staff : window'[s] = IF work[s].step # work'[s].step THEN Look(s)' ELSE Wide(s)
  BY <1>1
<1>5. window' \in [Staff -> Windows]
  <2> HIDE DEF Wide
  <2> QED BY <1>1, <1>3, LookType
<1> QED BY <1>4, <1>5

(* A request that goes on keeps what it has seen. *)
LEMMA SeenOn ==
  ASSUME OnboardingTypeOK, Watch, NEW s \in Staff, Seen(s), work'[s] = work[s]
  PROVE  Seen(s)'
<1> DEFINE w == work[s]
           has == Held(w.client)'
<1>1. /\ window'[s].held = window[s].held \cup Look(s)'.held
      /\ window'[s].missed = window[s].missed \cup Look(s)'.missed
      /\ window'[s].open = (window[s].open \/ Look(s)'.open)
      /\ window'[s].ready = (window[s].ready \/ Look(s)'.ready)
  BY WatchStep
<1>2. w.step = "ekyc" => Look(s)'.held = has /\ Look(s)'.missed = CHECKS \ has
  BY DEF Look
<1>3. window[s].open \in BOOLEAN /\ window[s].ready \in BOOLEAN BY DEF OnboardingTypeOK
<1>4. w.step = "ekyc" =>
         /\ w.client \in Clients
         /\ has \subseteq window'[s].held
         /\ CHECKS \ has \subseteq window'[s].missed
         /\ FromRow(w.copy) \subseteq window'[s].held
         /\ InRow \ FromRow(w.copy) \subseteq window'[s].missed
         /\ Open(w.copy.kyc) => window'[s].open
  <2> HIDE DEF has
  <2> QED BY <1>1, <1>2, <1>3 DEF Seen
<1>5. w.step = "convert" => window'[s].ready BY <1>1, <1>3 DEF Seen
<1>6. Held(work[s].client)' = has OBVIOUS
<1> HIDE DEF has
<1> QED BY <1>4, <1>5, <1>6 DEF Seen

LEMMA SeenIdle ==
  ASSUME NEW s \in Staff, work'[s] = Idle
  PROVE  Seen(s)'
  BY DEF Seen, Idle
---------------------------------------------------------------------------
StoredOK ==
  /\ client \in [Clients -> Client] /\ lead \in [Leads -> Lead] /\ wallet \in [Wallets -> Wallet]
  /\ escalation \in [Clients -> {"none", "open", "resolved", "overridden"}]
  /\ prefs \in SUBSET CHECKS /\ checks \in 0..MaxChecks

LEMMA TypeIs ==
  OnboardingTypeOK <=> StoredOK /\ work \in [Staff -> Work] /\ window \in [Staff -> Windows]
  BY DEF OnboardingTypeOK, StoredOK, Windows

(* A step that no request takes. *)
LEMMA QuietRequests ==
  ASSUME RequestsTrue, Watch, StoredOK', work' = work
  PROVE  RequestsTrue'
<1>1. OnboardingTypeOK BY DEF RequestsTrue
<1>2. window' \in [Staff -> Windows] BY <1>1, WatchStep
<1>3. OnboardingTypeOK' BY <1>1, <1>2, TypeIs DEF OnboardingTypeOK, StoredOK, Windows
<1>4. \A s \in Staff : Seen(s)' BY <1>1, SeenOn DEF RequestsTrue
<1> QED BY <1>3, <1>4 DEF RequestsTrue

(* A step of one request. *)
LEMMA OneRequest ==
  ASSUME RequestsTrue, Watch, StoredOK', NEW s \in Staff, NEW w \in Work,
         work' = [work EXCEPT ![s] = w], Seen(s)'
  PROVE  RequestsTrue'
<1>1. OnboardingTypeOK BY DEF RequestsTrue
<1>2. work \in [Staff -> Work] BY <1>1, TypeIs
<1>3. work' \in [Staff -> Work] /\ \A t \in Staff : t # s => work'[t] = work[t] BY <1>2
<1>4. window' \in [Staff -> Windows] BY <1>1, WatchStep
<1>5. OnboardingTypeOK' BY <1>3, <1>4 DEF OnboardingTypeOK, StoredOK, Windows
<1>6. \A t \in Staff : t # s => Seen(t)' BY <1>1, <1>3, SeenOn DEF RequestsTrue
<1> QED BY <1>5, <1>6 DEF RequestsTrue

LEMMA CheckType == StoredOK /\ Check => checks' \in 0..MaxChecks
<1> SUFFICES ASSUME StoredOK, Check PROVE checks' \in 0..MaxChecks OBVIOUS
<1>1. checks \in 0..MaxChecks /\ checks < MaxChecks /\ checks' = checks + 1 BY DEF StoredOK, Check
<1> QED BY <1>1, OnboardingAssumption

LEMMA AbsentType == Absent \in Client /\ Absent.kyc = "none"
  BY DEF Absent, Client, KycStatus, FaceResults

(* Nobody but the engine gives a verdict. *)
NoVerdict ==
  /\ StoredOK' /\ work' = work /\ lead' = lead /\ prefs' = prefs
  /\ \A d \in Clients : client[d].kyc \in {"none", client'[d].kyc}

(* A request about one client keeps the rows what they are.  Only the      *)
(* creation of a client touches its KYC status.                            *)
LEMMA ClientPut ==
  ASSUME StoredOK, NEW c \in Clients, NEW row \in Client, client' = [client EXCEPT ![c] = row],
         wallet' \in [Wallets -> Wallet], Unmoved, checks' \in 0..MaxChecks,
         client[c].kyc \in {"none", row.kyc}
  PROVE  NoVerdict
<1>1. client \in [Clients -> Client] BY DEF StoredOK
<1>2. client' \in [Clients -> Client] /\ \A d \in Clients : client'[d] = IF d = c THEN row ELSE client[d]
  BY <1>1
<1>3. lead' = lead /\ escalation' = escalation /\ prefs' = prefs /\ work' = work BY DEF Unmoved
<1>4. StoredOK' BY <1>2, <1>3 DEF StoredOK
<1> QED BY <1>2, <1>3, <1>4 DEF NoVerdict

LEMMA OnClientStep ==
  ASSUME StoredOK, NEW c \in Clients, OnClient(c)
  PROVE  NoVerdict
<1> DEFINE row == client[c]
<1>1. client \in [Clients -> Client] /\ row \in Client /\ wallet \in [Wallets -> Wallet]
      /\ checks \in 0..MaxChecks
  BY DEF StoredOK
<1>2. ASSUME NEW adult \in BOOLEAN, CreateClient(c, adult)
      PROVE  NoVerdict
  <2> DEFINE new == [Absent EXCEPT !.kyc = "draft", !.adult = adult]
  <2>1. new \in Client BY AbsentType DEF Client, KycStatus
  <2>2. client' = [client EXCEPT ![c] = new] /\ Unmoved /\ wallet' = wallet /\ checks' = checks
        /\ row.kyc = "none"
    BY <1>2 DEF CreateClient, Known
  <2> HIDE DEF new
  <2> QED BY <1>1, <2>1, <2>2, ClientPut
<1>3. ASSUME NEW adult \in BOOLEAN, ApproveEdit(c, adult)
      PROVE  NoVerdict
  <2> DEFINE new == [row EXCEPT !.adult = adult, !.alt = IF row.alt = "none" THEN "stored" ELSE row.alt]
  <2>1. new \in Client /\ new.kyc = row.kyc BY <1>1 DEF Client
  <2>2. client' = [client EXCEPT ![c] = new]
    BY <1>1, <1>3 DEF ApproveEdit, Client
  <2>3. Unmoved /\ wallet' = wallet /\ Check BY <1>3 DEF ApproveEdit
  <2> HIDE DEF new
  <2> QED BY <1>1, <2>1, <2>2, <2>3, CheckType, ClientPut
<1>4. ASSUME NEW body \in [adult : BOOLEAN, kyc : KycStatus],
             NEW wanted \in [Wallets -> Numbers \cup {Nobody}], UpdateClient(c, body, wanted)
      PROVE  NoVerdict
  <2> DEFINE new == [row EXCEPT !.adult = body.adult]
  <2>1. new \in Client /\ new.kyc = row.kyc BY <1>1 DEF Client
  <2>2. client' = [client EXCEPT ![c] = new] /\ wallet' = Synced(c, wanted) /\ Unmoved /\ Check
    BY <1>4 DEF UpdateClient, Applied
  <2>3. Synced(c, wanted) \in [Wallets -> Wallet]
    <3>1. ASSUME NEW w \in Wallets
          PROVE  /\ wallet[w] \in Wallet /\ NoRow \in Wallet
                 /\ [wallet[w] EXCEPT !.client = c, !.number = wanted[w]] \in Wallet
      BY <1>1 DEF Wallet, NoRow
    <3>2. \A w \in Wallets : Synced(c, wanted)[w] \in Wallet BY <3>1 DEF Synced
    <3>3. Synced(c, wanted) = [w \in Wallets |-> Synced(c, wanted)[w]] BY DEF Synced
    <3> QED BY <3>2, <3>3
  <2> HIDE DEF new
  <2> QED BY <1>1, <2>1, <2>2, <2>3, CheckType, ClientPut
<1>5. ASSUME NEW number \in Numbers, NEW matched \in BOOLEAN, ValidateMpesa(c, number, matched)
      PROVE  NoVerdict
  <2> DEFINE new == [row EXCEPT !.mpesa = matched]
  <2>1. new \in Client /\ new.kyc = row.kyc BY <1>1 DEF Client
  <2>2. client' = [client EXCEPT ![c] = new] /\ Unmoved /\ Check
    BY <1>1, <1>5 DEF ValidateMpesa
  <2>3. wallet' \in [Wallets -> Wallet] BY <1>1, <1>5 DEF ValidateMpesa, Wallet
  <2> HIDE DEF new
  <2> QED BY <1>1, <2>1, <2>2, <2>3, CheckType, ClientPut
<1>6. ASSUME NEW new \in Client, new.kyc = row.kyc, client' = [client EXCEPT ![c] = new],
             Unmoved, Check, wallet' = wallet
      PROVE  NoVerdict
  BY <1>1, <1>6, CheckType, ClientPut
<1>7. ASSUME NEW wellFormed \in BOOLEAN, ValidateAltPhone(c, wellFormed)
      PROVE  NoVerdict
  <2> DEFINE alt == IF wellFormed THEN "validated" ELSE "stored"
  <2>1. client' = [client EXCEPT ![c] = [row EXCEPT !.alt = alt]] /\ Unmoved /\ Check /\ wallet' = wallet
    BY <1>7 DEF ValidateAltPhone
  <2>2. alt \in {"none", "stored", "validated"} OBVIOUS
  <2> HIDE DEF row, alt
  <2>3. [row EXCEPT !.alt = alt] \in Client /\ [row EXCEPT !.alt = alt].kyc = row.kyc
    BY <1>1, <2>2 DEF Client
  <2> QED BY <1>6, <2>1, <2>3
<1>8. ASSUME NEW result \in FaceResults, FaceValidate(c, result)
      PROVE  NoVerdict
  <2>1. client' = [client EXCEPT ![c] = [row EXCEPT !.face = result]] /\ Unmoved /\ Check /\ wallet' = wallet
    BY <1>8 DEF FaceValidate
  <2> HIDE DEF row
  <2>2. [row EXCEPT !.face = result] \in Client /\ [row EXCEPT !.face = result].kyc = row.kyc
    BY <1>1 DEF Client
  <2> QED BY <1>6, <2>1, <2>2
<1>9. ASSUME CrbCheck(c)
       PROVE  NoVerdict
  <2>1. client' = [client EXCEPT ![c] = [row EXCEPT !.crb = TRUE]] /\ Unmoved /\ Check /\ wallet' = wallet
    BY <1>9 DEF CrbCheck
  <2> HIDE DEF row
  <2>2. [row EXCEPT !.crb = TRUE] \in Client /\ [row EXCEPT !.crb = TRUE].kyc = row.kyc
    BY <1>1 DEF Client
  <2> QED BY <1>6, <2>1, <2>2
<1>10. ASSUME AddGuarantor(c) \/ DeleteGuarantor(c) \/ ValidateGuarantor(c)
       PROVE  NoVerdict
  <2>1. PICK guarantor \in {"none", "pending", "validated"} :
          client' = [client EXCEPT ![c] = [row EXCEPT !.guarantor = guarantor]]
    BY <1>10 DEF AddGuarantor, DeleteGuarantor, ValidateGuarantor, NameCheck
  <2>2. Unmoved /\ Check /\ wallet' = wallet
    BY <1>10 DEF AddGuarantor, DeleteGuarantor, ValidateGuarantor
  <2> HIDE DEF row
  <2>3. [row EXCEPT !.guarantor = guarantor] \in Client /\ [row EXCEPT !.guarantor = guarantor].kyc = row.kyc
    BY <1>1 DEF Client
  <2> QED BY <1>6, <2>1, <2>2, <2>3
<1>11. ASSUME NEW status \in {"none", "open", "resolved", "overridden"},
              escalation' = [escalation EXCEPT ![c] = status], Check,
              UNCHANGED <<client, lead, wallet, prefs, work>>
       PROVE  NoVerdict
  BY <1>11, CheckType DEF StoredOK, NoVerdict
<1>12. ASSUME NEW status \in {"open", "resolved", "overridden"}, UpdateEscalation(c, status)
       PROVE  NoVerdict
  BY <1>11, <1>12 DEF UpdateEscalation
<1>13. ASSUME LogEscalation(c)
       PROVE  NoVerdict
  BY <1>11, <1>13 DEF LogEscalation
<1> QED
  BY <1>2, <1>3, <1>4, <1>5, <1>7, <1>8, <1>9, <1>10, <1>12, <1>13 DEF OnClient

LEMMA OnLeadStep ==
  ASSUME StoredOK, NEW l \in Leads, OnLead(l)
  PROVE  StoredOK' /\ work' = work /\ client' = client /\ \A k \in Leads : lead'[k].client = lead[k].client
<1>1. PICK word \in {"new", "approved", "rejected"} : lead' = [lead EXCEPT ![l].approval = word]
  BY DEF OnLead, CreateLead, BmApprove, BmReject, BmSays
<1>2. UNCHANGED <<client, wallet, escalation, prefs, work, checks>>
  BY DEF OnLead, CreateLead, BmApprove, BmReject, BmSays
<1>3. lead \in [Leads -> Lead] BY DEF StoredOK
<1>4. \A k \in Leads : [lead[k] EXCEPT !.approval = word] \in Lead
                       /\ [lead[k] EXCEPT !.approval = word].client = lead[k].client
  <2>1. ASSUME NEW row \in Lead
        PROVE  [row EXCEPT !.approval = word] \in Lead /\ [row EXCEPT !.approval = word].client = row.client
    BY DEF Lead
  <2> QED BY <1>3, <2>1
<1>5. lead' \in [Leads -> Lead] /\ \A k \in Leads : lead'[k].client = lead[k].client
  BY <1>1, <1>3, <1>4
<1> QED BY <1>2, <1>5 DEF StoredOK

(* The engine: its decision, and what it rests on. *)
LEMMA EvaluateIs ==
  \A c, row :
    /\ Evaluate(c, row) \in {"pass", "escalate", "fail"}
    /\ Evaluate(c, row) = "pass" => prefs \subseteq FromRow(row) \cup FromTables(c)
    /\ Evaluate(c, row) = "escalate" => prefs \subseteq FromRow(row) \cup FromTables(c) \cup {"face"}
    /\ Evaluate(c, row) = "fail" => \E k \in prefs : k \notin FromRow(row) \cup FromTables(c)
<1> TAKE c, row
<1> DEFINE missing == prefs \ (FromRow(row) \cup FromTables(c))
<1>1. Evaluate(c, row) = CASE missing = {} -> "pass"
                           [] missing = {"face"} /\ client[c].face = "manual_review" -> "escalate"
                           [] OTHER -> "fail"
  BY DEF Evaluate
<1>2. CASE missing = {}
  BY <1>1, <1>2
<1>3. CASE missing = {"face"} /\ client[c].face = "manual_review"
  BY <1>1, <1>3
<1>4. CASE missing # {} /\ ~(missing = {"face"} /\ client[c].face = "manual_review")
  <2>1. Evaluate(c, row) = "fail"
    <3> HIDE DEF missing
    <3> QED BY <1>1, <1>4
  <2> QED BY <1>4, <2>1
<1> QED BY <1>2, <1>3, <1>4

Verdict(s) == KYC_STATUS_BY_DECISION[Evaluate(work[s].client, work[s].copy)]

LEMMA VerdictIs ==
  \A s : LET c == work[s].client
             row == work[s].copy
         IN /\ Verdict(s) \in KycStatus
            /\ Verdict(s) = "validated" => prefs \subseteq FromRow(row) \cup FromTables(c)
            /\ Verdict(s) = "escalation" => prefs \subseteq FromRow(row) \cup FromTables(c) \cup {"face"}
            /\ Verdict(s) = "rejected" => \E k \in prefs : k \notin FromRow(row) \cup FromTables(c)
            /\ Verdict(s) \in {"validated", "escalation", "rejected"}
<1> TAKE s
<1> DEFINE e == Evaluate(work[s].client, work[s].copy)
<1>1. e \in {"pass", "escalate", "fail"} BY EvaluateIs
<1>2. /\ (e = "pass" => Verdict(s) = "validated") /\ (e = "escalate" => Verdict(s) = "escalation")
      /\ (e = "fail" => Verdict(s) = "rejected")
  BY DEF Verdict, KYC_STATUS_BY_DECISION
<1> QED BY <1>1, <1>2, EvaluateIs DEF KycStatus

(* What a request's step does. *)
LEMMA DecideIs ==
  ASSUME RequestsTrue, NEW s \in Staff, Decide(s)
  PROVE  /\ StoredOK' /\ UNCHANGED <<lead, prefs>>
         /\ work[s].step = "ekyc" /\ work[s].client \in Clients
         /\ \A d \in Clients : client'[d].kyc # client[d].kyc =>
              d = work[s].client /\ client'[d].kyc = Verdict(s) /\ Open(work[s].copy.kyc)
<1> DEFINE c == work[s].client
           copy == work[s].copy
<1>1. work[s].step = "ekyc" /\ c \in Clients BY DEF RequestsTrue, Seen, Decide
<1>2. UNCHANGED <<lead, wallet, escalation, prefs, checks>> BY DEF Decide
<1>3. \/ client' = client
      \/ Open(copy.kyc) /\ client' = [client EXCEPT ![c].kyc = Verdict(s)]
  BY DEF Decide, Verdict
<1>4. client \in [Clients -> Client] BY DEF RequestsTrue, OnboardingTypeOK
<1>5. [client[c] EXCEPT !.kyc = Verdict(s)] \in Client /\ [client[c] EXCEPT !.kyc = Verdict(s)].kyc = Verdict(s)
  <2>1. Verdict(s) \in KycStatus \cup {"none"} BY VerdictIs
  <2>2. client[c] \in Client BY <1>1, <1>4
  <2> HIDE DEF c
  <2> QED BY <2>1, <2>2 DEF Client
<1> HIDE DEF c, copy
<1>6. client' \in [Clients -> Client]
      /\ \A d \in Clients : client'[d].kyc # client[d].kyc =>
           d = c /\ client'[d].kyc = Verdict(s) /\ Open(copy.kyc)
  <2>1. CASE client' = client BY <1>4, <2>1
  <2>2. CASE Open(copy.kyc) /\ client' = [client EXCEPT ![c].kyc = Verdict(s)]
    BY <1>1, <1>4, <1>5, <2>2
  <2> QED BY <1>3, <2>1, <2>2
<1>7. StoredOK' BY <1>2, <1>6 DEF RequestsTrue, OnboardingTypeOK, StoredOK
<1> QED BY <1>1, <1>2, <1>6, <1>7 DEF c, copy

LEMMA ConvertIs ==
  ASSUME RequestsTrue, NEW s \in Staff, NEW c \in Clients, NEW adult \in BOOLEAN, Convert(s, c, adult)
  PROVE  /\ StoredOK' /\ prefs' = prefs /\ work[s].step = "convert" /\ work[s].lead \in Leads
         /\ \A d \in Clients : client[d].kyc \in {"none", client'[d].kyc}
         /\ \A k \in Leads : lead'[k].client # lead[k].client => k = work[s].lead
<1> DEFINE l == work[s].lead
           row == [Absent EXCEPT !.kyc = "draft", !.adult = adult]
<1>1. /\ work[s].step = "convert" /\ client[c].kyc = "none" /\ UNCHANGED <<wallet, escalation, prefs, checks>>
      /\ client' = [client EXCEPT ![c] = row] /\ lead' = [lead EXCEPT ![l].client = c]
  BY DEF Convert, Known
<1>2. l \in Leads BY <1>1 DEF RequestsTrue, Seen
<1>3. row \in Client BY AbsentType DEF Client, KycStatus
<1>4. client \in [Clients -> Client] /\ lead \in [Leads -> Lead] BY DEF RequestsTrue, OnboardingTypeOK
<1>5. [lead[l] EXCEPT !.client = c] \in Lead
  <2>1. lead[l] \in Lead BY <1>2, <1>4
  <2> HIDE DEF l
  <2> QED BY <2>1 DEF Lead
<1> HIDE DEF l, row
<1>6. client' \in [Clients -> Client] /\ \A d \in Clients : client[d].kyc \in {"none", client'[d].kyc}
  BY <1>1, <1>3, <1>4
<1>7. lead' \in [Leads -> Lead] /\ \A k \in Leads : lead'[k].client # lead[k].client => k = l
  BY <1>1, <1>2, <1>4, <1>5
<1>8. StoredOK' BY <1>1, <1>6, <1>7 DEF RequestsTrue, OnboardingTypeOK, StoredOK
<1> QED BY <1>1, <1>2, <1>6, <1>7, <1>8 DEF l

LEMMA CascadeIs ==
  ASSUME RequestsTrue, NEW s \in Staff, Cascade(s)
  PROVE  /\ StoredOK' /\ UNCHANGED <<client, prefs>>
         /\ \A k \in Leads : lead'[k].client = lead[k].client
<1> DEFINE l == work[s].lead
           decision == Evaluate(work[s].client, client[work[s].client])
<1>1. work[s].step = "cascade" /\ UNCHANGED <<client, wallet, escalation, prefs, checks>>
  BY DEF Cascade
<1>2. l \in Leads BY <1>1 DEF RequestsTrue, Seen
<1>3. lead' = lead \/ lead' = [lead EXCEPT ![l].decision = decision] BY DEF Cascade
<1>4. lead \in [Leads -> Lead] BY DEF RequestsTrue, OnboardingTypeOK
<1>5. [lead[l] EXCEPT !.decision = decision] \in Lead
      /\ [lead[l] EXCEPT !.decision = decision].client = lead[l].client
  <2>1. lead[l] \in Lead BY <1>2, <1>4
  <2>2. decision \in Decisions BY EvaluateIs DEF Decisions
  <2> HIDE DEF l, decision
  <2> QED BY <2>1, <2>2 DEF Lead
<1> HIDE DEF l, decision
<1>6. lead' \in [Leads -> Lead] /\ \A k \in Leads : lead'[k].client = lead[k].client
  BY <1>2, <1>3, <1>4, <1>5
<1> QED BY <1>1, <1>6 DEF RequestsTrue, OnboardingTypeOK, StoredOK

LEMMA BeginType ==
  ASSUME RequestsTrue, NEW s \in Staff, NEW step \in {"ekyc", "convert"},
         NEW c \in Clients \cup {Nobody}, NEW l \in Leads \cup {Nobody}, Begin(s, step, c, l)
  PROVE  \E w \in Work : /\ work' = [work EXCEPT ![s] = w] /\ work'[s] = w
                         /\ w.step = step /\ w.client = c /\ w.lead = l
                         /\ c \in Clients => w.copy = client[c]
<1> DEFINE copy == IF c = Nobody THEN Absent ELSE client[c]
           w == [step |-> step, client |-> c, lead |-> l, copy |-> copy]
<1>1. copy \in Client BY AbsentType DEF RequestsTrue, OnboardingTypeOK
<1>2. c \in Clients => copy = client[c] BY OnboardingAssumption
<1>3. work' = [work EXCEPT ![s] = w] BY DEF Begin
<1> HIDE DEF copy
<1>4. w \in Work /\ w.step = step /\ w.client = c /\ w.lead = l /\ w.copy = copy BY <1>1 DEF Work
<1>5. work'[s] = w BY <1>3 DEF RequestsTrue, OnboardingTypeOK
<1> QED BY <1>2, <1>3, <1>4, <1>5

LEMMA IdleType == Idle \in Work /\ Idle.step = "idle"
  BY AbsentType DEF Idle, Work

(* A request ends. *)
LEMMA EndStep ==
  ASSUME RequestsTrue, Watch, StoredOK', NEW s \in Staff, End(s)
  PROVE  RequestsTrue'
<1>1. work' = [work EXCEPT ![s] = Idle] BY DEF End
<1>2. work'[s] = Idle BY <1>1 DEF RequestsTrue, OnboardingTypeOK
<1> QED BY <1>1, <1>2, IdleType, SeenIdle, OneRequest

(* Between two reads of a request nothing is lost of what it has seen. *)
LEMMA BeginEkycStep ==
  ASSUME RequestsTrue, Watch, NEW s \in Staff, NEW c \in Clients, BeginEkyc(s, c)
  PROVE  RequestsTrue'
<1>1. PICK w \in Work : /\ work' = [work EXCEPT ![s] = w] /\ work'[s] = w
                        /\ w.step = "ekyc" /\ w.client = c /\ w.copy = client[c]
  BY BeginType DEF BeginEkyc
<1>2. work[s].step = "idle" BY IdleType DEF BeginEkyc, Begin
<1>3. client' = client /\ lead' = lead /\ StoredOK'
  BY DEF BeginEkyc, stored, RequestsTrue, OnboardingTypeOK, StoredOK
<1>4. window'[s] = Look(s)' BY <1>1, <1>2, WatchStep DEF RequestsTrue
<1>5. Look(s)'.held = Held(c)' /\ Look(s)'.missed = CHECKS \ Held(c)'
      /\ Look(s)'.open = (client'[c].kyc \notin {"validated", "rejected"})
  BY <1>1 DEF Look
<1>6. Held(c)' = Held(c) BY <1>3 DEF Held, FromTables
<1>7. FromRow(w.copy) \subseteq Held(c) /\ InRow \ FromRow(w.copy) \subseteq CHECKS \ Held(c)
  BY <1>1, TableChecks, RowChecks
<1>8. Open(w.copy.kyc) => window'[s].open BY <1>1, <1>3, <1>4, <1>5 DEF Open
<1>9. Seen(s)'
  <2>1. Held(work[s].client)' = Held(c)' BY <1>1
  <2>2. w.step # "convert" /\ w.step # "cascade" BY <1>1
  <2> QED BY <1>1, <1>4, <1>5, <1>6, <1>7, <1>8, <2>1, <2>2 DEF Seen
<1> QED BY <1>1, <1>3, <1>9, OneRequest

LEMMA BeginConvertStep ==
  ASSUME RequestsTrue, Watch, NEW s \in Staff, NEW l \in Leads, BeginConvert(s, l)
  PROVE  RequestsTrue'
<1>1. PICK w \in Work : /\ work' = [work EXCEPT ![s] = w] /\ work'[s] = w
                        /\ w.step = "convert" /\ w.lead = l
  <2>1. Begin(s, "convert", Nobody, l) /\ Nobody \in Clients \cup {Nobody} BY DEF BeginConvert
  <2> QED BY <2>1, BeginType
<1>2. work[s].step = "idle" BY IdleType DEF BeginConvert, Begin
<1>3. client' = client /\ lead' = lead /\ StoredOK'
  BY DEF BeginConvert, stored, RequestsTrue, OnboardingTypeOK, StoredOK
<1>4. window'[s] = Look(s)' BY <1>1, <1>2, WatchStep DEF RequestsTrue
<1>5. Look(s)'.ready = (lead'[l].approval = "approved" /\ lead'[l].client = Nobody)
  BY <1>1 DEF Look
<1>6. window'[s].ready BY <1>3, <1>4, <1>5 DEF BeginConvert, Convertible
<1>7. Seen(s)' BY <1>1, <1>6 DEF Seen
<1> QED BY <1>1, <1>3, <1>7, OneRequest

LEMMA ConvertStep ==
  ASSUME RequestsTrue, Watch, NEW s \in Staff, NEW c \in Clients, NEW adult \in BOOLEAN,
         Convert(s, c, adult)
  PROVE  RequestsTrue'
<1> DEFINE v == work[s]
           w == [v EXCEPT !.step = "cascade", !.client = c]
<1>1. v \in Work /\ v.step = "convert" /\ v.lead \in Leads
  BY ConvertIs DEF RequestsTrue, OnboardingTypeOK
<1>2. StoredOK' BY ConvertIs
<1>3. work' = [work EXCEPT ![s] = w] BY DEF Convert
<1>4. work'[s] = w BY <1>3 DEF RequestsTrue, OnboardingTypeOK
<1> HIDE DEF v
<1>5. w \in Work /\ w.step = "cascade" /\ w.client = c /\ w.lead = v.lead BY <1>1 DEF Work
<1> HIDE DEF w
<1>6. Seen(s)' BY <1>1, <1>4, <1>5 DEF Seen
<1> QED BY <1>2, <1>3, <1>5, <1>6, OneRequest

LEMMA RequestsInit == OnboardingInit => RequestsTrue
<1> SUFFICES ASSUME OnboardingInit PROVE RequestsTrue OBVIOUS
<1> USE DEF OnboardingInit
<1>1. client \in [Clients -> Client] BY AbsentType
<1>2. lead \in [Leads -> Lead] BY DEF Lead, Decisions
<1>3. wallet \in [Wallets -> Wallet] BY DEF Wallet, NoRow
<1>4. escalation \in [Clients -> {"none", "open", "resolved", "overridden"}] OBVIOUS
<1>5. prefs \in SUBSET CHECKS /\ checks \in 0..MaxChecks
  BY OnboardingAssumption DEF Default, CHECKS
<1>6. work \in [Staff -> Work] /\ \A s \in Staff : work[s].step = "idle" BY IdleType
<1>7. window \in [Staff -> Windows] BY DEF Windows
<1>8. \A s \in Staff : Seen(s) BY <1>6 DEF Seen
<1> QED BY <1>1, <1>2, <1>3, <1>4, <1>5, <1>6, <1>7, <1>8, TypeIs DEF RequestsTrue, StoredOK

LEMMA RequestsNext == RequestsTrue /\ [OnboardingNext]_onboarding => RequestsTrue'
<1> SUFFICES ASSUME RequestsTrue, [OnboardingNext]_onboarding PROVE RequestsTrue' OBVIOUS
<1>0. StoredOK BY TypeIs DEF RequestsTrue
<1>1. CASE UNCHANGED onboarding
  <2>1. UNCHANGED <<client, lead, wallet, escalation, prefs, work, window, checks>>
    BY <1>1 DEF onboarding, stored
  <2>2. OnboardingTypeOK' BY <2>1 DEF RequestsTrue, OnboardingTypeOK
  <2>3. \A s \in Staff : Seen(s)' BY <2>1 DEF RequestsTrue, Seen, Held, FromTables
  <2> QED BY <2>2, <2>3 DEF RequestsTrue
<1>2. ASSUME Watch, NEW l \in Leads, OnLead(l) PROVE RequestsTrue'
  BY <1>0, <1>2, OnLeadStep, QuietRequests
<1>3. ASSUME Watch, NEW c \in Clients, OnClient(c) PROVE RequestsTrue'
  BY <1>0, <1>3, OnClientStep, QuietRequests DEF NoVerdict
<1>4. ASSUME Watch, NEW s \in Staff, OnRequest(s) PROVE RequestsTrue'
  <2>1. ASSUME NEW l \in Leads, BeginConvert(s, l) PROVE RequestsTrue' BY <1>4, <2>1, BeginConvertStep
  <2>2. ASSUME NEW c \in Clients, NEW adult \in BOOLEAN, Convert(s, c, adult) PROVE RequestsTrue'
    BY <1>4, <2>2, ConvertStep
  <2>3. CASE Cascade(s)
    <3>1. StoredOK' /\ End(s) BY <2>3, CascadeIs DEF Cascade
    <3> QED BY <1>4, <3>1, EndStep
  <2>4. ASSUME NEW c \in Clients, BeginEkyc(s, c) PROVE RequestsTrue' BY <1>4, <2>4, BeginEkycStep
  <2>5. CASE Decide(s)
    <3>1. StoredOK' /\ End(s) BY <2>5, DecideIs DEF Decide
    <3> QED BY <1>4, <3>1, EndStep
  <2>6. CASE ProviderFails(s)
    <3>1. StoredOK' /\ End(s) BY <1>0, <2>6 DEF ProviderFails, stored, StoredOK
    <3> QED BY <1>4, <3>1, EndStep
  <2> QED BY <1>4, <2>1, <2>2, <2>3, <2>4, <2>5, <2>6 DEF OnRequest
<1>5. ASSUME Watch, NEW w \in Wallets, DeleteWallet(w) PROVE RequestsTrue'
  <2>1. wallet' = [wallet EXCEPT ![w] = NoRow] /\ Check /\ UNCHANGED <<client, lead, escalation, prefs, work>>
    BY <1>5 DEF DeleteWallet, Unmoved
  <2>2. wallet' \in [Wallets -> Wallet] BY <1>0, <2>1 DEF StoredOK, Wallet, NoRow
  <2>3. StoredOK' BY <1>0, <2>1, <2>2, CheckType DEF StoredOK
  <2> QED BY <1>5, <2>1, <2>3, QuietRequests
<1>6. ASSUME Watch, NEW policy \in Policies, UpdatePrefs(policy) PROVE RequestsTrue'
  <2>1. prefs' = policy /\ Check /\ UNCHANGED <<client, lead, wallet, escalation, work>>
    BY <1>6 DEF UpdatePrefs
  <2>2. StoredOK' BY <1>0, <2>1, CheckType, OnboardingAssumption DEF StoredOK
  <2> QED BY <1>6, <2>1, <2>2, QuietRequests
<1>7. ASSUME Watch, Restart PROVE RequestsTrue'
  <2>1. work' = [s \in Staff |-> Idle] /\ StoredOK'
    BY <1>0, <1>7 DEF Restart, stored, StoredOK
  <2>2. work' \in [Staff -> Work] /\ \A s \in Staff : Seen(s)' BY <2>1, IdleType, SeenIdle
  <2>3. window' \in [Staff -> Windows] BY <1>7, WatchStep DEF RequestsTrue
  <2>4. OnboardingTypeOK' BY <2>1, <2>2, <2>3 DEF OnboardingTypeOK, StoredOK, Windows
  <2> QED BY <2>2, <2>4 DEF RequestsTrue
<1> QED BY <1>1, <1>2, <1>3, <1>4, <1>5, <1>6, <1>7 DEF OnboardingNext
---------------------------------------------------------------------------
(* What a request has read was so during it, whatever the others commit    *)
(* meanwhile (ekyc_verify, convert_to_onboarding).                         *)
THEOREM RequestsKeep == OnboardingSpec => []RequestsTrue
BY RequestsInit, RequestsNext, PTL DEF OnboardingSpec

(* Clients, leads, wallets and requests are of their types.                *)
THEOREM OnboardingTypeCorrect == OnboardingSpec => []OnboardingTypeOK
<1>1. RequestsTrue => OnboardingTypeOK BY DEF RequestsTrue
<1> QED BY <1>1, RequestsKeep, PTL

(* Only the end of an eKYC request gives a verdict.                        *)
LEMMA VerdictsByDecide ==
  ASSUME RequestsTrue, OnboardingNext, NEW c \in Clients, client[c].kyc \notin {"none", client'[c].kyc}
  PROVE  \E s \in Staff : Decide(s) /\ work[s].client = c /\ client'[c].kyc = Verdict(s)
                          /\ Open(work[s].copy.kyc)
<1>0. StoredOK BY TypeIs DEF RequestsTrue
<1>1. ASSUME NEW l \in Leads, OnLead(l) PROVE FALSE BY <1>0, <1>1, OnLeadStep
<1>2. ASSUME NEW d \in Clients, OnClient(d) PROVE FALSE BY <1>0, <1>2, OnClientStep DEF NoVerdict
<1>3. ASSUME client' = client PROVE FALSE BY <1>3
<1>4. ASSUME NEW s \in Staff, NEW d \in Clients, NEW adult \in BOOLEAN, Convert(s, d, adult) PROVE FALSE
  BY <1>4, ConvertIs
<1>5. ASSUME NEW s \in Staff, OnRequest(s), ~Decide(s) PROVE FALSE
  BY <1>3, <1>4, <1>5 DEF OnRequest, BeginConvert, BeginEkyc, Cascade, ProviderFails, stored
<1>6. ASSUME NEW s \in Staff, Decide(s)
      PROVE  work[s].client = c /\ client'[c].kyc = Verdict(s) /\ Open(work[s].copy.kyc)
  BY <1>6, DecideIs
<1>7. ASSUME NEW w \in Wallets, DeleteWallet(w) PROVE FALSE BY <1>3, <1>7 DEF DeleteWallet
<1>8. ASSUME NEW policy \in Policies, UpdatePrefs(policy) PROVE FALSE BY <1>3, <1>8 DEF UpdatePrefs
<1>9. ASSUME Restart PROVE FALSE BY <1>3, <1>9 DEF Restart, stored
<1> QED BY <1>1, <1>2, <1>5, <1>6, <1>7, <1>8, <1>9 DEF OnboardingNext

(* A verdict is the engine's and rests on checks that were held, or        *)
(* missed, during the request, for any policy and any number of staff.     *)
THEOREM VerdictsGrounded == OnboardingSpec => DecisionsGrounded
<1> DEFINE Grounded(c, s) ==
             CASE client'[c].kyc = "validated"  -> prefs \subseteq window[s].held
               [] client'[c].kyc = "escalation" -> prefs \subseteq window[s].held \cup {"face"}
               [] client'[c].kyc = "rejected"   -> prefs \cap window[s].missed # {}
               [] OTHER -> FALSE
           Step == \A c \in Clients : client[c].kyc \notin {"none", client'[c].kyc} =>
                     \E s \in Deciding(c) :
                       CASE client'[c].kyc = "validated"  -> prefs \subseteq window[s].held
                         [] client'[c].kyc = "escalation" -> prefs \subseteq window[s].held \cup {"face"}
                         [] client'[c].kyc = "rejected"   -> prefs \cap window[s].missed # {}
                         [] OTHER -> FALSE
<1>1. RequestsTrue /\ [OnboardingNext]_onboarding => [Step]_onboarding
  <2> SUFFICES ASSUME RequestsTrue, OnboardingNext, NEW c \in Clients,
                      client[c].kyc \notin {"none", client'[c].kyc}
               PROVE  \E s \in Deciding(c) : Grounded(c, s)
    OBVIOUS
  <2>1. PICK s \in Staff : Decide(s) /\ work[s].client = c /\ client'[c].kyc = Verdict(s)
    BY VerdictsByDecide
  <2>2. s \in Deciding(c) BY <2>1 DEF Decide, Deciding
  <2>3. /\ Held(c) \subseteq window[s].held /\ CHECKS \ Held(c) \subseteq window[s].missed
        /\ FromRow(work[s].copy) \subseteq window[s].held
        /\ InRow \ FromRow(work[s].copy) \subseteq window[s].missed
    BY <2>1 DEF RequestsTrue, Seen, Decide
  <2>4. FromRow(work[s].copy) \cup FromTables(c) \subseteq window[s].held BY <2>3, TableChecks
  <2>5. ASSUME NEW k \in prefs, k \notin FromRow(work[s].copy) \cup FromTables(c)
        PROVE  k \in window[s].missed
    <3>1. k \in CHECKS BY DEF RequestsTrue, OnboardingTypeOK
    <3>2. CASE k \in InRow BY <2>3, <2>5, <3>2
    <3>3. CASE k \notin InRow
      <4>1. k \notin Held(c) BY <2>5, <3>3, RowChecks, TableChecks
      <4> QED BY <2>3, <3>1, <4>1
    <3> QED BY <3>2, <3>3
  <2>6. /\ Verdict(s) = "validated" => prefs \subseteq window[s].held
        /\ Verdict(s) = "escalation" => prefs \subseteq window[s].held \cup {"face"}
        /\ Verdict(s) = "rejected" => prefs \cap window[s].missed # {}
        /\ Verdict(s) \in {"validated", "escalation", "rejected"}
    BY <2>1, <2>4, <2>5, VerdictIs
  <2>7. Grounded(c, s)
    <3>1. CASE Verdict(s) = "validated" BY <2>1, <2>6, <3>1
    <3>2. CASE Verdict(s) = "escalation" BY <2>1, <2>6, <3>2
    <3>3. CASE Verdict(s) = "rejected" BY <2>1, <2>6, <3>3
    <3> QED BY <2>6, <3>1, <3>2, <3>3
  <2> QED BY <2>2, <2>7
<1> QED BY <1>1, RequestsKeep, PTL DEF OnboardingSpec, DecisionsGrounded

(* What is decided is decided anew only by a request that found the client *)
(* open.                                                                   *)
THEOREM VerdictsStand == OnboardingSpec => DecidedStands
<1> DEFINE Step == \A c \in Clients :
             client[c].kyc \in {"validated", "rejected"} /\ client'[c].kyc # client[c].kyc =>
               \E s \in Deciding(c) : window[s].open
<1>1. RequestsTrue /\ [OnboardingNext]_onboarding => [Step]_onboarding
  <2> SUFFICES ASSUME RequestsTrue, OnboardingNext, NEW c \in Clients,
                      client[c].kyc \in {"validated", "rejected"}, client'[c].kyc # client[c].kyc
               PROVE  \E s \in Deciding(c) : window[s].open
    OBVIOUS
  <2>1. PICK s \in Staff : Decide(s) /\ work[s].client = c /\ Open(work[s].copy.kyc)
    BY VerdictsByDecide
  <2>2. s \in Deciding(c) BY <2>1 DEF Decide, Deciding
  <2>3. window[s].open BY <2>1 DEF RequestsTrue, Seen, Decide
  <2> QED BY <2>2, <2>3
<1> QED BY <1>1, RequestsKeep, PTL DEF OnboardingSpec, DecidedStands

(* A lead is linked to a client only by a conversion that found it         *)
(* approved and not yet converted.                                         *)
THEOREM ConvertedWithWord == OnboardingSpec => ConvertedOnApproval
<1> DEFINE Step == \A l \in Leads : lead'[l].client # lead[l].client =>
             \E s \in Staff : work[s].step = "convert" /\ work[s].lead = l /\ window[s].ready
<1>1. RequestsTrue /\ [OnboardingNext]_onboarding => [Step]_onboarding
  <2> SUFFICES ASSUME RequestsTrue, OnboardingNext, NEW l \in Leads, lead'[l].client # lead[l].client
               PROVE  \E s \in Staff : work[s].step = "convert" /\ work[s].lead = l /\ window[s].ready
    OBVIOUS
  <2>0. StoredOK BY TypeIs DEF RequestsTrue
  <2>1. ASSUME NEW k \in Leads, OnLead(k) PROVE FALSE BY <2>0, <2>1, OnLeadStep
  <2>2. ASSUME NEW c \in Clients, OnClient(c) PROVE FALSE BY <2>0, <2>2, OnClientStep DEF NoVerdict
  <2>3. ASSUME lead' = lead PROVE FALSE BY <2>3
  <2>4. ASSUME NEW s \in Staff, NEW c \in Clients, NEW adult \in BOOLEAN, Convert(s, c, adult)
        PROVE  work[s].step = "convert" /\ work[s].lead = l /\ window[s].ready
    BY <2>4, ConvertIs DEF RequestsTrue, Seen
  <2>5. ASSUME NEW s \in Staff, Cascade(s) PROVE FALSE BY <2>5, CascadeIs
  <2>6. ASSUME NEW s \in Staff, OnRequest(s)
        PROVE  work[s].step = "convert" /\ work[s].lead = l /\ window[s].ready
    BY <2>3, <2>4, <2>5, <2>6 DEF OnRequest, BeginConvert, BeginEkyc, Decide, ProviderFails, stored
  <2>7. ASSUME NEW w \in Wallets, DeleteWallet(w) PROVE FALSE BY <2>3, <2>7 DEF DeleteWallet, Unmoved
  <2>8. ASSUME NEW policy \in Policies, UpdatePrefs(policy) PROVE FALSE BY <2>3, <2>8 DEF UpdatePrefs
  <2>9. ASSUME Restart PROVE FALSE BY <2>3, <2>9 DEF Restart, stored
  <2> QED BY <2>1, <2>2, <2>6, <2>7, <2>8, <2>9 DEF OnboardingNext
<1> QED BY <1>1, RequestsKeep, PTL DEF OnboardingSpec, ConvertedOnApproval
---------------------------------------------------------------------------
(***************************************************************************)
(* Pricing and the account.  The arithmetic comes first: what is owed of each *)
(* part comes to the balance, a split loses nothing, and no more interest is *)
(* earned than the term has.  Kept relates the account to its price and is *)
(* inductive.                                                              *)
(***************************************************************************)
(* A quotient that is rounded half up stays within a whole bound. *)
LEMMA RoundDivBound ==
  ASSUME NEW a \in Nat, NEW b \in Nat \ {0}, NEW c \in Nat, a <= b * c
  PROVE  RoundDiv(a, b) \in Nat /\ RoundDiv(a, b) <= c
<1> DEFINE n == 2 * a + b
           d == 2 * b
           q == n \div d
<1>1. n \in Nat /\ d \in Nat \ {0} OBVIOUS
<1> HIDE DEF n, d
<1>2. q \in Nat /\ q * d <= n
  <2>1. q \in Int BY <1>1
  <2>2. 0 <= q BY <1>1
  <2>3. n = q * d + (n % d) /\ n % d >= 0 BY <1>1
  <2> QED BY <1>1, <2>1, <2>2, <2>3
<1>3. q <= c
  <2>1. SUFFICES ASSUME q >= c + 1 PROVE FALSE BY <1>2
  <2> HIDE DEF q
  <2>2. q * d >= (c + 1) * d BY <1>1, <1>2, <2>1
  <2>3. (c + 1) * d = 2 * (b * c) + 2 * b BY DEF d
  <2>4. n = 2 * a + b BY DEF n
  <2>5. b * c \in Nat OBVIOUS
  <2> QED BY <1>1, <1>2, <2>2, <2>3, <2>4, <2>5
<1> QED BY <1>2, <1>3 DEF RoundDiv, q, n, d

LEMMA RoundDivNat ==
  ASSUME NEW a \in Nat, NEW b \in Nat \ {0}
  PROVE  RoundDiv(a, b) \in Nat
<1>1. a <= b * a
  <2>1. b >= 1 OBVIOUS
  <2> QED BY <2>1
<1> QED BY <1>1, RoundDivBound

(* The interest in an instalment is part of it. *)
LEMMA InterestInBound ==
  ASSUME NEW amount \in Nat, NEW r \in Nat
  PROVE  InterestIn(amount, r) \in Nat /\ InterestIn(amount, r) <= amount
<1>1. amount * r \in Nat /\ 100 * amount \in Nat OBVIOUS
<1>2. (100 + r) * amount = 100 * amount + amount * r OBVIOUS
<1>3. amount * r <= (100 + r) * amount BY <1>1, <1>2
<1> QED BY <1>1, <1>3, RoundDivBound DEF InterestIn

QuoteType ==
  [principal : Nat, interest : Nat, fees : Nat, excise : Nat, deduct : BOOLEAN,
   payout : Nat, inBalance : Nat]

LEMMA GapBound ==
  ASSUME NEW gap \in Nat, NEW p \in Nat, NEW i \in Nat, NEW r \in Nat, gap <= p + i
  PROVE  /\ GapInterest(gap, p, i, r) \in Nat
         /\ GapInterest(gap, p, i, r) <= i
         /\ gap - GapInterest(gap, p, i, r) <= p
<1>1. InterestIn(gap, r) \in Nat BY InterestInBound
<1> DEFINE s == Least(InterestIn(gap, r), i)
<1>2. s \in Nat /\ s <= i BY <1>1 DEF Least
<1> HIDE DEF s
<1>3. GapInterest(gap, p, i, r) = IF gap - s > p THEN Least(i, gap - p) ELSE s
  BY DEF GapInterest, s
<1>4. CASE gap - s > p
  <2>1. GapInterest(gap, p, i, r) = Least(i, gap - p) BY <1>3, <1>4
  <2>2. gap - p \in Nat /\ gap - p <= i BY <1>2, <1>4
  <2> QED BY <2>1, <2>2 DEF Least
<1>5. CASE ~(gap - s > p)
  BY <1>2, <1>3, <1>5
<1> QED BY <1>4, <1>5

(* owed_breakdown: no part is negative, no more interest is owed than there *)
(* was, and the parts come to the balance.                                  *)
THEOREM OwedIsTheBalance ==
  ASSUME NEW q \in QuoteType, NEW r \in Nat, NEW pd \in [Parts -> Nat], NEW out \in Nat
  PROVE  /\ Owed(q, r, pd, out) \in [Parts -> Nat]
         /\ SumOf(Owed(q, r, pd, out)) = out
         /\ Owed(q, r, pd, out)["interest"] <= q.interest
<1> DEFINE p   == AtLeast(q.principal - pd["principal"], 0)
           i   == AtLeast(q.interest - pd["interest"], 0)
           gap == AtLeast(p + i - out, 0)
           s   == GapInterest(gap, p, i, r)
<1>1. /\ q.principal \in Nat /\ q.interest \in Nat
      /\ pd["principal"] \in Nat /\ pd["interest"] \in Nat
  BY DEF QuoteType, Parts
<1>2. p \in Nat /\ i \in Nat /\ i <= q.interest BY <1>1 DEF AtLeast
<1> HIDE DEF p, i
<1>3. gap \in Nat /\ gap <= p + i /\ out + gap - p - i >= 0 BY <1>2 DEF AtLeast
<1> HIDE DEF gap
<1>4. s \in Nat /\ s <= i /\ gap - s <= p BY <1>2, <1>3, GapBound
<1> HIDE DEF s
<1>5. Owed(q, r, pd, out) =
        [x \in Parts |-> IF x = "principal" THEN p - (gap - s)
                         ELSE IF x = "interest" THEN i - s
                         ELSE out + gap - p - i]
  BY DEF Owed, p, i, gap, s
<1>6. /\ Owed(q, r, pd, out)["principal"] = p - (gap - s)
      /\ Owed(q, r, pd, out)["interest"] = i - s
      /\ Owed(q, r, pd, out)["fees"] = out + gap - p - i
  BY <1>5 DEF Parts
<1>7. p - (gap - s) \in Nat /\ i - s \in Nat /\ out + gap - p - i \in Nat
  BY <1>2, <1>3, <1>4
<1>8. Owed(q, r, pd, out) \in [Parts -> Nat] BY <1>5, <1>7
<1>9. SumOf(Owed(q, r, pd, out)) = out BY <1>2, <1>3, <1>4, <1>6 DEF SumOf
<1>10. i - s <= q.interest BY <1>1, <1>2, <1>4
<1> QED BY <1>6, <1>8, <1>9, <1>10

LEMMA InOrderSum ==
  ASSUME NEW o, NEW owed \in [Parts -> Nat], NEW amount \in Nat
  PROVE  /\ InOrder(o, owed, amount) \in [Parts -> Nat]
         /\ SumOf(InOrder(o, owed, amount)) = amount
<1>1. owed["principal"] \in Nat /\ owed["fees"] \in Nat /\ owed["interest"] \in Nat
  BY DEF Parts
<1>2. CASE o = "interest_fees_principal"
  <2> DEFINE f == Least(amount, owed["interest"])
             g == Least(amount - f, owed["fees"])
  <2>1. f \in Nat /\ amount - f \in Nat BY <1>1 DEF Least
  <2> HIDE DEF f
  <2>2. g \in Nat /\ amount - f - g \in Nat BY <1>1, <2>1 DEF Least
  <2> HIDE DEF g
  <2>3. InOrder(o, owed, amount) =
          [p \in Parts |-> IF p = "interest" THEN f ELSE IF p = "fees" THEN g
                           ELSE amount - f - g]
    BY <1>2 DEF InOrder, OrderOf, f, g
  <2>4. InOrder(o, owed, amount) \in [Parts -> Nat] BY <2>1, <2>2, <2>3
  <2>5. /\ InOrder(o, owed, amount)["principal"] = amount - f - g
        /\ InOrder(o, owed, amount)["fees"] = g
        /\ InOrder(o, owed, amount)["interest"] = f
    BY <2>3 DEF Parts
  <2> QED BY <2>1, <2>2, <2>4, <2>5 DEF SumOf
<1>3. CASE o # "interest_fees_principal"
  <2> DEFINE f == Least(amount, owed["principal"])
             g == Least(amount - f, owed["fees"])
  <2>1. f \in Nat /\ amount - f \in Nat BY <1>1 DEF Least
  <2> HIDE DEF f
  <2>2. g \in Nat /\ amount - f - g \in Nat BY <1>1, <2>1 DEF Least
  <2> HIDE DEF g
  <2>3. InOrder(o, owed, amount) =
          [p \in Parts |-> IF p = "principal" THEN f ELSE IF p = "fees" THEN g
                           ELSE amount - f - g]
    BY <1>3 DEF InOrder, OrderOf, f, g
  <2>4. InOrder(o, owed, amount) \in [Parts -> Nat] BY <2>1, <2>2, <2>3
  <2>5. /\ InOrder(o, owed, amount)["principal"] = f
        /\ InOrder(o, owed, amount)["fees"] = g
        /\ InOrder(o, owed, amount)["interest"] = amount - f - g
    BY <2>3 DEF Parts
  <2> QED BY <2>1, <2>2, <2>4, <2>5 DEF SumOf
<1> QED BY <1>2, <1>3

(* allocate: whatever the order, the parts come to the payment. *)
THEOREM NothingLostInTheSplit ==
  ASSUME NEW o, NEW owed \in [Parts -> Nat], NEW amount \in Nat, NEW r \in Nat
  PROVE  /\ Allocate(o, owed, amount, r) \in [Parts -> Nat]
         /\ SumOf(Allocate(o, owed, amount, r)) = amount
<1>1. CASE o = "proportional"
  <2> DEFINE i == InterestIn(amount, r)
  <2>1. i \in Nat /\ i <= amount BY InterestInBound
  <2>2. Allocate(o, owed, amount, r) =
          [p \in Parts |-> IF p = "interest" THEN i ELSE IF p = "principal" THEN amount - i ELSE 0]
    BY <1>1 DEF Allocate, Proportional
  <2> HIDE DEF i
  <2>3. Allocate(o, owed, amount, r) \in [Parts -> Nat] BY <2>1, <2>2
  <2>4. /\ Allocate(o, owed, amount, r)["principal"] = amount - i
        /\ Allocate(o, owed, amount, r)["fees"] = 0
        /\ Allocate(o, owed, amount, r)["interest"] = i
    BY <2>2 DEF Parts
  <2> QED BY <2>1, <2>3, <2>4 DEF SumOf
<1>2. CASE o # "proportional"
  BY <1>2, InOrderSum DEF Allocate
<1> QED BY <1>1, <1>2

(* earned_interest_fraction: never more than the interest of the term. *)
THEOREM EarnedWithinTheTerm ==
  ASSUME NEW how, NEW interest \in Nat, NEW elapsed \in Nat,
         NEW term \in Nat \ {0}, NEW period \in Nat \ {0}
  PROVE  Earned(how, interest, elapsed, term, period) \in 0..interest
<1>1. Daily(interest, elapsed, term) \in 0..interest
  <2> DEFINE x == Least(AtLeast(elapsed, 1), term)
  <2>1. x \in Nat /\ x <= term BY DEF Least, AtLeast
  <2> HIDE DEF x
  <2>2. interest * x \in Nat /\ interest * x <= term * interest BY <2>1
  <2>3. Daily(interest, elapsed, term) = RoundDiv(interest * x, term) BY DEF Daily, x
  <2>4. RoundDiv(interest * x, term) \in Nat /\ RoundDiv(interest * x, term) <= interest
    BY <2>2, RoundDivBound
  <2> QED BY <2>3, <2>4
<1>2. Completed(interest, elapsed, term, period) \in 0..interest
  <2> DEFINE n == AtLeast(RoundEven(term, period), 1)
             x == Least(elapsed \div period, n)
  <2>1. RoundEven(term, period) \in Int
    <3>1. term \div period \in Int OBVIOUS
    <3>2. RoundDiv(term, period) \in Nat BY RoundDivNat
    <3> QED BY <3>1, <3>2 DEF RoundEven
  <2>2. n \in Nat \ {0} BY <2>1 DEF AtLeast
  <2> HIDE DEF n
  <2>3. elapsed \div period \in Nat OBVIOUS
  <2>4. x \in Nat /\ x <= n BY <2>2, <2>3 DEF Least
  <2> HIDE DEF x
  <2>5. interest * x \in Nat /\ interest * x <= n * interest BY <2>2, <2>4
  <2>6. Completed(interest, elapsed, term, period) = RoundDiv(interest * x, n)
    BY DEF Completed, n, x
  <2>7. RoundDiv(interest * x, n) \in Nat /\ RoundDiv(interest * x, n) <= interest
    BY <2>2, <2>5, RoundDivBound
  <2> QED BY <2>6, <2>7
<1> QED BY <1>1, <1>2 DEF Earned

---------------------------------------------------------------------------
(* What an early settlement asks for: the balance less the interest that is *)
(* not earned.  What is charged and written off never exceeds the balance.  *)
THEOREM PayoffIsTheEarnedBalance ==
  ASSUME NEW q \in QuoteType, NEW owed \in [Parts -> Nat], NEW earned \in 0..q.interest,
         owed["interest"] <= q.interest
  PROVE  LET off == PayoffQuote(q, owed, earned)
         IN /\ off.amount \in Nat /\ off.credit \in Nat /\ off.rebate \in Nat
            /\ off.parts \in [Parts -> Nat]
            /\ off.amount - off.credit = SumOf(owed) + earned - q.interest
            /\ off.amount + off.rebate <= SumOf(owed)
<1> DEFINE p    == owed["principal"]
           f    == owed["fees"]
           i    == owed["interest"]
           paidI == q.interest - i
           due  == Least(AtLeast(earned - paidI, 0), i)
           cr   == AtLeast(paidI - earned, 0)
           raw  == p + f + due - cr
           off  == PayoffQuote(q, owed, earned)
<1>1. p \in Nat /\ f \in Nat /\ i \in Nat /\ q.interest \in Nat /\ earned \in Nat
      /\ earned <= q.interest /\ i <= q.interest
  BY DEF Parts, QuoteType
<1>2. SumOf(owed) = p + f + i BY DEF SumOf
<1>3. off = [amount |-> AtLeast(raw, 0), credit |-> AtLeast(-raw, 0),
             rebate |-> i - due, parts |-> [owed EXCEPT !["interest"] = due]]
  BY DEF PayoffQuote
<1> HIDE DEF p, f, i, off
<1>4. due \in Nat /\ due <= i /\ cr \in Nat /\ due - cr = earned - paidI
  BY <1>1 DEF Least, AtLeast
<1>5. paidI = q.interest - i OBVIOUS
<1> HIDE DEF due, cr, paidI
<1>6. raw \in Int /\ raw = p + f + i + earned - q.interest /\ raw + (i - due) <= p + f + i
  <2>1. paidI \in Int BY <1>1, <1>5
  <2>2. raw \in Int BY <1>1, <1>4
  <2>3. due - cr = earned - (q.interest - i) BY <1>4, <1>5
  <2>4. raw = p + f + (due - cr) BY <1>1, <1>4
  <2>5. raw = p + f + i + earned - q.interest BY <1>1, <2>3, <2>4
  <2>6. raw + (i - due) = p + f + i - cr BY <1>1, <1>4
  <2>7. p + f + i - cr <= p + f + i BY <1>1, <1>4
  <2> QED BY <2>2, <2>5, <2>6, <2>7
<1>7. i - due \in Nat /\ i - due <= p + f + i BY <1>1, <1>4
<1> HIDE DEF raw
<1>8. /\ AtLeast(raw, 0) \in Nat /\ AtLeast(-raw, 0) \in Nat
      /\ AtLeast(raw, 0) - AtLeast(-raw, 0) = raw
      /\ AtLeast(raw, 0) = raw \/ AtLeast(raw, 0) = 0
  BY <1>6 DEF AtLeast
<1>9. off.parts \in [Parts -> Nat] BY <1>3, <1>4
<1>10. /\ off.amount = AtLeast(raw, 0) /\ off.credit = AtLeast(-raw, 0)
       /\ off.rebate = i - due
  BY <1>3
<1>11. off.amount \in Nat /\ off.credit \in Nat /\ off.rebate \in Nat
  BY <1>7, <1>8, <1>10
<1>12. off.amount - off.credit = SumOf(owed) + earned - q.interest
  BY <1>1, <1>2, <1>6, <1>8, <1>10
<1>13. off.amount + off.rebate <= SumOf(owed)
  BY <1>1, <1>2, <1>4, <1>6, <1>7, <1>8, <1>10
<1> QED BY <1>9, <1>11, <1>12, <1>13 DEF off

(* Quote: every amount is a whole number of cents. *)
ProductType ==
  [rate : Nat, processing : Nat, facility : Nat, penalty : Nat,
   collection : {"deduct", "add_to_balance"}, unit : {"weeks", "months"}, tenure : Nat]

(* _suggested_limit: what is suggested is an amount pricing_quote has an    *)
(* offer for, if the product's band has an end, and keeps,                  *)
(* unless the band begins there, to half as much again as the largest loan; *)
(* what is out already counts against it.                                   *)
THEOREM LimitWithinTheBand ==
  ASSUME NEW min \in Nat, NEW max \in Nat, max = 0 \/ min <= max,
         NEW loans \in Nat, NEW repaid \in Nat, NEW onTime \in Nat, NEW largest \in Nat,
         NEW exposure \in Nat
  PROVE  LET band == [min |-> min, max |-> max]
             h == [loans |-> loans, paid |-> repaid, onTime |-> onTime,
                   largest |-> largest, exposure |-> exposure]
             limit == SuggestedLimit(band, h)
         IN /\ limit >= min /\ (max > 0 => Offered(band, limit))
            /\ 2 * limit <= AtLeast(3 * largest + 1, 2 * min)
            /\ exposure + Headroom(band, h) <= AtLeast(limit, exposure)
<1> DEFINE band == [min |-> min, max |-> max]
           h == [loans |-> loans, paid |-> repaid, onTime |-> onTime,
                 largest |-> largest, exposure |-> exposure]
           raw == IF loans = 0 THEN min ELSE Percent(Multiplier(h), largest)
           limit == SuggestedLimit(band, h)
<1>1. /\ Percent(Multiplier(h), largest) \in Nat
      /\ 2 * Percent(Multiplier(h), largest) <= 3 * largest + 1
  <2>1. Multiplier(h) \in {75, 100, 125, 150} BY DEF Multiplier
  <2>2. \A k \in {75, 100, 125, 150} : /\ Percent(k, largest) \in Nat
                                       /\ 2 * Percent(k, largest) <= 3 * largest + 1
    BY SMTT(60) DEF Percent, RoundDiv
  <2> HIDE DEF h
  <2> QED BY <2>1, <2>2
<1>2. raw \in Nat /\ (2 * raw <= 3 * largest + 1 \/ raw = min) BY <1>1
<1>3. limit = AtLeast(IF max > 0 THEN Least(raw, max) ELSE raw, min) BY DEF SuggestedLimit
<1> HIDE DEF raw
<1>4. limit \in Nat /\ limit >= min /\ (max > 0 => limit <= max) BY <1>2, <1>3 DEF AtLeast, Least
<1>5. 2 * limit <= AtLeast(3 * largest + 1, 2 * min) BY <1>2, <1>3 DEF AtLeast, Least
<1>6. exposure + Headroom(band, h) <= AtLeast(limit, exposure)
  <2>1. Headroom(band, h) = AtLeast(limit - exposure, 0) BY DEF Headroom
  <2> HIDE DEF limit, band, h
  <2> QED BY <1>4, <2>1 DEF AtLeast
<1>7. max > 0 => Offered(band, limit)
  <2> HIDE DEF limit
  <2> QED BY <1>4 DEF Offered
<1> QED BY <1>4, <1>5, <1>6, <1>7

LEMMA PercentNat ==
  ASSUME NEW r \in Nat, NEW a \in Nat
  PROVE  Percent(r, a) \in Nat
<1>1. r * a \in Nat OBVIOUS
<1> QED BY <1>1, RoundDivNat DEF Percent

LEMMA QuoteTyped ==
  ASSUME NEW pr \in ProductType, NEW p \in Nat
  PROVE  /\ Quote(pr, p) \in QuoteType
         /\ Quote(pr, p).interest = Percent(pr.rate, Quote(pr, p).principal)
         /\ Quote(pr, p).inBalance <= Quote(pr, p).fees + Quote(pr, p).excise
<1> DEFINE fees   == Percent(pr.processing, p) + pr.facility
           excise == Percent(ExciseRate, fees)
           deduct == pr.collection = "deduct"
           net    == IF deduct THEN p - fees - excise ELSE p
           out    == IF net > 0 THEN RoundUp(net) ELSE 0
<1>1. pr.rate \in Nat /\ pr.processing \in Nat /\ pr.facility \in Nat BY DEF ProductType
<1>2. fees \in Nat
  <2>1. Percent(pr.processing, p) \in Nat BY <1>1, PercentNat
  <2> QED BY <1>1, <2>1
<1> HIDE DEF fees
<1>3. excise \in Nat BY <1>2, PercentNat DEF ExciseRate
<1>4. Percent(pr.rate, p) \in Nat BY <1>1, PercentNat
<1> HIDE DEF excise
<1>5. deduct \in BOOLEAN OBVIOUS
<1>6. net \in Int BY <1>2, <1>3
<1>7. out \in Nat
  <2> HIDE DEF net
  <2> SUFFICES ASSUME net > 0 PROVE RoundUp(net) \in Nat OBVIOUS
  <2> QED BY <1>6 DEF RoundUp, Shilling
<1> HIDE DEF net
<1> HIDE DEF out
<1>8. Quote(pr, p) = [principal |-> p, interest |-> Percent(pr.rate, p), fees |-> fees,
                      excise |-> excise, deduct |-> deduct, payout |-> out,
                      inBalance |-> IF deduct THEN 0 ELSE fees + excise]
  BY DEF Quote, fees, excise, net, out
<1> HIDE DEF deduct
<1>9. /\ (IF deduct THEN 0 ELSE fees + excise) \in Nat
      /\ (IF deduct THEN 0 ELSE fees + excise) <= fees + excise
  BY <1>2, <1>3
<1>10. Quote(pr, p) \in QuoteType
  BY <1>2, <1>3, <1>4, <1>5, <1>7, <1>8, <1>9 DEF QuoteType
<1> QED BY <1>8, <1>9, <1>10

(* in_duplum_cap *)
LEMMA CapBound ==
  ASSUME NEW p \in Nat, NEW a \in Nat, NEW c \in Nat
  PROVE  /\ InDuplumCap(p, a, c) \in Nat
         /\ InDuplumCap(p, a, c) > 0 => a + InDuplumCap(p, a, c) <= p
BY DEF InDuplumCap, Least, AtLeast

---------------------------------------------------------------------------
LoanType ==
  [status : Status, balance : Nat, penalties : Nat, rebate : Nat,
   start : Int, due : Int, settled : Int]
EntryType ==
  [ref : Refs, kind : {"own", "OVR", "INT"}, amount : Nat \ {0}, made : Int,
   status : {"open", "refunded", "moved"}, resolved : Int]

Typed ==
  /\ TypeOK
  /\ quote \in QuoteType /\ loan \in LoanType /\ entries \subseteq EntryType
  /\ quote.interest = Percent(rate, quote.principal)

(* Nothing is charged or written off before it can be. *)
Untouched ==
  /\ loan.status \in {"approved", "processing"} => SumOf(paid) = 0 /\ loan.rebate = 0
  /\ loan.status \in {"approved", "processing", "active"} => loan.penalties = 0
  /\ loan.settled = Never => loan.rebate = 0 /\ Owing("INT") = {}
  /\ loan.settled # Never => loan.status = "paid"

Kept == Typed /\ Untouched /\ Accounted /\ InDuplum

LEMMA DayType == Typed => Days \subseteq Nat /\ today \in Nat
BY AccountAssumption DEF AccountAssumption, Typed, TypeOK, Days

LEMMA PeriodNat == Typed => PeriodOf(product) \in Nat \ {0}
BY AccountAssumption DEF AccountAssumption, PeriodOf

LEMMA InitKept == Init => Kept
<1> SUFFICES ASSUME Init PROVE Kept OBVIOUS
<1> USE AccountAssumption DEF AccountAssumption
<1>1. product \in ProductType BY DEF Init, ProductType
<1>2. /\ quote \in QuoteType
      /\ quote.interest = Percent(rate, quote.principal)
  <2>1. quote = Quote(product, Principal) /\ rate = product.rate /\ Principal \in Nat
    BY DEF Init
  <2> QED BY <1>1, <2>1, QuoteTyped
<1>3. rate \in Nat BY <1>1 DEF Init, ProductType
<1>4. TypeOK
  BY <1>1, <1>3 DEF Init, TypeOK, Days, Status, Orders, Methods, Never
<1>5. loan \in LoanType BY DEF Init, LoanType, Status, Never
<1>6. Typed BY <1>2, <1>4, <1>5 DEF Typed, Init
<1>7. SumOf(paid) = 0 BY DEF Init, SumOf, Parts
<1>8. Untouched BY <1>7 DEF Untouched, Init, Owing, Never
<1>9. Accounted BY DEF Accounted, Init, Collectible
<1>10. InDuplum BY DEF InDuplum, Init
<1> QED BY <1>6, <1>8, <1>9, <1>10 DEF Kept

(* A Repayment row adds up. *)
LEMMA BookFacts ==
  ASSUME paid \in [Parts -> Nat], NEW ref, NEW amount \in Nat, NEW day,
         NEW parts \in [Parts -> Nat], SumOf(parts) = amount,
         Book(ref, amount, parts, day)
  PROVE  paid' \in [Parts -> Nat] /\ SumOf(paid') = SumOf(paid) + amount
<1>1. CASE amount = 0
  <2>1. paid' = paid BY <1>1 DEF Book
  <2>2. SumOf(paid) \in Nat BY DEF SumOf, Parts
  <2> QED BY <1>1, <2>1, <2>2
<1>2. CASE amount # 0
  <2>1. paid' = [p \in Parts |-> paid[p] + parts[p]] BY <1>2 DEF Book
  <2>2. paid' \in [Parts -> Nat] BY <2>1
  <2>3. /\ paid'["principal"] = paid["principal"] + parts["principal"]
        /\ paid'["fees"] = paid["fees"] + parts["fees"]
        /\ paid'["interest"] = paid["interest"] + parts["interest"]
    BY <2>1 DEF Parts
  <2>4. /\ paid["principal"] \in Nat /\ paid["fees"] \in Nat /\ paid["interest"] \in Nat
        /\ parts["principal"] \in Nat /\ parts["fees"] \in Nat /\ parts["interest"] \in Nat
    BY DEF Parts
  <2>5. amount = parts["principal"] + parts["fees"] + parts["interest"] BY DEF SumOf
  <2> QED BY <2>2, <2>3, <2>4, <2>5 DEF SumOf
<1> QED BY <1>1, <1>2

Rowed(ref, amount, day) ==
  \E parts \in [Parts -> Nat] : SumOf(parts) = amount /\ Book(ref, amount, parts, day)

(* What an early settlement takes (a), owes back (c) and writes off (w). *)
Settled(ref, amount, day) ==
  \E a, c, w \in Nat :
    /\ SumOf(paid') = SumOf(paid) + a /\ Rowed(ref, a, day)
    /\ a - c = loan.balance + EarnedBy(day) - quote.interest
    /\ a + w <= loan.balance /\ a <= amount
    /\ loan' = [loan EXCEPT !.status = "paid", !.balance = 0, !.settled = day,
                            !.rebate = @ + w]
    /\ entries' = entries \cup Parked(ref, "OVR", amount - a) \cup Parked(ref, "INT", c)

LEMMA SettleFacts ==
  ASSUME Kept, NEW ref \in Refs, NEW amount \in Nat \ {0}, NEW day \in Nat,
         SettleEarly(ref, amount, day)
  PROVE  /\ paid' \in [Parts -> Nat]
         /\ EarnedBy(day) \in Nat
         /\ Settled(ref, amount, day)
<1> DEFINE q == QuoteOn(day)
<1>1. /\ loan.balance \in Nat /\ loan.start \in Int /\ loan.due \in Int
      /\ quote \in QuoteType /\ rate \in Nat /\ paid \in [Parts -> Nat]
      /\ quote.interest \in Nat
  BY DEF Kept, Typed, TypeOK, LoanType, QuoteType
<1>2. loan.due - loan.start \in Nat \ {0}
  BY <1>1 DEF SettleEarly, SettlesEarly, IsEarly
<1>3. AtLeast(day - loan.start, 0) \in Nat BY <1>1 DEF AtLeast
<1>4. EarnedBy(day) \in 0..quote.interest
  BY <1>1, <1>2, <1>3, PeriodNat, EarnedWithinTheTerm DEF EarnedBy, Kept
<1>5. /\ OwedNow \in [Parts -> Nat] /\ SumOf(OwedNow) = loan.balance
      /\ OwedNow["interest"] <= quote.interest
  BY <1>1, OwedIsTheBalance DEF OwedNow
<1>6. /\ q.amount \in Nat /\ q.credit \in Nat /\ q.rebate \in Nat
      /\ q.parts \in [Parts -> Nat]
      /\ q.amount - q.credit = loan.balance + EarnedBy(day) - quote.interest
      /\ q.amount + q.rebate <= loan.balance
  BY <1>1, <1>4, <1>5, PayoffIsTheEarnedBalance DEF QuoteOn
<1>7. /\ Book(ref, q.amount, InOrder(order, q.parts, q.amount), day)
      /\ q.amount <= amount
      /\ loan' = [loan EXCEPT !.status = "paid", !.balance = 0, !.settled = day,
                              !.rebate = @ + q.rebate]
      /\ entries' = entries \cup Parked(ref, "OVR", amount - q.amount)
                            \cup Parked(ref, "INT", q.credit)
  BY <1>6 DEF SettleEarly, SettlesEarly
<1> HIDE DEF q
<1>8. /\ InOrder(order, q.parts, q.amount) \in [Parts -> Nat]
      /\ SumOf(InOrder(order, q.parts, q.amount)) = q.amount
  BY <1>6, InOrderSum
<1>9. paid' \in [Parts -> Nat] /\ SumOf(paid') = SumOf(paid) + q.amount
  BY <1>1, <1>6, <1>7, <1>8, BookFacts
<1>10. EarnedBy(day) \in Nat BY <1>1, <1>4
<1>11. Rowed(ref, q.amount, day) BY <1>7, <1>8 DEF Rowed
<1>12. Settled(ref, amount, day) BY <1>6, <1>7, <1>9, <1>11 DEF Settled
<1> QED BY <1>9, <1>10, <1>12

(* What any other payment does. *)
LEMMA ApplyFacts ==
  ASSUME Kept, NEW ref \in Refs, NEW amount \in Nat \ {0}, NEW day \in Nat,
         Apply(ref, amount, day)
  PROVE  /\ paid' \in [Parts -> Nat]
         /\ \E a \in Nat :
              /\ a <= loan.balance /\ a <= amount /\ a \in {amount, loan.balance}
              /\ SumOf(paid') = SumOf(paid) + a /\ Rowed(ref, a, day)
              /\ loan' = [loan EXCEPT !.balance = @ - a,
                                      !.status = IF a = loan.balance THEN "paid" ELSE @]
              /\ entries' = entries \cup Parked(ref, "OVR", amount - a)
<1> DEFINE a == Least(amount, loan.balance)
<1>1. /\ loan.balance \in Nat /\ quote \in QuoteType /\ rate \in Nat
      /\ paid \in [Parts -> Nat]
  BY DEF Kept, Typed, TypeOK, LoanType
<1>2. a \in Nat /\ a <= loan.balance /\ a <= amount /\ a \in {amount, loan.balance}
  BY <1>1 DEF Least
<1>3. OwedNow \in [Parts -> Nat] BY <1>1, OwedIsTheBalance DEF OwedNow
<1>4. /\ Book(ref, a, Allocate(order, OwedNow, a, rate), day)
      /\ loan' = [loan EXCEPT !.balance = @ - a,
                              !.status = IF a = loan.balance THEN "paid" ELSE @]
      /\ entries' = entries \cup Parked(ref, "OVR", amount - a)
  BY DEF Apply
<1> HIDE DEF a
<1>5. /\ Allocate(order, OwedNow, a, rate) \in [Parts -> Nat]
      /\ SumOf(Allocate(order, OwedNow, a, rate)) = a
  BY <1>1, <1>2, <1>3, NothingLostInTheSplit
<1>6. paid' \in [Parts -> Nat] /\ SumOf(paid') = SumOf(paid) + a
  BY <1>1, <1>2, <1>4, <1>5, BookFacts
<1>7. Rowed(ref, a, day) BY <1>4, <1>5 DEF Rowed
<1> QED BY <1>2, <1>4, <1>6, <1>7

---------------------------------------------------------------------------
LEMMA ParkedType ==
  ASSUME Typed, NEW ref \in Refs, NEW kind \in {"own", "OVR", "INT"}, NEW amount \in Nat
  PROVE  /\ Parked(ref, kind, amount) \subseteq EntryType
         /\ \A e \in Parked(ref, kind, amount) : e.kind = kind /\ e.amount = amount
<1>1. today \in Int BY DayType, AccountAssumption DEF Typed, TypeOK, Days, AccountAssumption
<1>2. Never \in Int BY DEF Never
<1>3. amount > 0 => Entry(ref, kind, amount) \in EntryType BY <1>1, <1>2 DEF Entry, EntryType
<1> QED BY <1>3 DEF Parked, Entry

(* The state of the account, that a payment changes. *)
Money == /\ loan \in LoanType /\ entries \subseteq EntryType /\ paid \in [Parts -> Nat]
         /\ Untouched /\ Accounted /\ InDuplum

LEMMA CollectibleFacts ==
  ASSUME Kept, loan.status \in Collectible
  PROVE  /\ loan.balance + SumOf(paid) + loan.rebate = Price
         /\ loan.settled = Never /\ loan.rebate = 0 /\ Owing("INT") = {}
BY DEF Kept, Untouched, Accounted, Collectible

LEMMA NumberFacts ==
  ASSUME Typed
  PROVE  /\ loan.balance \in Nat /\ loan.penalties \in Nat /\ loan.rebate \in Nat
         /\ SumOf(paid) \in Nat /\ Price \in Nat
         /\ quote.principal \in Nat /\ quote.interest \in Nat /\ quote.inBalance \in Nat
         /\ Price = quote.principal + quote.interest + quote.inBalance + loan.penalties
<1>1. loan.balance \in Nat /\ loan.penalties \in Nat /\ loan.rebate \in Nat
  BY DEF Typed, LoanType
<1>2. quote.principal \in Nat /\ quote.interest \in Nat /\ quote.inBalance \in Nat
  BY DEF Typed, QuoteType
<1>3. SumOf(paid) \in Nat BY DEF Typed, TypeOK, SumOf, Parts
<1> QED BY <1>1, <1>2, <1>3 DEF Price, BalanceAtDisbursement

LEMMA SettleKept ==
  ASSUME Kept, loan.status \in Collectible, NEW ref \in Refs, NEW amount \in Nat \ {0},
         NEW day \in Nat, SettleEarly(ref, amount, day), UNCHANGED <<rate, quote, today>>
  PROVE  Money'
<1>1. PICK a \in Nat, c \in Nat, w \in Nat :
        /\ SumOf(paid') = SumOf(paid) + a
        /\ a + w <= loan.balance /\ a <= amount
        /\ loan' = [loan EXCEPT !.status = "paid", !.balance = 0, !.settled = day,
                                !.rebate = @ + w]
        /\ entries' = entries \cup Parked(ref, "OVR", amount - a) \cup Parked(ref, "INT", c)
  <2>1. Settled(ref, amount, day) BY SettleFacts
  <2> QED BY <2>1 DEF Settled
<1>2. paid' \in [Parts -> Nat] BY SettleFacts
<1>3. Typed /\ loan \in LoanType /\ entries \subseteq EntryType BY DEF Kept, Typed
<1>4. loan' \in LoanType
  <2>1. loan.rebate + w \in Nat /\ day \in Int BY <1>3, NumberFacts
  <2> QED BY <1>1, <1>3, <2>1 DEF LoanType, Status
<1>5. entries' \subseteq EntryType
  <2>1. amount - a \in Nat BY <1>1
  <2>2. Parked(ref, "OVR", amount - a) \subseteq EntryType BY <1>3, <2>1, ParkedType
  <2>3. Parked(ref, "INT", c) \subseteq EntryType BY <1>3, ParkedType
  <2> QED BY <1>1, <1>3, <2>2, <2>3
<1>6. /\ loan'.status = "paid" /\ loan'.balance = 0 /\ loan'.settled = day
      /\ loan'.rebate = loan.rebate + w /\ loan'.penalties = loan.penalties
  BY <1>1, <1>3 DEF LoanType
<1>7. Untouched' BY <1>6 DEF Untouched, Never
<1>8. Price' = Price BY <1>6 DEF Price
<1>9. SumOf(paid') + loan'.rebate <= Price'
  BY <1>1, <1>3, <1>6, <1>8, CollectibleFacts, NumberFacts
<1>10. Accounted' BY <1>6, <1>9 DEF Accounted, Collectible
<1>11. InDuplum' BY <1>6 DEF InDuplum, Kept
<1> QED BY <1>2, <1>4, <1>5, <1>7, <1>10, <1>11 DEF Money

LEMMA ApplyKept ==
  ASSUME Kept, loan.status \in Collectible, NEW ref \in Refs, NEW amount \in Nat \ {0},
         NEW day \in Nat, Apply(ref, amount, day), UNCHANGED <<rate, quote, today>>
  PROVE  Money'
<1>1. PICK a \in Nat :
        /\ a <= loan.balance /\ a <= amount
        /\ SumOf(paid') = SumOf(paid) + a
        /\ loan' = [loan EXCEPT !.balance = @ - a,
                                !.status = IF a = loan.balance THEN "paid" ELSE @]
        /\ entries' = entries \cup Parked(ref, "OVR", amount - a)
  BY ApplyFacts
<1>2. paid' \in [Parts -> Nat] BY ApplyFacts
<1>3. Typed /\ loan \in LoanType /\ entries \subseteq EntryType BY DEF Kept, Typed
<1>4. loan.balance - a \in Nat BY <1>1, <1>3, NumberFacts
<1>5. loan' \in LoanType BY <1>1, <1>3, <1>4 DEF LoanType, Status
<1>6. /\ Parked(ref, "OVR", amount - a) \subseteq EntryType
      /\ \A e \in Parked(ref, "OVR", amount - a) : e.kind = "OVR"
  <2>1. amount - a \in Nat BY <1>1
  <2> QED BY <1>3, <2>1, ParkedType
<1>7. entries' \subseteq EntryType BY <1>1, <1>3, <1>6
<1>8. Owing("INT")' = {} BY <1>1, <1>6, CollectibleFacts DEF Owing
<1>9. /\ loan'.status \in {loan.status, "paid"}
      /\ loan'.balance = loan.balance - a /\ loan'.settled = loan.settled
      /\ loan'.rebate = loan.rebate /\ loan'.penalties = loan.penalties
      /\ loan'.status = "paid" => loan'.balance = 0
  BY <1>1, <1>3, <1>4 DEF LoanType, Collectible
<1>10. Untouched'
  BY <1>8, <1>9, CollectibleFacts DEF Untouched, Kept, Collectible
<1>11. Price' = Price BY <1>9 DEF Price
<1>12. loan'.balance + SumOf(paid') + loan'.rebate = Price'
  BY <1>1, <1>3, <1>9, <1>11, CollectibleFacts, NumberFacts
<1>13. SumOf(paid') \in Nat /\ loan'.rebate \in Nat /\ Price' \in Nat
  BY <1>1, <1>3, <1>9, <1>11, NumberFacts
<1>14. Accounted' BY <1>9, <1>12, <1>13 DEF Accounted
<1>15. InDuplum' BY <1>9 DEF InDuplum, Kept
<1> QED BY <1>2, <1>5, <1>7, <1>10, <1>14, <1>15 DEF Money

LEMMA TakeKept ==
  ASSUME Kept, loan.status \in Collectible, NEW ref \in Refs, NEW amount \in Nat \ {0},
         NEW day \in Nat, Take(ref, amount, day), UNCHANGED <<rate, quote, today>>
  PROVE  Money'
BY SettleKept, ApplyKept DEF Take

(* Where a payment does not touch the loan. *)
LEMMA ParkKept ==
  ASSUME Kept, NEW ref \in Refs, NEW amount \in Nat, Park(ref, amount),
         UNCHANGED <<rate, quote, today>>
  PROVE  Money'
<1>1. Typed /\ paid \in [Parts -> Nat] BY DEF Kept, Typed, TypeOK
<1>2. /\ Parked(ref, "own", amount) \subseteq EntryType
      /\ \A e \in Parked(ref, "own", amount) : e.kind = "own"
  BY <1>1, ParkedType
<1>3. entries' = entries \cup Parked(ref, "own", amount) /\ UNCHANGED <<loan, paid>>
  BY DEF Park
<1>4. entries' \subseteq EntryType BY <1>1, <1>2, <1>3 DEF Typed
<1>5. Owing("INT")' = Owing("INT") BY <1>2, <1>3 DEF Owing
<1>6. Untouched' BY <1>3, <1>5 DEF Untouched, Kept
<1>7. Accounted' BY <1>3 DEF Accounted, Kept, Price
<1>8. InDuplum' BY <1>3 DEF InDuplum, Kept
<1> QED BY <1>1, <1>3, <1>4, <1>6, <1>7, <1>8 DEF Money, Typed

LEMMA SameKept ==
  ASSUME Kept, UNCHANGED <<rate, quote, loan, paid, entries>>
  PROVE  Money'
<1>1. loan \in LoanType /\ entries \subseteq EntryType /\ paid \in [Parts -> Nat]
  BY DEF Kept, Typed, TypeOK
<1>2. Untouched' BY DEF Untouched, Kept, Owing
<1>3. Accounted' BY DEF Accounted, Kept, Price
<1>4. InDuplum' BY DEF InDuplum, Kept
<1> QED BY <1>1, <1>2, <1>3, <1>4 DEF Money

(* The rest of the type invariant, and what is fixed. *)
Rest ==
  /\ rate \in Nat /\ order \in Orders /\ method \in Methods
  /\ product \in Products /\ today \in Days /\ changes \in 0..MaxChanges
  /\ received \in [Refs -> Nat] /\ elsewhere \in [Refs -> Nat]
  /\ \A h \in held : h.ref \in Refs /\ h.amount \in Amounts /\ h.day \in Days
  /\ quote \in QuoteType /\ quote.interest = Percent(rate, quote.principal)

LEMMA KeptParts == Kept <=> Money /\ Rest
<1>1. Kept => Money /\ Rest BY DEF Kept, Typed, TypeOK, Money, Rest
<1>2. ASSUME Money, Rest PROVE Kept
  <2>1. /\ loan.status \in Status /\ loan.balance \in Nat /\ loan.penalties \in Nat
        /\ loan.rebate \in Nat
    BY <1>2 DEF Money, LoanType
  <2>2. \A e \in entries : e.ref \in Refs /\ e.amount \in Nat \ {0}
    BY <1>2 DEF Money, EntryType
  <2>3. TypeOK BY <1>2, <2>1, <2>2 DEF Money, Rest, TypeOK
  <2> QED BY <1>2, <2>3 DEF Money, Rest, Kept, Typed
<1> QED BY <1>1, <1>2

LEMMA KeptPrime == Money' /\ Rest' => Kept'
BY KeptParts, PTL

LEMMA PayoutKept ==
  ASSUME Kept, Disburse \/ PaidOut \/ PayoutFails
  PROVE  Kept'
<1>1. Money /\ Rest BY KeptParts
<1>2. Rest' BY <1>1 DEF Rest, Disburse, PaidOut, PayoutFails, settings, money
<1>3. Typed /\ loan \in LoanType /\ UNCHANGED <<rate, quote, paid, entries>>
  BY DEF Kept, Typed, Disburse, PaidOut, PayoutFails, money
<1>4. CASE Disburse
  <2>1. loan' = [loan EXCEPT !.status = "processing"] /\ loan.status = "approved"
    BY <1>4 DEF Disburse
  <2>2. loan' \in LoanType BY <1>3, <2>1 DEF LoanType, Status
  <2>3. /\ loan'.status = "processing" /\ loan'.settled = loan.settled
        /\ loan'.rebate = loan.rebate /\ loan'.penalties = loan.penalties
    BY <1>3, <2>1 DEF LoanType
  <2>4. Untouched' BY <1>3, <2>1, <2>3 DEF Kept, Untouched, Owing
  <2>5. Accounted' BY <2>3 DEF Accounted, Collectible
  <2>6. InDuplum' BY <1>3, <2>3 DEF InDuplum, Kept
  <2> QED BY <1>1, <1>2, <1>3, <2>2, <2>4, <2>5, <2>6, KeptPrime DEF Money
<1>5. CASE PayoutFails
  <2>1. loan' = [loan EXCEPT !.status = "approved"] /\ loan.status = "processing"
    BY <1>5 DEF PayoutFails
  <2>2. loan' \in LoanType BY <1>3, <2>1 DEF LoanType, Status
  <2>3. /\ loan'.status = "approved" /\ loan'.settled = loan.settled
        /\ loan'.rebate = loan.rebate /\ loan'.penalties = loan.penalties
    BY <1>3, <2>1 DEF LoanType
  <2>4. Untouched' BY <1>3, <2>1, <2>3 DEF Kept, Untouched, Owing
  <2>5. Accounted' BY <2>3 DEF Accounted, Collectible
  <2>6. InDuplum' BY <1>3, <2>3 DEF InDuplum, Kept
  <2> QED BY <1>1, <1>2, <1>3, <2>2, <2>4, <2>5, <2>6, KeptPrime DEF Money
<1>6. CASE PaidOut
  <2> DEFINE due == today + PeriodOf(product) * AtLeast(1, product.tenure)
  <2>1. /\ loan' = [loan EXCEPT !.status = "active", !.start = today, !.due = due,
                                !.balance = BalanceAtDisbursement(quote)]
        /\ loan.status = "processing"
    BY <1>6 DEF PaidOut
  <2>2. due \in Int
    <3>1. product.tenure \in Nat BY <1>1, AccountAssumption DEF Rest, AccountAssumption
    <3>2. AtLeast(1, product.tenure) \in Nat BY <3>1 DEF AtLeast
    <3>3. PeriodOf(product) \in Nat BY <1>3, PeriodNat
    <3>4. today \in Int BY <1>1, AccountAssumption DEF Rest, Days, AccountAssumption
    <3> QED BY <3>2, <3>3, <3>4
  <2> HIDE DEF due
  <2>3. BalanceAtDisbursement(quote) \in Nat BY <1>3, NumberFacts DEF BalanceAtDisbursement
  <2>4. today \in Int BY <1>1, AccountAssumption DEF Rest, Days, AccountAssumption
  <2>5. loan' \in LoanType BY <1>3, <2>1, <2>2, <2>3, <2>4 DEF LoanType, Status
  <2>6. /\ loan'.status = "active" /\ loan'.settled = loan.settled
        /\ loan'.rebate = loan.rebate /\ loan'.penalties = loan.penalties
        /\ loan'.balance = BalanceAtDisbursement(quote)
    BY <1>3, <2>1 DEF LoanType
  <2>7. SumOf(paid) = 0 /\ loan.rebate = 0 /\ loan.penalties = 0
    BY <2>1 DEF Kept, Untouched
  <2>8. Untouched' BY <1>3, <2>1, <2>6, <2>7 DEF Kept, Untouched, Owing
  <2>9. Accounted'
    <3>1. Price' = BalanceAtDisbursement(quote) BY <1>3, <2>3, <2>6, <2>7 DEF Price
    <3> QED BY <1>3, <2>3, <2>6, <2>7, <3>1 DEF Accounted, Collectible
  <2>10. InDuplum' BY <1>3, <2>6 DEF InDuplum, Kept
  <2> QED BY <1>1, <1>2, <1>3, <2>5, <2>8, <2>9, <2>10, KeptPrime DEF Money
<1> QED BY <1>4, <1>5, <1>6

LEMMA PaymentKept ==
  ASSUME Kept, NEW ref \in Refs, NEW amount \in Amounts,
         NEW day \in AtLeast(today - Late, 0)..today,
         Pay(ref, amount, day) \/ Enter(ref, amount, day)
  PROVE  Kept'
<1>1. Money /\ Rest BY KeptParts
<1>2. amount \in Nat \ {0} BY AccountAssumption DEF AccountAssumption
<1>3. day \in Nat /\ day \in Days
  <2>1. today \in Nat /\ today <= LastDay /\ Late \in Nat /\ LastDay \in Nat
    BY <1>1, AccountAssumption DEF Rest, Days, AccountAssumption
  <2> QED BY <2>1 DEF AtLeast, Days
<1>4. UNCHANGED <<rate, quote, today>> BY DEF Pay, Enter
<1>5. CASE Pay(ref, amount, day)
  <2>1. Money'
    BY <1>2, <1>3, <1>4, <1>5, TakeKept, ParkKept DEF Pay
  <2>2. Rest' BY <1>1, <1>2, <1>5 DEF Rest, Pay, settings
  <2> QED BY <2>1, <2>2, KeptPrime
<1>6. CASE Enter(ref, amount, day)
  <2>1. Money'
    BY <1>2, <1>3, <1>4, <1>6, TakeKept, SameKept DEF Enter
  <2>2. /\ received' = [received EXCEPT ![ref] = amount]
        /\ held' \in {held, held \cup {[ref |-> ref, amount |-> amount, day |-> day]}}
        /\ UNCHANGED <<rate, quote, elsewhere, product, order, method, changes, today>>
    BY <1>6 DEF Enter, settings
  <2>3. \A h \in held' : h.ref \in Refs /\ h.amount \in Amounts /\ h.day \in Days
    BY <1>1, <1>3, <2>2 DEF Rest
  <2>4. received' \in [Refs -> Nat] BY <1>1, <1>2, <2>2 DEF Rest
  <2>5. Rest' BY <1>1, <2>2, <2>3, <2>4, <1>4 DEF Rest, Days
  <2> QED BY <2>1, <2>5, KeptPrime
<1> QED BY <1>5, <1>6

LEMMA ApproveKept ==
  ASSUME Kept, NEW h \in held, Approve(h)
  PROVE  Kept'
<1>1. Money /\ Rest BY KeptParts
<1>2. h.ref \in Refs /\ h.amount \in Nat \ {0} /\ h.day \in Nat
  <2>1. h.ref \in Refs /\ h.amount \in Amounts /\ h.day \in Days BY <1>1 DEF Rest
  <2>2. Amounts \subseteq Nat \ {0} BY AccountAssumption DEF AccountAssumption
  <2>3. Days \subseteq Nat BY AccountAssumption DEF AccountAssumption, Days
  <2> QED BY <2>1, <2>2, <2>3
<1>3. Money'
  BY <1>2, TakeKept, SameKept DEF Approve
<1>4. Rest' BY <1>1 DEF Rest, Approve, settings, Days
<1> QED BY <1>3, <1>4, KeptPrime

LEMMA ResolveKept ==
  ASSUME Kept, NEW e \in entries, NEW how \in {"refunded", "moved"}, Resolve(e, how)
  PROVE  Kept'
<1>1. Money /\ Rest BY KeptParts
<1> DEFINE f == [e EXCEPT !.status = how, !.resolved = today]
<1>2. entries' = (entries \ {e}) \cup {f} /\ UNCHANGED <<rate, quote, loan, paid>>
  BY DEF Resolve
<1>3. e \in EntryType BY <1>1 DEF Money
<1>4. today \in Int BY <1>1, AccountAssumption DEF Rest, Days, AccountAssumption
<1>5. f \in EntryType /\ f.kind = e.kind BY <1>3, <1>4 DEF EntryType
<1> HIDE DEF f
<1>6. entries' \subseteq EntryType BY <1>1, <1>2, <1>5 DEF Money
<1>7. Owing("INT") = {} => Owing("INT")' = {} BY <1>2, <1>5 DEF Owing
<1>8. Untouched' BY <1>2, <1>7 DEF Kept, Untouched
<1>9. Accounted' BY <1>2 DEF Accounted, Kept, Price
<1>10. InDuplum' BY <1>2 DEF InDuplum, Kept
<1>11. Money' BY <1>1, <1>2, <1>6, <1>8, <1>9, <1>10 DEF Money
<1>12. Rest' BY <1>1 DEF Rest, Resolve, settings, Days
<1> QED BY <1>11, <1>12, KeptPrime

LEMMA OverdueKept ==
  ASSUME Kept, TurnOverdue \/ TurnDefaulted
  PROVE  Kept'
<1>1. Money /\ Rest BY KeptParts
<1>2. Rest' BY <1>1 DEF Rest, TurnOverdue, TurnDefaulted, settings, money, Days
<1>3. Typed /\ loan \in LoanType /\ UNCHANGED <<rate, quote, paid, entries>>
  BY DEF Kept, Typed, TurnOverdue, TurnDefaulted, money
<1>4. loan.status \in Collectible BY DEF TurnOverdue, TurnDefaulted, Collectible
<1>5. CASE TurnOverdue
  <2> DEFINE n == PenaltyNow
  <2>1. /\ n \in Nat
        /\ n > 0 => quote.interest + n <= quote.principal
    <3>1. product.penalty \in Nat BY <1>1, AccountAssumption DEF Rest, AccountAssumption
    <3>2. Percent(product.penalty, quote.principal) \in Nat BY <1>3, <3>1, NumberFacts, PercentNat
    <3>3. Percent(rate, quote.principal) = quote.interest BY <1>1 DEF Rest
    <3>4. n = InDuplumCap(quote.principal, quote.interest,
                          Percent(product.penalty, quote.principal))
      BY <3>3 DEF PenaltyNow
    <3> QED BY <1>3, <3>2, <3>4, NumberFacts, CapBound
  <2>2. /\ loan' = [loan EXCEPT !.status = "overdue", !.balance = @ + n, !.penalties = @ + n]
        /\ loan.status = "active"
    BY <1>5 DEF TurnOverdue
  <2> HIDE DEF n
  <2>3. loan.balance + n \in Nat /\ loan.penalties + n \in Nat BY <1>3, <2>1, NumberFacts
  <2>4. loan' \in LoanType BY <1>3, <2>2, <2>3 DEF LoanType, Status
  <2>5. /\ loan'.status = "overdue" /\ loan'.settled = loan.settled
        /\ loan'.rebate = loan.rebate /\ loan'.balance = loan.balance + n
        /\ loan'.penalties = loan.penalties + n
    BY <1>3, <2>2 DEF LoanType
  <2>6. loan.penalties = 0 BY <2>2 DEF Kept, Untouched
  <2>7. Untouched' BY <1>3, <1>4, <2>5, CollectibleFacts DEF Untouched, Owing
  <2>8. Accounted'
    <3>1. Price' = Price + n
      BY <1>3, <2>1, <2>5, NumberFacts DEF Price, BalanceAtDisbursement
    <3>2. loan'.balance + SumOf(paid') + loan'.rebate = Price'
      BY <1>3, <1>4, <2>1, <2>5, <3>1, NumberFacts, CollectibleFacts
    <3> QED BY <2>5, <3>2 DEF Accounted
  <2>9. InDuplum' BY <1>3, <2>1, <2>5, <2>6 DEF InDuplum
  <2> QED BY <1>1, <1>2, <1>3, <2>4, <2>7, <2>8, <2>9, KeptPrime DEF Money
<1>6. CASE TurnDefaulted
  <2>1. loan' = [loan EXCEPT !.status = "defaulted"] BY <1>6 DEF TurnDefaulted
  <2>2. loan' \in LoanType BY <1>3, <2>1 DEF LoanType, Status
  <2>3. /\ loan'.status = "defaulted" /\ loan'.settled = loan.settled
        /\ loan'.rebate = loan.rebate /\ loan'.penalties = loan.penalties
        /\ loan'.balance = loan.balance
    BY <1>3, <2>1 DEF LoanType
  <2>4. Untouched' BY <1>3, <1>4, <2>3, CollectibleFacts DEF Untouched, Owing
  <2>5. Price' = Price BY <1>3, <2>3 DEF Price
  <2>6. Accounted' BY <1>3, <1>4, <2>3, <2>5, CollectibleFacts DEF Accounted
  <2>7. InDuplum' BY <1>3, <2>3 DEF InDuplum, Kept
  <2> QED BY <1>1, <1>2, <1>3, <2>2, <2>4, <2>6, <2>7, KeptPrime DEF Money
<1> QED BY <1>5, <1>6

LEMMA SettingsKept ==
  ASSUME Kept,
         \/ \E r \in Refs : EnterAgain(r)
         \/ \E o \in Orders : SetOrder(o)
         \/ \E m \in Methods : SetMethod(m)
         \/ \E p \in Products : UpdateProduct(p)
         \/ Tick
         \/ UNCHANGED vars
  PROVE  Kept'
<1>1. Money /\ Rest BY KeptParts
<1>2. UNCHANGED <<rate, quote, loan, paid, entries>>
  BY DEF EnterAgain, SetOrder, SetMethod, UpdateProduct, Tick, vars, money
<1>3. Money' BY <1>2, SameKept
<1>4. ASSUME NEW r \in Refs, EnterAgain(r) PROVE Rest'
  <2>1. elsewhere' = [elsewhere EXCEPT ![r] = received[r]] BY <1>4 DEF EnterAgain
  <2>2. elsewhere' \in [Refs -> Nat] BY <1>1, <2>1 DEF Rest
  <2> QED BY <1>1, <1>4, <2>2 DEF EnterAgain, Rest, settings, Days
<1>5. changes' \in {changes, changes + 1} /\ (changes' = changes + 1 => changes < MaxChanges)
       => changes' \in 0..MaxChanges
  BY <1>1, AccountAssumption DEF Rest, AccountAssumption
<1>6. ASSUME NEW o \in Orders, SetOrder(o) PROVE Rest'
  BY <1>1, <1>5, <1>6 DEF SetOrder, Rest, money, Days
<1>7. ASSUME NEW m \in Methods, SetMethod(m) PROVE Rest'
  BY <1>1, <1>5, <1>7 DEF SetMethod, Rest, money, Days
<1>8. ASSUME NEW p \in Products, UpdateProduct(p) PROVE Rest'
  BY <1>1, <1>5, <1>8 DEF UpdateProduct, Rest, money, Days
<1>9. ASSUME Tick PROVE Rest'
  <2>1. today' \in Days
    <3>1. today' = today + 1 /\ today < LastDay BY <1>9 DEF Tick
    <3> QED BY <1>1, <3>1, AccountAssumption DEF Rest, Days, AccountAssumption
  <2> QED BY <1>1, <1>9, <2>1 DEF Tick, Rest, money, settings, Days
<1>10. ASSUME UNCHANGED vars PROVE Rest'
  BY <1>1, <1>10 DEF vars, Rest, Days
<1>11. Rest' BY <1>4, <1>6, <1>7, <1>8, <1>9, <1>10
<1> QED BY <1>3, <1>11, KeptPrime

LEMMA StepKept == Kept /\ [Next]_vars => Kept'
<1> SUFFICES ASSUME Kept, [Next]_vars PROVE Kept' OBVIOUS
<1>1. CASE Disburse \/ PaidOut \/ PayoutFails BY <1>1, PayoutKept
<1>2. CASE \E r \in Refs, a \in Amounts, d \in AtLeast(today - Late, 0)..today :
             Pay(r, a, d) \/ Enter(r, a, d)
  BY <1>2, PaymentKept
<1>3. CASE \E h \in held : Approve(h) BY <1>3, ApproveKept
<1>4. CASE \E e \in entries, how \in {"refunded", "moved"} : Resolve(e, how)
  BY <1>4, ResolveKept
<1>5. CASE TurnOverdue \/ TurnDefaulted BY <1>5, OverdueKept
<1>6. CASE \/ \E r \in Refs : EnterAgain(r)
           \/ \E o \in Orders : SetOrder(o)
           \/ \E m \in Methods : SetMethod(m)
           \/ \E p \in Products : UpdateProduct(p)
           \/ Tick
           \/ UNCHANGED vars
  BY <1>6, SettingsKept
<1> QED BY <1>1, <1>2, <1>3, <1>4, <1>5, <1>6 DEF Next

(* The inductive invariant: types, nothing charged early, every cent of the *)
(* price accounted for, and the in duplum cap.                              *)
THEOREM Invariant == Spec => []Kept
<1>1. Init => Kept BY InitKept
<1>2. Kept /\ [Next]_vars => Kept' BY StepKept
<1> QED BY <1>1, <1>2, PTL DEF Spec

(* Type correctness for any products, amounts and dates. *)
THEOREM TypeCorrect == Spec => []TypeOK
<1>1. Kept => TypeOK BY DEF Kept, Typed
<1> QED BY <1>1, Invariant, PTL

(* integrity_check finds no mismatch, to the cent. *)
THEOREM EveryCentAccounted == Spec => []Accounted
<1>1. Kept => Accounted BY DEF Kept
<1> QED BY <1>1, Invariant, PTL

(* in_duplum_cap: penalties never take the charges beyond the principal. *)
THEOREM NeverTwiceThePrincipal == Spec => []InDuplum
<1>1. Kept => InDuplum BY DEF Kept
<1> QED BY <1>1, Invariant, PTL

(* Regulation 56(4), on every step that settles a loan early. *)
LEMMA FairStep ==
  ASSUME Kept, NEW ref \in Refs, NEW amount \in Nat \ {0}, NEW day \in Nat,
         loan.status \in Collectible, SettleEarly(ref, amount, day),
         UNCHANGED <<rate, quote, today>>
  PROVE  loan'.settled = day
         /\ SumOf(paid') - OwedBack' =
              quote.principal + quote.inBalance + loan.penalties + EarnedBy(day)
<1>1. PICK a \in Nat, c \in Nat, w \in Nat :
        /\ SumOf(paid') = SumOf(paid) + a
        /\ a - c = loan.balance + EarnedBy(day) - quote.interest
        /\ loan' = [loan EXCEPT !.status = "paid", !.balance = 0, !.settled = day,
                                !.rebate = @ + w]
        /\ a <= amount
        /\ entries' = entries \cup Parked(ref, "OVR", amount - a) \cup Parked(ref, "INT", c)
  <2>1. Settled(ref, amount, day) BY SettleFacts
  <2> QED BY <2>1 DEF Settled
<1>2. Typed /\ loan \in LoanType BY DEF Kept, Typed
<1>3. loan'.settled = day BY <1>1, <1>2 DEF LoanType
<1>4. OwedBack' = c
  <2>1. amount - a \in Nat BY <1>1
  <2>2. \A e \in Parked(ref, "OVR", amount - a) : e.kind = "OVR" BY <1>2, <2>1, ParkedType
  <2>3. \A e \in Parked(ref, "INT", c) : e.kind = "INT" /\ e.amount = c BY <1>2, ParkedType
  <2>4. Owing("INT")' = Parked(ref, "INT", c)
    BY <1>1, <2>2, <2>3, CollectibleFacts DEF Owing
  <2>5. CASE c = 0
    <3>1. Parked(ref, "INT", c) = {} BY <2>5 DEF Parked
    <3> QED BY <2>4, <2>5, <3>1 DEF OwedBack
  <2>6. CASE c > 0
    <3>1. Parked(ref, "INT", c) # {} BY <2>6 DEF Parked
    <3>2. OwedBack' = (CHOOSE e \in Owing("INT")' : TRUE).amount
      BY <2>4, <3>1 DEF OwedBack
    <3>3. (CHOOSE e \in Owing("INT")' : TRUE) \in Owing("INT")' BY <2>4, <3>1
    <3> QED BY <2>3, <2>4, <3>2, <3>3
  <2> QED BY <2>5, <2>6
<1>5. EarnedBy(day) \in Nat BY SettleFacts
<1>6. loan.balance + SumOf(paid) = Price BY <1>2, NumberFacts, CollectibleFacts
<1>7. SumOf(paid') - OwedBack' =
        quote.principal + quote.inBalance + loan.penalties + EarnedBy(day)
  BY <1>1, <1>2, <1>4, <1>5, <1>6, NumberFacts
<1> QED BY <1>3, <1>7

LEMMA TakeFair ==
  ASSUME Kept, NEW ref \in Refs, NEW amount \in Nat \ {0}, NEW day \in Nat,
         loan.status \in Collectible, Take(ref, amount, day), UNCHANGED <<rate, quote, today>>,
         loan.settled = Never, loan'.settled # Never
  PROVE  SumOf(paid') - OwedBack' =
           quote.principal + quote.inBalance + loan.penalties + EarnedBy(loan'.settled)
<1>1. CASE SettleEarly(ref, amount, day)
  <2>1. /\ loan'.settled = day
        /\ SumOf(paid') - OwedBack' =
             quote.principal + quote.inBalance + loan.penalties + EarnedBy(day)
    BY <1>1, FairStep
  <2> QED BY <2>1
<1>2. CASE Apply(ref, amount, day)
  <2>1. PICK a \in Nat : loan' = [loan EXCEPT !.balance = @ - a,
                                  !.status = IF a = loan.balance THEN "paid" ELSE @]
    BY <1>2, ApplyFacts
  <2>2. loan'.settled = loan.settled BY <2>1 DEF Kept, Typed, LoanType
  <2> QED BY <2>2
<1> QED BY <1>1, <1>2 DEF Take

Fair ==
  loan.settled = Never /\ loan'.settled # Never =>
    SumOf(paid') - OwedBack' =
      quote.principal + quote.inBalance + loan.penalties + EarnedBy(loan'.settled)

LEMMA StepFair == Kept /\ [Next]_vars => [Fair]_vars
<1> SUFFICES ASSUME Kept, [Next]_vars PROVE Fair OBVIOUS
<1>1. CASE UNCHANGED loan BY <1>1 DEF Fair
<1>2. CASE Disburse \/ PaidOut \/ PayoutFails \/ TurnOverdue \/ TurnDefaulted
  <2>1. loan'.settled = loan.settled
    BY <1>2 DEF Kept, Typed, LoanType, Disburse, PaidOut, PayoutFails, TurnOverdue, TurnDefaulted
  <2> QED BY <2>1 DEF Fair
<1>3. ASSUME NEW r \in Refs, NEW a \in Amounts, NEW d \in AtLeast(today - Late, 0)..today,
             Pay(r, a, d) \/ Enter(r, a, d), ~UNCHANGED loan
      PROVE  Fair
  <2>1. a \in Nat \ {0} BY AccountAssumption DEF AccountAssumption
  <2>2. d \in Nat
    <3>1. today \in Nat /\ Late \in Nat
      BY AccountAssumption DEF AccountAssumption, Kept, Typed, TypeOK, Days
    <3> QED BY <3>1 DEF AtLeast
  <2>3. loan.status \in Collectible /\ Take(r, a, d) /\ UNCHANGED <<rate, quote, today>>
    BY <1>3 DEF Pay, Enter, Park
  <2> QED BY <2>1, <2>2, <2>3, TakeFair DEF Fair
<1>4. ASSUME NEW h \in held, Approve(h), ~UNCHANGED loan PROVE Fair
  <2>1. h.ref \in Refs /\ h.amount \in Amounts /\ h.day \in Days
    BY <1>4 DEF Kept, Typed, TypeOK
  <2>2. h.amount \in Nat \ {0} /\ h.day \in Nat
    <3>1. Amounts \subseteq Nat \ {0} BY AccountAssumption DEF AccountAssumption
    <3>2. Days \subseteq Nat BY AccountAssumption DEF AccountAssumption, Days
    <3> QED BY <2>1, <3>1, <3>2
  <2>3. /\ loan.status \in Collectible /\ Take(h.ref, h.amount, h.day)
        /\ UNCHANGED <<rate, quote, today>>
    BY <1>4 DEF Approve
  <2> QED BY <2>1, <2>2, <2>3, TakeFair DEF Fair
<1>5. CASE \/ \E r \in Refs : EnterAgain(r)
           \/ \E e \in entries, how \in {"refunded", "moved"} : Resolve(e, how)
           \/ \E o \in Orders : SetOrder(o)
           \/ \E m \in Methods : SetMethod(m)
           \/ \E p \in Products : UpdateProduct(p)
           \/ Tick
           \/ UNCHANGED vars
  <2>1. UNCHANGED loan
    BY <1>5 DEF EnterAgain, Resolve, SetOrder, SetMethod, UpdateProduct, Tick, vars
  <2> QED BY <1>1, <2>1
<1> QED BY <1>1, <1>2, <1>3, <1>4, <1>5 DEF Next

(* Regulation 56(4): who settles early pays, in all, what is earned and no  *)
(* more, whatever was paid before and whichever order it was split in.      *)
THEOREM EarlySettlementFair == Spec => EarlyIsFair
<1>1. Kept /\ [Next]_vars => [Fair]_vars BY StepFair
<1> QED BY <1>1, Invariant, PTL DEF Spec, EarlyIsFair, Fair
---------------------------------------------------------------------------
(***************************************************************************)
(* The books.  A sum over a finite set is a fold of the library.  Induction *)
(* over finite sets is stated without an operator: a set of good subsets   *)
(* that holds {} and grows by any element holds them all (OneByOne).       *)
(***************************************************************************)
LEMMA LeastNumber ==
  ASSUME NEW N \in SUBSET Nat, N # {}
  PROVE  \E n \in N : \A m \in N : n <= m
<1>1. PICK n \in N : \A m \in N : ~(<<m, n>> \in OpToRel(<, Nat))
  BY NatLessThanWellFounded, WFMin
<1>2. \A m \in N : ~(m < n) BY <1>1 DEF OpToRel
<1>3. \A m \in N : n <= m BY <1>2
<1> QED BY <1>3

(* What holds of the empty set and of one element more holds of the set. *)
LEMMA OneByOne ==
  ASSUME NEW S, IsFiniteSet(S), NEW Good \in SUBSET SUBSET S, {} \in Good,
         \A T \in Good : \A x \in S \ T : T \cup {x} \in Good
  PROVE  S \in Good
<1> SUFFICES ASSUME S \notin Good PROVE FALSE OBVIOUS
<1> DEFINE Bad == {T \in SUBSET S : T \notin Good}
           sizes == {Cardinality(T) : T \in Bad}
<1>1. \A T \in Bad : IsFiniteSet(T) /\ Cardinality(T) \in Nat BY FS_Subset, FS_CardinalityType
<1>2. sizes \in SUBSET Nat /\ sizes # {}
  <2>1. S \in Bad OBVIOUS
  <2> QED BY <1>1, <2>1
<1>3. PICK n \in sizes : \A m \in sizes : n <= m BY <1>2, LeastNumber
<1>4. PICK T \in Bad : Cardinality(T) = n BY <1>3
<1>5. T # {} OBVIOUS
<1>6. PICK x \in T : TRUE BY <1>5
<1>7. IsFiniteSet(T) /\ n \in Nat BY <1>1, <1>4
<1>8. Cardinality(T \ {x}) = n - 1 BY <1>4, <1>6, <1>7, FS_RemoveElement
<1>9. T \ {x} \in Good
  <2>1. SUFFICES ASSUME T \ {x} \notin Good PROVE FALSE OBVIOUS
  <2>2. n - 1 \in sizes BY <1>8, <2>1
  <2> QED BY <1>3, <1>7, <2>2
<1>10. (T \ {x}) \cup {x} = T BY <1>6
<1>11. T \in Good BY <1>6, <1>9, <1>10
<1> QED BY <1>11

(* SumFunctionOnSet, one element at a time: first the one it chooses. *)
Any(s) == CHOOSE x \in s : TRUE
Sums(f, S, it) == it = [s \in SUBSET S |-> IF s = {} THEN 0 ELSE f[Any(s)] + it[s \ {Any(s)}]]

LEMMA SumIs ==
  ASSUME NEW f, NEW S
  PROVE  SumFunctionOnSet(f, S) = (CHOOSE it : Sums(f, S, it))[S]
BY Zenon DEF SumFunctionOnSet, FoldFunctionOnSet, MapThenFoldSet, Sums, Any
SumsAt(f, it, s) == it[s] = IF s = {} THEN 0 ELSE f[Any(s)] + it[s \ {Any(s)}]

LEMMA AnyIn == \A s : s # {} => Any(s) \in s
BY DEF Any

LEMMA SumsExist ==
  ASSUME NEW f, NEW S, IsFiniteSet(S)
  PROVE  \E it : Sums(f, S, it)
<1> DEFINE UpTo(n) == {s \in SUBSET S : Cardinality(s) <= n}
           Some(n) == \E it : \A s \in UpTo(n) : SumsAt(f, it, s)
           Bad == {n \in Nat : ~Some(n)}
<1>1. \A s \in SUBSET S : IsFiniteSet(s) /\ Cardinality(s) \in Nat
  BY FS_Subset, FS_CardinalityType
<1>2. Some(0)
  <2>1. \A s \in UpTo(0) : s = {} BY <1>1, FS_EmptySet
  <2>2. \A s \in UpTo(0) : SumsAt(f, [s1 \in SUBSET S |-> 0], s) BY <2>1 DEF SumsAt
  <2> QED BY <2>2
<1>3. ASSUME NEW n \in Nat, Some(n) PROVE Some(n + 1)
  <2>1. PICK it : \A s \in UpTo(n) : SumsAt(f, it, s) BY <1>3
  <2> DEFINE more == [s \in SUBSET S |-> IF s = {} THEN 0 ELSE f[Any(s)] + it[s \ {Any(s)}]]
  <2>2. \A s \in UpTo(n) : more[s] = it[s] BY <2>1 DEF SumsAt
  <2>3. ASSUME NEW s \in UpTo(n + 1), s # {}
        PROVE  s \ {Any(s)} \in UpTo(n)
    <3>1. Any(s) \in s BY <2>3, AnyIn
    <3>2. Cardinality(s \ {Any(s)}) = Cardinality(s) - 1 BY <1>1, <3>1, FS_RemoveElement
    <3>3. Cardinality(s) \in Nat /\ Cardinality(s) <= n + 1 BY <1>1
    <3> QED BY <3>2, <3>3
  <2>4. \A s \in UpTo(n + 1) : SumsAt(f, more, s)
    <3> TAKE s \in UpTo(n + 1)
    <3>1. CASE s = {} BY <3>1 DEF SumsAt
    <3>2. CASE s # {}
      <4>1. more[s \ {Any(s)}] = it[s \ {Any(s)}] BY <2>2, <2>3, <3>2
      <4>2. more[s] = f[Any(s)] + it[s \ {Any(s)}] BY <3>2
      <4> QED BY <3>2, <4>1, <4>2 DEF SumsAt
    <3> QED BY <3>1, <3>2
  <2> QED BY <2>4
<1>4. Bad = {}
  <2>1. SUFFICES ASSUME Bad # {} PROVE FALSE OBVIOUS
  <2>2. Bad \in SUBSET Nat OBVIOUS
  <2>3. PICK n \in Bad : \A m \in Bad : n <= m BY <2>1, <2>2, LeastNumber
  <2>4. n \in Nat /\ ~Some(n) OBVIOUS
  <2> HIDE DEF Some
  <2>5. n # 0 BY <1>2, <2>4
  <2>6. n - 1 \in Nat /\ (n - 1) + 1 = n BY <2>4, <2>5
  <2>7. Some(n - 1)
    <3>1. SUFFICES ASSUME ~Some(n - 1) PROVE FALSE OBVIOUS
    <3>2. n - 1 \in Bad BY <2>6, <3>1
    <3> QED BY <2>3, <2>4, <3>2
  <2> QED BY <1>3, <2>4, <2>6, <2>7
<1>5. PICK it : \A s \in UpTo(Cardinality(S)) : SumsAt(f, it, s)
  <2>1. Cardinality(S) \in Nat BY FS_CardinalityType
  <2> QED BY <1>4, <2>1
<1>6. \A s \in SUBSET S : SumsAt(f, it, s)
  <2>1. \A s \in SUBSET S : Cardinality(s) <= Cardinality(S) BY FS_Subset
  <2> QED BY <1>5, <2>1
<1> DEFINE all == [s \in SUBSET S |-> it[s]]
<1>7. all = [s \in SUBSET S |-> IF s = {} THEN 0 ELSE f[Any(s)] + all[s \ {Any(s)}]]
  <2>1. \A s \in SUBSET S : s \ {Any(s)} \in SUBSET S OBVIOUS
  <2>2. \A s \in SUBSET S :
          it[s] = IF s = {} THEN 0 ELSE f[Any(s)] + all[s \ {Any(s)}]
    BY <1>6, <2>1 DEF SumsAt
  <2> QED BY <2>2
<1> HIDE DEF all
<1> QED BY <1>7 DEF Sums

LEMMA SumsAgree ==
  ASSUME NEW f, NEW S, IsFiniteSet(S), NEW T \in SUBSET S, NEW g, NEW h,
         Sums(f, S, g), Sums(f, T, h)
  PROVE  g[T] = h[T]
<1> DEFINE Bad == {s \in SUBSET T : g[s] # h[s]}
           sizes == {Cardinality(s) : s \in Bad}
<1>1. SUFFICES ASSUME g[T] # h[T] PROVE FALSE OBVIOUS
<1>2. \A s \in SUBSET T : IsFiniteSet(s) /\ Cardinality(s) \in Nat
  BY FS_Subset, FS_CardinalityType
<1>3. sizes \in SUBSET Nat /\ sizes # {}
  <2>1. T \in Bad BY <1>1
  <2> QED BY <1>2, <2>1
<1>4. PICK n \in sizes : \A m \in sizes : n <= m BY <1>3, LeastNumber
<1>5. PICK s \in Bad : Cardinality(s) = n BY <1>4
<1>6. s \in SUBSET S /\ s \in SUBSET T OBVIOUS
<1>7. SumsAt(f, g, s) /\ SumsAt(f, h, s)
  <2>1. g = [x \in SUBSET S |-> IF x = {} THEN 0 ELSE f[Any(x)] + g[x \ {Any(x)}]] BY DEF Sums
  <2>2. h = [x \in SUBSET T |-> IF x = {} THEN 0 ELSE f[Any(x)] + h[x \ {Any(x)}]] BY DEF Sums
  <2>3. g[s] = IF s = {} THEN 0 ELSE f[Any(s)] + g[s \ {Any(s)}] BY <1>6, <2>1
  <2>4. h[s] = IF s = {} THEN 0 ELSE f[Any(s)] + h[s \ {Any(s)}] BY <1>6, <2>2
  <2> QED BY <2>3, <2>4 DEF SumsAt
<1>8. s # {} /\ g[s] # h[s] BY <1>7 DEF SumsAt
<1>9. Any(s) \in s BY <1>8, AnyIn
<1>10. s \ {Any(s)} \in SUBSET T /\ Cardinality(s \ {Any(s)}) = n - 1
  BY <1>2, <1>5, <1>6, <1>9, FS_RemoveElement
<1>11. g[s \ {Any(s)}] = h[s \ {Any(s)}]
  <2>1. SUFFICES ASSUME g[s \ {Any(s)}] # h[s \ {Any(s)}] PROVE FALSE OBVIOUS
  <2>2. s \ {Any(s)} \in Bad BY <1>10, <2>1
  <2>3. n - 1 \in sizes BY <1>10, <2>2
  <2>4. n \in Nat BY <1>3
  <2> QED BY <1>4, <2>3, <2>4
<1> QED BY <1>7, <1>8, <1>11 DEF SumsAt

LEMMA SumUnfolds ==
  ASSUME NEW f, NEW S, IsFiniteSet(S)
  PROVE  SumFunctionOnSet(f, S) =
           IF S = {} THEN 0 ELSE f[Any(S)] + SumFunctionOnSet(f, S \ {Any(S)})
<1> DEFINE T == S \ {Any(S)}
           g == CHOOSE it : Sums(f, S, it)
           h == CHOOSE it : Sums(f, T, it)
<1>1. Sums(f, S, g) BY SumsExist
<1>2. T \in SUBSET S /\ IsFiniteSet(T) BY FS_Subset
<1>3. Sums(f, T, h) BY <1>2, SumsExist
<1>4. SumFunctionOnSet(f, S) = g[S] /\ SumFunctionOnSet(f, T) = h[T] BY SumIs
<1> HIDE DEF g, h
<1>5. g[T] = h[T] BY <1>1, <1>2, <1>3, SumsAgree
<1>6. g[S] = IF S = {} THEN 0 ELSE f[Any(S)] + g[T]
  <2>1. g = [s \in SUBSET S |-> IF s = {} THEN 0 ELSE f[Any(s)] + g[s \ {Any(s)}]]
    BY <1>1 DEF Sums
  <2>2. S \in SUBSET S OBVIOUS
  <2> QED BY <2>1, <2>2
<1> QED BY <1>4, <1>5, <1>6
(* ... and then any: the order does not matter. *)
LEMMA SumTakes ==
  ASSUME NEW f, NEW S, IsFiniteSet(S), \A x \in S : f[x] \in Int
  PROVE  /\ SumFunctionOnSet(f, S) \in Int
         /\ \A x \in S : SumFunctionOnSet(f, S) = f[x] + SumFunctionOnSet(f, S \ {x})
<1> DEFINE Sum(T) == SumFunctionOnSet(f, T)
           Good(T) == Sum(T) \in Int /\ \A x \in T : Sum(T) = f[x] + Sum(T \ {x})
           Bad == {T \in SUBSET S : ~Good(T)}
           sizes == {Cardinality(T) : T \in Bad}
<1>1. SUFFICES ASSUME ~Good(S) PROVE FALSE OBVIOUS
<1>2. \A T \in SUBSET S : IsFiniteSet(T) /\ Cardinality(T) \in Nat
  BY FS_Subset, FS_CardinalityType
<1>3. \A T \in SUBSET S : Sum(T) = IF T = {} THEN 0 ELSE f[Any(T)] + Sum(T \ {Any(T)})
  BY <1>2, SumUnfolds
<1> HIDE DEF Sum
<1>4. sizes \in SUBSET Nat /\ sizes # {}
  <2>1. S \in Bad BY <1>1
  <2> QED BY <1>2, <2>1
<1>5. PICK n \in sizes : \A m \in sizes : n <= m BY <1>4, LeastNumber
<1>6. PICK T \in Bad : Cardinality(T) = n BY <1>5
<1>7. \A x \in T : T \ {x} \in SUBSET S /\ Good(T \ {x})
  <2> TAKE x \in T
  <2>1. SUFFICES ASSUME ~Good(T \ {x}) PROVE FALSE OBVIOUS
  <2>2. IsFiniteSet(T) /\ n \in Nat BY <1>2, <1>6
  <2>3. Cardinality(T \ {x}) = n - 1 BY <1>6, <2>2, FS_RemoveElement
  <2>4. n - 1 \in sizes
    <3>1. T \ {x} \in Bad BY <2>1
    <3> QED BY <2>3, <3>1
  <2> QED BY <1>5, <2>2, <2>4
<1>8. T # {}
  <2>1. SUFFICES ASSUME T = {} PROVE FALSE OBVIOUS
  <2>2. Sum({}) = 0 BY <1>3
  <2>3. Good(T) BY <2>1, <2>2
  <2> QED BY <2>3
<1> DEFINE c == Any(T)
<1>9. c \in T /\ Sum(T) = f[c] + Sum(T \ {c}) BY <1>3, <1>8, AnyIn
<1> HIDE DEF c
<1>10. Sum(T) \in Int BY <1>7, <1>9
<1>11. \A x \in T : Sum(T) = f[x] + Sum(T \ {x})
  <2> TAKE x \in T
  <2>1. CASE x = c BY <1>9, <2>1
  <2>2. CASE x # c
    <3>1. Sum(T \ {c}) = f[x] + Sum((T \ {c}) \ {x}) BY <1>7, <1>9, <2>2
    <3>2. Sum(T \ {x}) = f[c] + Sum((T \ {x}) \ {c}) BY <1>7, <1>9, <2>2
    <3>3. (T \ {c}) \ {x} = (T \ {x}) \ {c} OBVIOUS
    <3>4. f[x] \in Int /\ f[c] \in Int /\ Sum(T \ {x}) \in Int /\ Sum(T \ {c}) \in Int
      BY <1>7, <1>9
    <3> DEFINE U == T \ {c}
    <3>5. Sum(U \ {x}) \in Int
      <4>1. x \in U BY <1>9, <2>2
      <4>2. Good(U) BY <1>7, <1>9
      <4>3. f[x] \in Int OBVIOUS
      <4>4. U \ {x} \in SUBSET S OBVIOUS
      <4>5. U \ {x} \notin Bad
        <5>1. SUFFICES ASSUME U \ {x} \in Bad PROVE FALSE OBVIOUS
        <5>2. Cardinality(U \ {x}) \in sizes BY <5>1
        <5>3. IsFiniteSet(T) /\ n \in Nat BY <1>2, <1>6
        <5>4. IsFiniteSet(U) BY <5>3, FS_RemoveElement
        <5>5. Cardinality(U) = n - 1 BY <1>6, <1>9, <5>3, FS_RemoveElement
        <5> HIDE DEF U, sizes, Bad
        <5>6. Cardinality(U \ {x}) = n - 1 - 1 BY <4>1, <5>4, <5>5, FS_RemoveElement
        <5>7. n <= n - 1 - 1 BY <1>5, <5>2, <5>6
        <5> QED BY <5>3, <5>7
      <4> QED BY <4>4, <4>5
    <3> DEFINE V == Sum(U \ {x})
               W == Sum(T \ {x})
    <3>6. V \in Int /\ W \in Int /\ f[x] \in Int /\ f[c] \in Int BY <3>4, <3>5
    <3>7. W = f[c] + V /\ Sum(T) = f[c] + (f[x] + V) BY <1>9, <3>1, <3>2, <3>3
    <3> HIDE DEF V, W
    <3>8. Sum(T) = f[x] + W BY <3>6, <3>7
    <3> QED BY <3>8 DEF W
  <2> QED BY <2>1, <2>2
<1>12. Good(T) BY <1>10, <1>11
<1> QED BY <1>12

LEMMA SumNone == \A f : SumFunctionOnSet(f, {}) = 0
BY FS_EmptySet, SumUnfolds

LEMMA SumAdds ==
  ASSUME NEW f, NEW S, IsFiniteSet(S), NEW x, x \notin S, f[x] \in Int, \A y \in S : f[y] \in Int
  PROVE  SumFunctionOnSet(f, S \cup {x}) = f[x] + SumFunctionOnSet(f, S)
<1>1. IsFiniteSet(S \cup {x}) BY FS_AddElement
<1>2. (S \cup {x}) \ {x} = S OBVIOUS
<1> QED BY <1>1, <1>2, SumTakes

LEMMA SumOne == ASSUME NEW f, NEW x, f[x] \in Int PROVE SumFunctionOnSet(f, {x}) = f[x]
<1>1. IsFiniteSet({}) BY FS_EmptySet
<1>2. {} \cup {x} = {x} OBVIOUS
<1>3. SumFunctionOnSet(f, {} \cup {x}) = f[x] + SumFunctionOnSet(f, {}) BY <1>1, SumAdds
<1> QED BY <1>2, <1>3, SumNone

(* Sums of two functions that are, together, a third. *)
LEMMA SumTogether ==
  ASSUME NEW f, NEW g, NEW h, NEW S, IsFiniteSet(S),
         \A x \in S : f[x] \in Int /\ g[x] \in Int /\ h[x] = f[x] + g[x]
  PROVE  SumFunctionOnSet(h, S) = SumFunctionOnSet(f, S) + SumFunctionOnSet(g, S)
<1> DEFINE Holds(T) == SumFunctionOnSet(h, T) = SumFunctionOnSet(f, T) + SumFunctionOnSet(g, T)
           Good == {T \in SUBSET S : Holds(T)}
<1>1. {} \in Good BY SumNone
<1>2. \A T \in Good : \A x \in S \ T : T \cup {x} \in Good
  <2> TAKE T \in Good
  <2> TAKE x \in S \ T
  <2>1. IsFiniteSet(T) /\ T \subseteq S BY FS_Subset
  <2>2. \A y \in T \cup {x} : f[y] \in Int /\ g[y] \in Int /\ h[y] \in Int /\ h[y] = f[y] + g[y]
    BY <2>1
  <2>3. /\ SumFunctionOnSet(f, T \cup {x}) = f[x] + SumFunctionOnSet(f, T)
        /\ SumFunctionOnSet(g, T \cup {x}) = g[x] + SumFunctionOnSet(g, T)
        /\ SumFunctionOnSet(h, T \cup {x}) = h[x] + SumFunctionOnSet(h, T)
    BY <2>1, <2>2, SumAdds
  <2>4. SumFunctionOnSet(f, T) \in Int /\ SumFunctionOnSet(g, T) \in Int BY <2>1, <2>2, SumTakes
  <2>5. Holds(T) OBVIOUS
  <2>6. Holds(T \cup {x}) BY <2>2, <2>3, <2>4, <2>5
  <2> QED BY <2>1, <2>6
<1> HIDE DEF Good
<1>3. S \in Good BY <1>1, <1>2, OneByOne DEF Good
<1> QED BY <1>3 DEF Good

LEMMA TwiceItself == \A n \in Int : n = n + n => n = 0
OBVIOUS

(* The same numbers have the same sum. *)
LEMMA SumSame ==
  ASSUME NEW f, NEW g, NEW S, IsFiniteSet(S), \A x \in S : f[x] \in Int /\ f[x] = g[x]
  PROVE  SumFunctionOnSet(f, S) = SumFunctionOnSet(g, S)
<1> DEFINE zero == [x \in S |-> 0]
<1>1. \A x \in S : zero[x] \in Int /\ zero[x] = zero[x] + zero[x] OBVIOUS
<1>2. \A x \in S : g[x] = f[x] + zero[x] OBVIOUS
<1> HIDE DEF zero
<1>3. SumFunctionOnSet(zero, S) = SumFunctionOnSet(zero, S) + SumFunctionOnSet(zero, S)
  BY <1>1, SumTogether
<1>4. SumFunctionOnSet(zero, S) \in Int BY <1>1, SumTakes
<1>5. SumFunctionOnSet(g, S) = SumFunctionOnSet(f, S) + SumFunctionOnSet(zero, S)
  BY <1>1, <1>2, SumTogether
<1>6. SumFunctionOnSet(f, S) \in Int BY SumTakes
<1>7. SumFunctionOnSet(zero, S) = 0 BY <1>3, <1>4, TwiceItself
<1> QED BY <1>5, <1>6, <1>7

(* Sets with nothing in common. *)
LEMMA SumJoined ==
  ASSUME NEW f, NEW S, NEW U, IsFiniteSet(S), IsFiniteSet(U), S \cap U = {},
         \A x \in S \cup U : f[x] \in Int
  PROVE  SumFunctionOnSet(f, S \cup U) = SumFunctionOnSet(f, S) + SumFunctionOnSet(f, U)
<1> DEFINE Holds(T) == SumFunctionOnSet(f, S \cup T) = SumFunctionOnSet(f, S) + SumFunctionOnSet(f, T)
           Good == {T \in SUBSET U : Holds(T)}
<1>1. SumFunctionOnSet(f, S) \in Int BY SumTakes
<1>2. {} \in Good
  <2>1. S \cup {} = S OBVIOUS
  <2> QED BY <1>1, <2>1, SumNone
<1>3. \A T \in Good : \A x \in U \ T : T \cup {x} \in Good
  <2> TAKE T \in Good
  <2> TAKE x \in U \ T
  <2>1. IsFiniteSet(T) /\ T \subseteq U BY FS_Subset
  <2>2. IsFiniteSet(S \cup T) BY <2>1, FS_Union
  <2>3. x \notin S \cup T /\ S \cup (T \cup {x}) = (S \cup T) \cup {x} OBVIOUS
  <2>4. f[x] \in Int /\ (\A y \in T : f[y] \in Int) /\ \A y \in S \cup T : f[y] \in Int BY <2>1
  <2>5. SumFunctionOnSet(f, S \cup (T \cup {x})) = f[x] + SumFunctionOnSet(f, S \cup T)
    BY <2>2, <2>3, <2>4, SumAdds
  <2>6. SumFunctionOnSet(f, T \cup {x}) = f[x] + SumFunctionOnSet(f, T)
    BY <2>1, <2>4, SumAdds
  <2>7. SumFunctionOnSet(f, T) \in Int BY <2>1, <2>4, SumTakes
  <2>8. Holds(T) OBVIOUS
  <2>9. Holds(T \cup {x}) BY <1>1, <2>4, <2>5, <2>6, <2>7, <2>8
  <2> QED BY <2>1, <2>9
<1> HIDE DEF Good
<1>4. U \in Good BY <1>2, <1>3, OneByOne DEF Good
<1> QED BY <1>4 DEF Good

LEMMA SumNat ==
  ASSUME NEW f, NEW S, IsFiniteSet(S), \A x \in S : f[x] \in Nat
  PROVE  SumFunctionOnSet(f, S) \in Nat
<1> DEFINE Good == {T \in SUBSET S : SumFunctionOnSet(f, T) \in Nat}
<1>1. {} \in Good BY SumNone
<1>2. \A T \in Good : \A x \in S \ T : T \cup {x} \in Good
  <2> TAKE T \in Good
  <2> TAKE x \in S \ T
  <2>1. IsFiniteSet(T) BY FS_Subset
  <2>2. SumFunctionOnSet(f, T \cup {x}) = f[x] + SumFunctionOnSet(f, T) BY <2>1, SumAdds
  <2>3. f[x] \in Nat /\ SumFunctionOnSet(f, T) \in Nat OBVIOUS
  <2>4. SumFunctionOnSet(f, T \cup {x}) \in Nat BY <2>2, <2>3
  <2> QED BY <2>4
<1> HIDE DEF Good
<1>3. S \in Good BY <1>1, <1>2, OneByOne DEF Good
<1> QED BY <1>3 DEF Good

(* The lines of a set of events, account by account. *)
LinesType == [Accounts -> Int]
Cells(S, L) == [a \in Accounts |-> SumFunctionOnSet([x \in S |-> L[x][a]], S)]

(* What the lines come to over all accounts. *)
Net(l) == l["receivable"] + l["cash"] + l["suspense"] + l["excise"] + l["interest"] + l["fees"]
          + l["penalties"]

LEMMA NetAdds ==
  ASSUME NEW f \in LinesType, NEW g \in LinesType
  PROVE  Plus(f, g) \in LinesType /\ Net(Plus(f, g)) = Net(f) + Net(g)
<1>1. \A a \in Accounts : f[a] \in Int /\ g[a] \in Int /\ Plus(f, g)[a] = f[a] + g[a]
  BY DEF LinesType, Plus
<1>2. Plus(f, g) \in LinesType BY <1>1 DEF LinesType, Plus
<1> QED BY <1>1, <1>2 DEF Net, Accounts

LEMMA CellsType ==
  ASSUME NEW S, IsFiniteSet(S), NEW L, \A x \in S : L[x] \in LinesType
  PROVE  Cells(S, L) \in LinesType
<1>1. ASSUME NEW a \in Accounts
      PROVE  SumFunctionOnSet([x \in S |-> L[x][a]], S) \in Int
  <2>1. \A x \in S : [y \in S |-> L[y][a]][x] \in Int BY <1>1 DEF LinesType
  <2> QED BY <2>1, SumTakes
<1> QED BY <1>1 DEF Cells, LinesType

(* Lines that come to nothing, one by one, come to nothing together. *)
LEMMA CellsBalance ==
  ASSUME NEW S, IsFiniteSet(S), NEW L, \A x \in S : L[x] \in LinesType /\ Net(L[x]) = 0
  PROVE  Net(Cells(S, L)) = 0
<1> DEFINE f(a) == [x \in S |-> L[x][a]]
           sum(a, T) == SumFunctionOnSet(f(a), T)
           sums(T) == [a \in Accounts |-> sum(a, T)]
           Good == {T \in SUBSET S : Net(sums(T)) = 0}
<1>1. \A a \in Accounts : \A x \in S : f(a)[x] = L[x][a] /\ f(a)[x] \in Int BY DEF LinesType
<1> HIDE DEF f
<1>2. ASSUME NEW T \in SUBSET S, NEW a \in Accounts
      PROVE  /\ sum(a, T) \in Int
             /\ \A x \in S \ T : sum(a, T \cup {x}) = L[x][a] + sum(a, T)
  <2>1. IsFiniteSet(T) BY FS_Subset
  <2>2. \A x \in T : f(a)[x] \in Int BY <1>1
  <2>3. sum(a, T) \in Int BY <2>1, <2>2, SumTakes
  <2>4. ASSUME NEW x \in S \ T PROVE sum(a, T \cup {x}) = L[x][a] + sum(a, T)
    <3>1. f(a)[x] \in Int /\ f(a)[x] = L[x][a] BY <1>1
    <3>2. sum(a, T \cup {x}) = f(a)[x] + sum(a, T) BY <2>1, <2>2, <3>1, SumAdds
    <3> QED BY <3>1, <3>2
  <2> QED BY <2>3, <2>4
<1>3. \A a \in Accounts : sum(a, {}) = 0 BY SumNone
<1> HIDE DEF sum
<1>4. {} \in Good
  <2>1. \A a \in Accounts : sums({})[a] = 0 BY <1>3
  <2>2. Net(sums({})) = 0 BY <2>1 DEF Net, Accounts
  <2> QED BY <2>2
<1>5. \A T \in Good : \A x \in S \ T : T \cup {x} \in Good
  <2> TAKE T \in Good
  <2> TAKE x \in S \ T
  <2>1. \A a \in Accounts : sum(a, T) \in Int /\ sum(a, T \cup {x}) = L[x][a] + sum(a, T)
    BY <1>2
  <2>2. L[x] \in LinesType /\ sums(T) \in LinesType BY <2>1 DEF LinesType
  <2>3. sums(T \cup {x}) = Plus(L[x], sums(T)) BY <2>1 DEF Plus
  <2>4. Net(L[x]) = 0 /\ Net(sums(T)) = 0 OBVIOUS
  <2>5. Net(sums(T \cup {x})) = 0 BY <2>2, <2>3, <2>4, NetAdds
  <2> QED BY <2>5
<1>6. S \in Good
  <2>1. Good \in SUBSET SUBSET S OBVIOUS
  <2> HIDE DEF Good
  <2> QED BY <1>4, <1>5, <2>1, OneByOne
<1>7. \A a \in Accounts : Cells(S, L)[a] = sum(a, S) BY DEF Cells, sum, f
<1>8. Cells(S, L) = sums(S) BY <1>7 DEF Cells
<1> QED BY <1>6, <1>8 DEF Good

(* Two sets of events that have none in common. *)
LEMMA CellsJoined ==
  ASSUME NEW S, NEW U, IsFiniteSet(S), IsFiniteSet(U), S \cap U = {},
         NEW K, NEW M, NEW L,
         \A x \in S : L[x] \in LinesType /\ K[x] = L[x],
         \A x \in U : L[x] \in LinesType /\ M[x] = L[x]
  PROVE  Plus(Cells(S, K), Cells(U, M)) = Cells(S \cup U, L)
<1>1. ASSUME NEW a \in Accounts
      PROVE  Cells(S, K)[a] + Cells(U, M)[a] = Cells(S \cup U, L)[a]
  <2> DEFINE f == [x \in S \cup U |-> L[x][a]]
             g == [x \in S |-> K[x][a]]
             h == [x \in U |-> M[x][a]]
  <2>1. \A x \in S \cup U : f[x] \in Int BY <1>1 DEF LinesType
  <2>2. \A x \in S : g[x] \in Int /\ g[x] = f[x] BY <1>1 DEF LinesType
  <2>3. \A x \in U : h[x] \in Int /\ h[x] = f[x] BY <1>1 DEF LinesType
  <2>4. /\ Cells(S, K)[a] = SumFunctionOnSet(g, S) /\ Cells(U, M)[a] = SumFunctionOnSet(h, U)
        /\ Cells(S \cup U, L)[a] = SumFunctionOnSet(f, S \cup U)
    BY <1>1 DEF Cells
  <2> HIDE DEF f, g, h
  <2>5. SumFunctionOnSet(f, S \cup U) = SumFunctionOnSet(f, S) + SumFunctionOnSet(f, U)
    BY <2>1, SumJoined
  <2>6. SumFunctionOnSet(g, S) = SumFunctionOnSet(f, S) BY <2>2, SumSame
  <2>7. SumFunctionOnSet(h, U) = SumFunctionOnSet(f, U) BY <2>3, SumSame
  <2> QED BY <2>4, <2>5, <2>6, <2>7
<1>2. Cells(S \cup U, L) = [a \in Accounts |-> Cells(S \cup U, L)[a]] BY DEF Cells
<1> QED BY <1>1, <1>2 DEF Plus

(* The balance of a ledger is over the accounts there are. *)
LEMMA BalanceIsNet ==
  ASSUME NEW l \in LinesType
  PROVE  Balance(l) = Net(l)
<1> DEFINE s1 == {"penalties"}
           s2 == s1 \cup {"fees"}
           s3 == s2 \cup {"interest"}
           s4 == s3 \cup {"excise"}
           s5 == s4 \cup {"suspense"}
           s6 == s5 \cup {"cash"}
           s7 == s6 \cup {"receivable"}
<1>1. s7 = Accounts BY DEF Accounts
<1>2. \A a \in s7 : l[a] \in Int BY <1>1 DEF LinesType
<1>3. ASSUME NEW S \in SUBSET s7, IsFiniteSet(S), NEW x \in s7 \ S
      PROVE  /\ S \cup {x} \in SUBSET s7 /\ IsFiniteSet(S \cup {x})
             /\ SumFunctionOnSet(l, S \cup {x}) = l[x] + SumFunctionOnSet(l, S)
  <2> HIDE DEF s7
  <2>1. IsFiniteSet(S \cup {x}) BY <1>3, FS_AddElement
  <2>2. \A y \in S \cup {x} : l[y] \in Int BY <1>2, <1>3
  <2>3. SumFunctionOnSet(l, S \cup {x}) = l[x] + SumFunctionOnSet(l, S) BY <1>3, <2>2, SumAdds
  <2> QED BY <1>3, <2>1, <2>3
<1>4. IsFiniteSet(s1) /\ s1 \in SUBSET s7 /\ SumFunctionOnSet(l, s1) = l["penalties"]
  BY <1>2, SumOne, FS_Singleton
<1>5. /\ s2 \in SUBSET s7 /\ IsFiniteSet(s2)
      /\ SumFunctionOnSet(l, s2) = l["fees"] + SumFunctionOnSet(l, s1)
  <2>1. "fees" \in s7 \ s1 OBVIOUS
  <2> HIDE DEF s1, s7
  <2> QED BY <1>3, <1>4, <2>1
<1>6. /\ s3 \in SUBSET s7 /\ IsFiniteSet(s3)
      /\ SumFunctionOnSet(l, s3) = l["interest"] + SumFunctionOnSet(l, s2)
  <2>1. "interest" \in s7 \ s2 OBVIOUS
  <2> HIDE DEF s2, s7
  <2> QED BY <1>3, <1>5, <2>1
<1>7. /\ s4 \in SUBSET s7 /\ IsFiniteSet(s4)
      /\ SumFunctionOnSet(l, s4) = l["excise"] + SumFunctionOnSet(l, s3)
  <2>1. "excise" \in s7 \ s3 OBVIOUS
  <2> HIDE DEF s3, s7
  <2> QED BY <1>3, <1>6, <2>1
<1>8. /\ s5 \in SUBSET s7 /\ IsFiniteSet(s5)
      /\ SumFunctionOnSet(l, s5) = l["suspense"] + SumFunctionOnSet(l, s4)
  <2>1. "suspense" \in s7 \ s4 OBVIOUS
  <2> HIDE DEF s4, s7
  <2> QED BY <1>3, <1>7, <2>1
<1>9. /\ s6 \in SUBSET s7 /\ IsFiniteSet(s6)
      /\ SumFunctionOnSet(l, s6) = l["cash"] + SumFunctionOnSet(l, s5)
  <2>1. "cash" \in s7 \ s5 OBVIOUS
  <2> HIDE DEF s5, s7
  <2> QED BY <1>3, <1>8, <2>1
<1>10. /\ s7 \in SUBSET s7 /\ IsFiniteSet(s7)
      /\ SumFunctionOnSet(l, s7) = l["receivable"] + SumFunctionOnSet(l, s6)
  <2>1. "receivable" \in s7 \ s6 /\ s7 = s6 \cup {"receivable"} OBVIOUS
  <2> HIDE DEF s6, s7
  <2> QED BY <1>3, <1>9, <2>1
<1>11. \A a \in {"receivable", "cash", "suspense", "excise", "interest", "fees", "penalties"} :
         l[a] \in Int
  BY <1>1, <1>2 DEF Accounts
<1> HIDE DEF s1, s2, s3, s4, s5, s6, s7
<1> QED BY <1>1, <1>4, <1>5, <1>6, <1>7, <1>8, <1>9, <1>10, <1>11 DEF Balance, Net
---------------------------------------------------------------------------
(***************************************************************************)
(* An export balances, and the exports of two windows that meet say what one *)
(* of both says, because the lines of an event do not depend on the window *)
(* (FeesBeforeIs).  Of the state this needs no more than types (BooksTyped). *)
(***************************************************************************)
RowType == [ref : Refs, parts : [Parts -> Nat], day : Nat]

(* What the books are computed from has types. *)
BooksTyped ==
  /\ Typed /\ IsFiniteSet(entries)
  /\ rows \in Seq(RowType) /\ \A i \in 1..Len(rows) : rows[i].day <= today
  /\ quote.inBalance <= quote.fees + quote.excise

PL       == [p \in {payout} |-> PayoutLines]
RL(from) == [i \in 1..Len(rows) |-> RepaymentLines(i, from)]
ML       == [e \in entries |-> ReceiptLines(e)]
DL       == [e \in entries |-> ResolutionLines(e)]

LEMMA LedgerIs ==
  ASSUME NEW from, NEW to
  PROVE  Ledger(from, to) =
           Plus(Cells(PayoutsIn(from, to), PL),
           Plus(Cells(RowsIn(from, to), RL(from)),
           Plus(Cells(MadeIn(from, to), ML), Cells(ResolvedIn(from, to), DL))))
<1>1. ASSUME NEW a PROVE [p \in PayoutsIn(from, to) |-> PayoutLines[a]] = [p \in PayoutsIn(from, to) |-> PL[p][a]]
  BY DEF PayoutsIn, PL
<1>2. ASSUME NEW a PROVE [i \in RowsIn(from, to) |-> RepaymentLines(i, from)[a]] = [i \in RowsIn(from, to) |-> RL(from)[i][a]]
  BY DEF RowsIn, RL
<1>3. ASSUME NEW a PROVE [e \in MadeIn(from, to) |-> ReceiptLines(e)[a]] = [e \in MadeIn(from, to) |-> ML[e][a]]
  BY DEF MadeIn, ML
<1>4. ASSUME NEW a PROVE [e \in ResolvedIn(from, to) |-> ResolutionLines(e)[a]] = [e \in ResolvedIn(from, to) |-> DL[e][a]]
  BY DEF ResolvedIn, DL
<1>5. /\ Total(PayoutsIn(from, to), LAMBDA p : PayoutLines) = Cells(PayoutsIn(from, to), PL)
      /\ Total(RowsIn(from, to), LAMBDA i : RepaymentLines(i, from)) = Cells(RowsIn(from, to), RL(from))
      /\ Total(MadeIn(from, to), ReceiptLines) = Cells(MadeIn(from, to), ML)
      /\ Total(ResolvedIn(from, to), ResolutionLines) = Cells(ResolvedIn(from, to), DL)
  BY <1>1, <1>2, <1>3, <1>4, Zenon DEF Total, Cells
<1> QED BY <1>5, Zenon DEF Ledger

(* Each kind of line is one, and comes to nothing. *)
LEMMA LinesIs ==
  ASSUME NEW amounts, DOMAIN amounts \subseteq Accounts, \A a \in DOMAIN amounts : amounts[a] \in Int
  PROVE  /\ Lines(amounts) \in LinesType
         /\ \A a \in Accounts : Lines(amounts)[a] = IF a \in DOMAIN amounts THEN amounts[a] ELSE 0
BY DEF Lines, LinesType

LEMMA PayoutLinesBalance ==
  ASSUME quote \in QuoteType
  PROVE  /\ PayoutLines \in LinesType /\ Net(PayoutLines) = 0
         /\ PayoutLines["cash"] = -quote.payout
<1> DEFINE d == PayoutExcise
           am == [receivable |-> quote.principal, cash |-> -quote.payout, excise |-> -d,
                  fees |-> quote.payout + d - quote.principal]
<1>1. d \in Nat /\ quote.principal \in Nat /\ quote.payout \in Nat BY DEF QuoteType, PayoutExcise
<1>2. PayoutLines = Lines(am) BY DEF PayoutLines
<1> HIDE DEF d
<1>3. /\ DOMAIN am = {"receivable", "cash", "excise", "fees"}
      /\ am["receivable"] = quote.principal /\ am["cash"] = -quote.payout /\ am["excise"] = -d
      /\ am["fees"] = quote.payout + d - quote.principal
  OBVIOUS
<1> HIDE DEF am
<1>4. DOMAIN am \subseteq Accounts BY <1>3 DEF Accounts
<1>5. \A a \in DOMAIN am : am[a] \in Int BY <1>1, <1>3
<1>6. /\ PayoutLines \in LinesType
      /\ \A a \in Accounts : PayoutLines[a] = IF a \in DOMAIN am THEN am[a] ELSE 0
  BY <1>2, <1>4, <1>5, LinesIs
<1> QED BY <1>1, <1>3, <1>6 DEF Net, Accounts

LEMMA ReceiptLinesBalance ==
  ASSUME NEW e \in EntryType
  PROVE  /\ ReceiptLines(e) \in LinesType /\ Net(ReceiptLines(e)) = 0
         /\ ReceiptLines(e)["cash"] = e.amount
<1> DEFINE am == [cash |-> e.amount, suspense |-> -e.amount]
<1>1. e.amount \in Nat BY DEF EntryType
<1>2. ReceiptLines(e) = Lines(am) BY DEF ReceiptLines
<1>3. DOMAIN am = {"cash", "suspense"} /\ am["cash"] = e.amount /\ am["suspense"] = -e.amount
  OBVIOUS
<1> HIDE DEF am
<1>4. DOMAIN am \subseteq Accounts BY <1>3 DEF Accounts
<1>5. \A a \in DOMAIN am : am[a] \in Int BY <1>1, <1>3
<1>6. /\ ReceiptLines(e) \in LinesType
      /\ \A a \in Accounts : ReceiptLines(e)[a] = IF a \in DOMAIN am THEN am[a] ELSE 0
  BY <1>2, <1>4, <1>5, LinesIs
<1>7. /\ ReceiptLines(e)["cash"] = e.amount /\ ReceiptLines(e)["suspense"] = -e.amount
      /\ \A a \in Accounts \ {"cash", "suspense"} : ReceiptLines(e)[a] = 0
  BY <1>3, <1>6 DEF Accounts
<1> QED BY <1>1, <1>6, <1>7 DEF Net, Accounts

LEMMA ResolutionLinesBalance ==
  ASSUME NEW e \in EntryType
  PROVE  /\ ResolutionLines(e) \in LinesType /\ Net(ResolutionLines(e)) = 0
         /\ ResolutionLines(e)["cash"] = -Sent(e) /\ Sent(e) \in Int
<1> DEFINE s == Sent(e)
           am == [suspense |-> e.amount, cash |-> -s, fees |-> s - e.amount]
<1>1. e.amount \in Nat BY DEF EntryType
<1>2. s \in Int BY <1>1 DEF Sent, RoundUp, Shilling
<1>3. ResolutionLines(e) = Lines(am) BY DEF ResolutionLines
<1> HIDE DEF s
<1>4. /\ DOMAIN am = {"suspense", "cash", "fees"} /\ am["suspense"] = e.amount
      /\ am["cash"] = -s /\ am["fees"] = s - e.amount
  OBVIOUS
<1> HIDE DEF am
<1>5. DOMAIN am \subseteq Accounts BY <1>4 DEF Accounts
<1>6. \A a \in DOMAIN am : am[a] \in Int BY <1>1, <1>2, <1>4
<1>7. /\ ResolutionLines(e) \in LinesType
      /\ \A a \in Accounts : ResolutionLines(e)[a] = IF a \in DOMAIN am THEN am[a] ELSE 0
  BY <1>3, <1>5, <1>6, LinesIs
<1> QED BY <1>1, <1>2, <1>4, <1>7 DEF Net, Accounts, s

(* What was paid of the fees before a row does not depend on the window it *)
(* is in.                                                                  *)
LEMMA FeesBeforeIs ==
  ASSUME BooksTyped, NEW i \in 1..Len(rows), NEW from \in Nat, from <= rows[i].day
  PROVE  /\ FeesBefore(i, from) = FeesOf(Before(i))
         /\ FeesBefore(i, from) \in Nat
<1>1. \A j \in 1..Len(rows) : rows[j] \in RowType /\ rows[j].day \in Nat
  <2>1. \A j \in 1..Len(rows) : rows[j] \in RowType BY DEF BooksTyped
  <2> QED BY <2>1 DEF RowType
<1>2. Before(i) \subseteq 1..Len(rows) BY DEF Before
<1>3. {j \in 1..Len(rows) : rows[j].day < from} \cup {j \in Before(i) : rows[j].day >= from} = Before(i)
  <2>1. \A j \in 1..Len(rows) : rows[j].day < from => j \in Before(i) BY <1>1 DEF Before
  <2>2. \A j \in 1..Len(rows) : rows[j].day < from \/ rows[j].day >= from BY <1>1
  <2> QED BY <1>2, <2>1, <2>2
<1>4. FeesBefore(i, from) = FeesOf(Before(i)) BY <1>3 DEF FeesBefore
<1>5. FeesOf(Before(i)) \in Nat
  <2> DEFINE fees == [j \in Before(i) |-> rows[j].parts["fees"]]
  <2>1. \A j \in Before(i) : fees[j] \in Nat BY <1>1, <1>2 DEF RowType, Parts
  <2>2. IsFiniteSet(Before(i))
    <3>1. Len(rows) \in Nat BY DEF BooksTyped
    <3>2. IsFiniteSet(1..Len(rows)) BY <3>1, FS_Interval
    <3> QED BY <1>2, <3>2, FS_Subset
  <2> HIDE DEF fees
  <2>3. SumFunctionOnSet(fees, Before(i)) \in Nat BY <2>1, <2>2, SumNat
  <2> QED BY <2>3 DEF FeesOf, fees
<1> QED BY <1>4, <1>5

LEMMA RepaymentLinesBalance ==
  ASSUME BooksTyped, NEW i \in 1..Len(rows), NEW from \in Nat, from <= rows[i].day
  PROVE  /\ RepaymentLines(i, from) \in LinesType /\ Net(RepaymentLines(i, from)) = 0
         /\ RepaymentLines(i, from)["cash"] = SumOf(rows[i].parts)
         /\ RepaymentLines(i, from) = RepaymentLines(i, 0)
<1> DEFINE parts == rows[i].parts
           b == FeesBefore(i, from)
           f == Least(parts["fees"], AtLeast(quote.inBalance - b, 0))
           duty == IF f = 0 THEN 0 ELSE RoundDiv(f * quote.excise, quote.fees + quote.excise)
           am == [cash |-> SumOf(parts), receivable |-> -parts["principal"],
                  interest |-> -parts["interest"], fees |-> duty - f, excise |-> -duty,
                  penalties |-> f - parts["fees"]]
<1>1. RepaymentLines(i, from) = Lines(am) BY DEF RepaymentLines
<1>2. rows[i] \in RowType BY DEF BooksTyped
<1>3. parts["fees"] \in Nat /\ parts["principal"] \in Nat /\ parts["interest"] \in Nat
  BY <1>2 DEF RowType, Parts
<1>4. b \in Nat BY FeesBeforeIs
<1>5. RepaymentLines(i, from) = RepaymentLines(i, 0)
  <2>1. rows[i].day \in Nat BY <1>2 DEF RowType
  <2>2. FeesBefore(i, 0) = b BY <2>1, FeesBeforeIs
  <2> QED BY <2>2 DEF RepaymentLines
<1>6. /\ quote.inBalance \in Nat /\ quote.fees \in Nat /\ quote.excise \in Nat
      /\ quote.inBalance <= quote.fees + quote.excise
  BY DEF BooksTyped, Typed, QuoteType
<1> HIDE DEF b, parts
<1>7. f \in Nat /\ (f # 0 => quote.inBalance > 0)
  BY <1>3, <1>4, <1>6 DEF Least, AtLeast
<1> HIDE DEF f
<1>8. duty \in Nat
  <2>1. CASE f = 0 BY <2>1
  <2>2. CASE f # 0
    <3>1. f * quote.excise \in Nat /\ quote.fees + quote.excise \in Nat \ {0} BY <1>6, <1>7, <2>2
    <3> QED BY <2>2, <3>1, RoundDivNat
  <2> QED BY <2>1, <2>2
<1> HIDE DEF duty
<1>9. SumOf(parts) = parts["principal"] + parts["fees"] + parts["interest"] BY DEF SumOf
<1>10. /\ DOMAIN am = {"cash", "receivable", "interest", "fees", "excise", "penalties"}
       /\ am["cash"] = SumOf(parts) /\ am["receivable"] = -parts["principal"]
       /\ am["interest"] = -parts["interest"] /\ am["fees"] = duty - f
       /\ am["excise"] = -duty /\ am["penalties"] = f - parts["fees"]
  OBVIOUS
<1> HIDE DEF am
<1>11. DOMAIN am \subseteq Accounts BY <1>10 DEF Accounts
<1>12. \A a \in DOMAIN am : am[a] \in Int
  <2>1. SumOf(parts) \in Int /\ -parts["principal"] \in Int /\ -parts["interest"] \in Int
    BY <1>3, <1>9
  <2>2. duty \in Nat /\ f \in Nat /\ parts["fees"] \in Nat BY <1>3, <1>7, <1>8
  <2>3. duty - f \in Int /\ -duty \in Int /\ f - parts["fees"] \in Int BY <2>2
  <2> QED BY <1>10, <2>1, <2>3
<1>13. /\ RepaymentLines(i, from) \in LinesType
       /\ \A a \in Accounts : RepaymentLines(i, from)[a] = IF a \in DOMAIN am THEN am[a] ELSE 0
  BY <1>1, <1>11, <1>12, LinesIs
<1> DEFINE l == RepaymentLines(i, from)
<1>14. /\ l["cash"] = SumOf(parts) /\ l["receivable"] = -parts["principal"]
       /\ l["interest"] = -parts["interest"] /\ l["fees"] = duty - f
       /\ l["excise"] = -duty /\ l["penalties"] = f - parts["fees"] /\ l["suspense"] = 0
  BY <1>10, <1>13 DEF Accounts
<1>15. Net(l) = 0
  <2> HIDE DEF l
  <2> DEFINE pp == parts["principal"]
             pi == parts["interest"]
             pf == parts["fees"]
  <2>1. pp \in Nat /\ pi \in Nat /\ pf \in Nat BY <1>3
  <2>2. /\ l["cash"] = pp + pf + pi /\ l["receivable"] = -pp /\ l["interest"] = -pi
        /\ l["fees"] = duty - f /\ l["excise"] = -duty /\ l["penalties"] = f - pf
        /\ l["suspense"] = 0
    BY <1>9, <1>14
  <2> HIDE DEF pp, pi, pf
  <2>3. f \in Nat /\ duty \in Nat BY <1>7, <1>8
  <2> QED BY ONLY <2>1, <2>2, <2>3 DEF Net
<1> QED BY <1>5, <1>13, <1>14, <1>15 DEF parts

(* The parts of a window are finite sets of events that have their lines. *)
LEMMA WindowFacts ==
  ASSUME BooksTyped, NEW from \in Nat, NEW to \in Int
  PROVE  /\ IsFiniteSet(PayoutsIn(from, to)) /\ PayoutsIn(from, to) \subseteq {payout}
         /\ IsFiniteSet(RowsIn(from, to)) /\ RowsIn(from, to) \subseteq 1..Len(rows)
         /\ IsFiniteSet(MadeIn(from, to)) /\ MadeIn(from, to) \subseteq entries
         /\ IsFiniteSet(ResolvedIn(from, to)) /\ ResolvedIn(from, to) \subseteq entries
         /\ PL[payout] = PayoutLines /\ PL[payout] \in LinesType /\ Net(PL[payout]) = 0
         /\ \A i \in RowsIn(from, to) :
              /\ RL(from)[i] \in LinesType /\ Net(RL(from)[i]) = 0 /\ RL(from)[i] = RL(0)[i]
              /\ RL(from)[i]["cash"] = SumOf(rows[i].parts)
         /\ \A e \in entries :
              /\ ML[e] \in LinesType /\ Net(ML[e]) = 0 /\ ML[e]["cash"] = e.amount
              /\ DL[e] \in LinesType /\ Net(DL[e]) = 0 /\ DL[e]["cash"] = -Sent(e)
<1>1. Len(rows) \in Nat /\ IsFiniteSet(entries) /\ entries \subseteq EntryType /\ quote \in QuoteType
  BY DEF BooksTyped, Typed
<1>2. PayoutsIn(from, to) \subseteq {payout} BY DEF PayoutsIn
<1>3. RowsIn(from, to) \subseteq 1..Len(rows) BY DEF RowsIn
<1>4. MadeIn(from, to) \subseteq entries /\ ResolvedIn(from, to) \subseteq entries
  BY DEF MadeIn, ResolvedIn
<1>5. IsFiniteSet(1..Len(rows)) /\ IsFiniteSet({payout})
  <2>1. IsFiniteSet(1..Len(rows)) BY <1>1, FS_Interval
  <2>2. IsFiniteSet({payout}) BY FS_Singleton
  <2> QED BY <2>1, <2>2
<1>6. /\ IsFiniteSet(PayoutsIn(from, to)) /\ IsFiniteSet(RowsIn(from, to))
      /\ IsFiniteSet(MadeIn(from, to)) /\ IsFiniteSet(ResolvedIn(from, to))
  BY <1>1, <1>2, <1>3, <1>4, <1>5, FS_Subset
<1>7. PL[payout] = PayoutLines BY DEF PL
<1>8. PayoutLines \in LinesType /\ Net(PayoutLines) = 0 BY <1>1, PayoutLinesBalance
<1>9. ASSUME NEW i \in RowsIn(from, to)
      PROVE  /\ RL(from)[i] \in LinesType /\ Net(RL(from)[i]) = 0 /\ RL(from)[i] = RL(0)[i]
             /\ RL(from)[i]["cash"] = SumOf(rows[i].parts)
  <2>1. i \in 1..Len(rows) BY <1>3
  <2>2. rows[i] \in RowType BY <2>1 DEF BooksTyped
  <2>3. from <= rows[i].day BY <2>2 DEF RowsIn, RowType
  <2>4. RL(from)[i] = RepaymentLines(i, from) /\ RL(0)[i] = RepaymentLines(i, 0) BY <2>1 DEF RL
  <2> QED BY <2>1, <2>3, <2>4, RepaymentLinesBalance
<1>10. ASSUME NEW e \in entries
       PROVE  /\ ML[e] \in LinesType /\ Net(ML[e]) = 0 /\ ML[e]["cash"] = e.amount
              /\ DL[e] \in LinesType /\ Net(DL[e]) = 0 /\ DL[e]["cash"] = -Sent(e)
  <2>1. ML[e] = ReceiptLines(e) /\ DL[e] = ResolutionLines(e) BY DEF ML, DL
  <2>2. e \in EntryType BY <1>1
  <2> QED BY <2>1, <2>2, ReceiptLinesBalance, ResolutionLinesBalance
<1> QED BY <1>2, <1>3, <1>4, <1>6, <1>7, <1>8, <1>9, <1>10

(* A window's journal balances. *)
LEMMA LedgerBalances ==
  ASSUME BooksTyped, NEW from \in Nat, NEW to \in Int
  PROVE  Ledger(from, to) \in LinesType /\ Balance(Ledger(from, to)) = 0
<1> DEFINE p == Cells(PayoutsIn(from, to), PL)
           r == Cells(RowsIn(from, to), RL(from))
           m == Cells(MadeIn(from, to), ML)
           d == Cells(ResolvedIn(from, to), DL)
<1>1. p \in LinesType /\ Net(p) = 0
  <2>1. \A x \in PayoutsIn(from, to) : PL[x] \in LinesType /\ Net(PL[x]) = 0 BY WindowFacts
  <2> QED BY <2>1, WindowFacts, CellsType, CellsBalance
<1>2. r \in LinesType /\ Net(r) = 0
  <2>1. \A x \in RowsIn(from, to) : RL(from)[x] \in LinesType /\ Net(RL(from)[x]) = 0 BY WindowFacts
  <2> QED BY <2>1, WindowFacts, CellsType, CellsBalance
<1>3. m \in LinesType /\ Net(m) = 0
  <2>1. \A x \in MadeIn(from, to) : ML[x] \in LinesType /\ Net(ML[x]) = 0 BY WindowFacts
  <2> QED BY <2>1, WindowFacts, CellsType, CellsBalance
<1>4. d \in LinesType /\ Net(d) = 0
  <2>1. \A x \in ResolvedIn(from, to) : DL[x] \in LinesType /\ Net(DL[x]) = 0 BY WindowFacts
  <2> QED BY <2>1, WindowFacts, CellsType, CellsBalance
<1>5. Ledger(from, to) = Plus(p, Plus(r, Plus(m, d))) BY LedgerIs
<1> HIDE DEF p, r, m, d
<1>6. Plus(m, d) \in LinesType /\ Net(Plus(m, d)) = 0 BY <1>3, <1>4, NetAdds
<1>7. Plus(r, Plus(m, d)) \in LinesType /\ Net(Plus(r, Plus(m, d))) = 0 BY <1>2, <1>6, NetAdds
<1>8. Ledger(from, to) \in LinesType /\ Net(Ledger(from, to)) = 0 BY <1>1, <1>5, <1>7, NetAdds
<1> QED BY <1>8, BalanceIsNet

LEMMA PlusSwaps ==
  ASSUME NEW f \in LinesType, NEW g \in LinesType, NEW h \in LinesType, NEW k \in LinesType
  PROVE  Plus(Plus(f, g), Plus(h, k)) = Plus(Plus(f, h), Plus(g, k))
<1> DEFINE l == Plus(Plus(f, g), Plus(h, k))
           r == Plus(Plus(f, h), Plus(g, k))
<1>1. \A a \in Accounts : f[a] \in Int /\ g[a] \in Int /\ h[a] \in Int /\ k[a] \in Int
  BY DEF LinesType
<1>2. \A a \in Accounts : /\ l[a] = (f[a] + g[a]) + (h[a] + k[a])
                          /\ r[a] = (f[a] + h[a]) + (g[a] + k[a])
  BY DEF Plus
<1>3. \A a \in Accounts : l[a] = r[a] BY <1>1, <1>2
<1>4. l = [a \in Accounts |-> l[a]] /\ r = [a \in Accounts |-> r[a]] BY DEF Plus
<1> HIDE DEF l, r
<1>5. l = r BY <1>3, <1>4
<1> QED BY <1>5 DEF l, r

(* Two windows that meet. *)
LEMMA WindowsMeet ==
  ASSUME BooksTyped, NEW d \in 0..today - 1
  PROVE  Plus(Ledger(0, d), Ledger(d + 1, today)) = Ledger(0, today)
<1>1. today \in Nat /\ d \in Nat /\ d + 1 \in Nat /\ d + 1 <= today
  <2>1. today \in Nat BY DayType DEF BooksTyped
  <2> QED BY <2>1
<1>2. \A x : /\ x \in 0..today <=> x \in 0..d \/ x \in d + 1..today
             /\ ~(x \in 0..d /\ x \in d + 1..today)
  BY <1>1
<1>3. /\ PayoutsIn(0, d) \cup PayoutsIn(d + 1, today) = PayoutsIn(0, today)
      /\ PayoutsIn(0, d) \cap PayoutsIn(d + 1, today) = {}
  BY <1>2 DEF PayoutsIn
<1>4. /\ RowsIn(0, d) \cup RowsIn(d + 1, today) = RowsIn(0, today)
      /\ RowsIn(0, d) \cap RowsIn(d + 1, today) = {}
  BY <1>2 DEF RowsIn
<1>5. /\ MadeIn(0, d) \cup MadeIn(d + 1, today) = MadeIn(0, today)
      /\ MadeIn(0, d) \cap MadeIn(d + 1, today) = {}
  BY <1>2 DEF MadeIn
<1>6. /\ ResolvedIn(0, d) \cup ResolvedIn(d + 1, today) = ResolvedIn(0, today)
      /\ ResolvedIn(0, d) \cap ResolvedIn(d + 1, today) = {}
  BY <1>2 DEF ResolvedIn
<1> DEFINE p1 == Cells(PayoutsIn(0, d), PL)
           p2 == Cells(PayoutsIn(d + 1, today), PL)
           r1 == Cells(RowsIn(0, d), RL(0))
           r2 == Cells(RowsIn(d + 1, today), RL(d + 1))
           m1 == Cells(MadeIn(0, d), ML)
           m2 == Cells(MadeIn(d + 1, today), ML)
           d1 == Cells(ResolvedIn(0, d), DL)
           d2 == Cells(ResolvedIn(d + 1, today), DL)
<1>7. \A from \in {0, d + 1}, to \in {d, today} :
        /\ IsFiniteSet(PayoutsIn(from, to)) /\ \A x \in PayoutsIn(from, to) : PL[x] \in LinesType
        /\ IsFiniteSet(RowsIn(from, to))
        /\ \A x \in RowsIn(from, to) : RL(from)[x] \in LinesType /\ RL(from)[x] = RL(0)[x]
        /\ IsFiniteSet(MadeIn(from, to)) /\ \A x \in MadeIn(from, to) : ML[x] \in LinesType
        /\ IsFiniteSet(ResolvedIn(from, to)) /\ \A x \in ResolvedIn(from, to) : DL[x] \in LinesType
  <2> TAKE from \in {0, d + 1}, to \in {d, today}
  <2>1. from \in Nat /\ to \in Int BY <1>1
  <2> QED BY <2>1, WindowFacts
<1>8. Plus(p1, p2) = Cells(PayoutsIn(0, today), PL) BY <1>3, <1>7, CellsJoined
<1>9. Plus(r1, r2) = Cells(RowsIn(0, today), RL(0))
  <2>1. \A x \in RowsIn(0, d) : RL(0)[x] \in LinesType BY <1>7
  <2>2. \A x \in RowsIn(d + 1, today) : RL(0)[x] \in LinesType /\ RL(d + 1)[x] = RL(0)[x] BY <1>7
  <2> QED BY <1>4, <1>7, <2>1, <2>2, CellsJoined
<1>10. Plus(m1, m2) = Cells(MadeIn(0, today), ML) BY <1>5, <1>7, CellsJoined
<1>11. Plus(d1, d2) = Cells(ResolvedIn(0, today), DL) BY <1>6, <1>7, CellsJoined
<1>12. /\ p1 \in LinesType /\ p2 \in LinesType /\ r1 \in LinesType /\ r2 \in LinesType
       /\ m1 \in LinesType /\ m2 \in LinesType /\ d1 \in LinesType /\ d2 \in LinesType
  BY <1>7, CellsType
<1>13. /\ Ledger(0, d) = Plus(p1, Plus(r1, Plus(m1, d1)))
       /\ Ledger(d + 1, today) = Plus(p2, Plus(r2, Plus(m2, d2)))
  <2>1. Ledger(0, d) = Plus(p1, Plus(r1, Plus(m1, d1))) BY LedgerIs
  <2>2. Ledger(d + 1, today) = Plus(p2, Plus(r2, Plus(m2, d2))) BY LedgerIs
  <2> QED BY <2>1, <2>2
<1> HIDE DEF p1, p2, r1, r2, m1, m2, d1, d2
<1>14. Plus(Ledger(0, d), Ledger(d + 1, today))
         = Plus(Plus(p1, p2), Plus(Plus(r1, r2), Plus(Plus(m1, m2), Plus(d1, d2))))
  <2>1. Plus(Plus(p1, Plus(r1, Plus(m1, d1))), Plus(p2, Plus(r2, Plus(m2, d2))))
          = Plus(Plus(p1, p2), Plus(Plus(r1, r2), Plus(Plus(m1, m2), Plus(d1, d2))))
    <3>1. /\ Plus(m1, d1) \in LinesType /\ Plus(m2, d2) \in LinesType
          /\ Plus(r1, Plus(m1, d1)) \in LinesType /\ Plus(r2, Plus(m2, d2)) \in LinesType
      BY <1>12, NetAdds
    <3>2. Plus(Plus(m1, d1), Plus(m2, d2)) = Plus(Plus(m1, m2), Plus(d1, d2))
      BY <1>12, PlusSwaps
    <3>3. Plus(Plus(r1, Plus(m1, d1)), Plus(r2, Plus(m2, d2)))
            = Plus(Plus(r1, r2), Plus(Plus(m1, d1), Plus(m2, d2)))
      BY <1>12, <3>1, PlusSwaps
    <3>4. Plus(Plus(p1, Plus(r1, Plus(m1, d1))), Plus(p2, Plus(r2, Plus(m2, d2))))
            = Plus(Plus(p1, p2), Plus(Plus(r1, Plus(m1, d1)), Plus(r2, Plus(m2, d2))))
      BY <1>12, <3>1, PlusSwaps
    <3> QED BY <3>2, <3>3, <3>4
  <2> QED BY <1>13, <2>1
<1>15. Ledger(0, today) =
         Plus(Cells(PayoutsIn(0, today), PL), Plus(Cells(RowsIn(0, today), RL(0)),
              Plus(Cells(MadeIn(0, today), ML), Cells(ResolvedIn(0, today), DL))))
  BY LedgerIs
<1> QED BY <1>8, <1>9, <1>10, <1>11, <1>14, <1>15

LEMMA TypedAddUp == BooksTyped => BooksAddUp
<1> SUFFICES ASSUME BooksTyped PROVE BooksAddUp OBVIOUS
<1>1. today \in Nat BY DayType DEF BooksTyped
<1>2. Balance(Ledger(0, today)) = 0 BY <1>1, LedgerBalances
<1>3. \A d \in 0..today - 1 : Plus(Ledger(0, d), Ledger(d + 1, today)) = Ledger(0, today)
  BY WindowsMeet
<1> QED BY <1>2, <1>3 DEF BooksAddUp, gl_export
---------------------------------------------------------------------------
(***************************************************************************)
(* The cash account.  Its lines come to the rows and the entries less what *)
(* was sent; that rows and entries come to what was received (Cashed) is   *)
(* inductive with BooksKept.                                               *)
(***************************************************************************)
Arrivals == {r \in Refs : Arrived(r)}
Collected == SumFunctionOnSet([i \in 1..Len(rows) |-> SumOf(rows[i].parts)], 1..Len(rows))

(* The payout, the entries and what is held are dated up to today. *)
Dated ==
  /\ payout \in [day : Int, status : {"none", "processing", "success", "failed"}]
  /\ payout.status \in {"processing", "success"} => payout.day \in 0..today
  /\ loan.status = "processing" => payout.status = "processing"
  /\ \A h \in held : h.day <= today
  /\ \A e \in entries : /\ e.made \in 0..today
                        /\ IF e.status = "open" THEN e.resolved = Never ELSE e.resolved \in 0..today

(* Only a loan that is paid has entries, one of each kind for a reference. *)
EntriesApart ==
  /\ loan.start # Never => loan.status \in Collectible \cup {"paid"}
  /\ entries # {} => loan.status = "paid"
  /\ \A e, f \in entries : e.ref = f.ref /\ e.kind = f.kind => e = f

(* What has arrived was received, and what is held was and will be. *)
ReceiptsTrue ==
  /\ IsFiniteSet(Arrivals) /\ \A r \in Arrivals : received[r] > 0
  /\ \A h \in held : received[h.ref] = h.amount

(* Rows and entries come to what was received, but for interest owed back. *)
Cashed == Collected + SumAmounts(entries \ Owing("INT")) = MoneyIn

BooksKept == Kept /\ BooksTyped /\ Dated /\ EntriesApart /\ ReceiptsTrue /\ Cashed

LEMMA SumOpposite ==
  ASSUME NEW f, NEW g, NEW S, IsFiniteSet(S), \A x \in S : g[x] \in Int /\ f[x] = -g[x]
  PROVE  SumFunctionOnSet(f, S) = -SumFunctionOnSet(g, S)
<1> DEFINE zero == [x \in S |-> 0]
<1>1. \A x \in S : zero[x] \in Int /\ f[x] \in Int /\ zero[x] = f[x] + g[x] OBVIOUS
<1>2. \A x \in S : zero[x] \in Int /\ zero[x] = zero[x] + zero[x] OBVIOUS
<1> HIDE DEF zero
<1>3. SumFunctionOnSet(zero, S) = SumFunctionOnSet(f, S) + SumFunctionOnSet(g, S)
  BY <1>1, SumTogether
<1>4. SumFunctionOnSet(zero, S) = SumFunctionOnSet(zero, S) + SumFunctionOnSet(zero, S)
  BY <1>2, SumTogether
<1>5. SumFunctionOnSet(f, S) \in Int /\ SumFunctionOnSet(g, S) \in Int BY <1>1, SumTakes
<1>6. SumFunctionOnSet(zero, S) \in Int BY <1>1, SumTakes
<1>7. SumFunctionOnSet(zero, S) = 0 BY <1>4, <1>6, TwiceItself
<1> QED BY <1>3, <1>5, <1>7

(* Amounts of entries are summed alike in every set of them. *)
LEMMA AmountsAre ==
  ASSUME NEW T, IsFiniteSet(T), NEW S \in SUBSET T, \A e \in T : e.amount \in Int
  PROVE  SumAmounts(S) = SumFunctionOnSet([e \in T |-> e.amount], S)
<1> DEFINE f == [e \in S |-> e.amount]
           g == [e \in T |-> e.amount]
<1>1. \A e \in S : f[e] \in Int /\ f[e] = g[e] OBVIOUS
<1>2. IsFiniteSet(S) BY FS_Subset
<1> HIDE DEF f, g
<1>3. SumFunctionOnSet(f, S) = SumFunctionOnSet(g, S) BY <1>1, <1>2, SumSame
<1> QED BY <1>3 DEF SumAmounts, f, g

LEMMA AmountsType ==
  ASSUME NEW S, IsFiniteSet(S), \A e \in S : e.amount \in Int
  PROVE  SumAmounts(S) \in Int
<1> DEFINE f == [e \in S |-> e.amount]
<1>1. \A e \in S : f[e] \in Int OBVIOUS
<1> HIDE DEF f
<1> QED BY <1>1, SumTakes DEF SumAmounts, f

LEMMA AmountsSplit ==
  ASSUME NEW S, IsFiniteSet(S), NEW U \in SUBSET S, \A e \in S : e.amount \in Int
  PROVE  SumAmounts(S) = SumAmounts(S \ U) + SumAmounts(U)
<1> DEFINE f == [e \in S |-> e.amount]
<1>1. \A e \in S : f[e] \in Int OBVIOUS
<1>2. /\ SumAmounts(S) = SumFunctionOnSet(f, S) /\ SumAmounts(U) = SumFunctionOnSet(f, U)
      /\ SumAmounts(S \ U) = SumFunctionOnSet(f, S \ U)
  BY AmountsAre
<1> HIDE DEF f
<1>3. IsFiniteSet(U) /\ IsFiniteSet(S \ U) BY FS_Subset
<1>4. (S \ U) \cup U = S /\ (S \ U) \cap U = {} OBVIOUS
<1>5. SumFunctionOnSet(f, (S \ U) \cup U) = SumFunctionOnSet(f, S \ U) + SumFunctionOnSet(f, U)
  BY <1>1, <1>3, <1>4, SumJoined
<1> QED BY <1>2, <1>4, <1>5

LEMMA AmountsOne == ASSUME NEW e, e.amount \in Int PROVE SumAmounts({e}) = e.amount
<1> DEFINE f == [x \in {e} |-> x.amount]
<1>1. f[e] = e.amount /\ f[e] \in Int OBVIOUS
<1> HIDE DEF f
<1>2. SumFunctionOnSet(f, {e}) = e.amount BY <1>1, SumOne
<1> QED BY <1>2 DEF SumAmounts, f

LEMMA AmountsNone == SumAmounts({}) = 0
BY SumNone DEF SumAmounts

(* The cash of the books, term by term. *)
LEMMA CashIs ==
  ASSUME BooksKept
  PROVE  CashIsReal
<1> DEFINE INT == Owing("INT")
           resolved == {e \in entries : e.status # "open"}
           cashOf(S, L) == SumFunctionOnSet([x \in S |-> L[x]["cash"]], S)
<1>1. BooksTyped /\ Dated /\ Cashed /\ today \in Nat BY DayType DEF BooksKept, BooksTyped
<1>2. /\ IsFiniteSet(entries) /\ entries \subseteq EntryType /\ rows \in Seq(RowType)
      /\ Len(rows) \in Nat /\ quote \in QuoteType /\ quote.payout \in Nat
  BY <1>1 DEF BooksTyped, Typed, QuoteType
<1>3. \A e \in entries : e.amount \in Int /\ Sent(e) \in Int
  <2>1. \A e \in entries : e \in EntryType BY <1>2
  <2>2. \A e \in entries : Sent(e) \in Int BY <2>1, ResolutionLinesBalance
  <2>3. \A e \in entries : e.amount \in Int BY <2>1 DEF EntryType
  <2> QED BY <2>2, <2>3
<1>4. \A i \in 1..Len(rows) : rows[i].day \in 0..today /\ SumOf(rows[i].parts) \in Int
  <2>1. \A i \in 1..Len(rows) : rows[i] \in RowType BY <1>2
  <2>2. \A i \in 1..Len(rows) : rows[i].day <= today BY <1>1 DEF BooksTyped
  <2> QED BY <1>1, <2>1, <2>2 DEF RowType, SumOf, Parts
<1>5. RowsIn(0, today) = 1..Len(rows) BY <1>4 DEF RowsIn
<1>6. MadeIn(0, today) = entries BY <1>1 DEF MadeIn, Dated
<1>7. ResolvedIn(0, today) = resolved BY <1>1 DEF ResolvedIn, Dated, Never
<1>8. PayoutsIn(0, today) = IF payout.status = "success" THEN {payout} ELSE {}
  BY <1>1 DEF PayoutsIn, Dated
<1>9. Ledger(0, today)["cash"] =
        cashOf(PayoutsIn(0, today), PL)
          + (cashOf(RowsIn(0, today), RL(0))
               + (cashOf(MadeIn(0, today), ML) + cashOf(ResolvedIn(0, today), DL)))
  <2>1. "cash" \in Accounts BY DEF Accounts
  <2> HIDE DEF cashOf
  <2>2. \A S, L : Cells(S, L)["cash"] = cashOf(S, L) BY <2>1 DEF Cells, cashOf
  <2>3. \A f, g : Plus(f, g)["cash"] = f["cash"] + g["cash"] BY <2>1 DEF Plus
  <2> QED BY <2>2, <2>3, LedgerIs
<1>10. cashOf(PayoutsIn(0, today), PL) = -(IF payout.status = "success" THEN quote.payout ELSE 0)
  <2>1. CASE payout.status = "success"
    <3> DEFINE f == [x \in {payout} |-> PL[x]["cash"]]
    <3>1. f[payout] = -quote.payout
      BY <1>2, PayoutLinesBalance DEF PL
    <3>2. f[payout] \in Int BY <1>2, <3>1
    <3> HIDE DEF f
    <3>3. SumFunctionOnSet(f, {payout}) = -quote.payout BY <3>1, <3>2, SumOne
    <3> QED BY <1>8, <2>1, <3>3 DEF f
  <2>2. CASE payout.status # "success" BY <1>8, <2>2, SumNone
  <2> QED BY <2>1, <2>2
<1>11. cashOf(RowsIn(0, today), RL(0)) = Collected
  <2> DEFINE f == [i \in 1..Len(rows) |-> RL(0)[i]["cash"]]
             g == [i \in 1..Len(rows) |-> SumOf(rows[i].parts)]
  <2>1. \A i \in 1..Len(rows) : RL(0)[i]["cash"] = SumOf(rows[i].parts)
    BY <1>1, <1>5, WindowFacts
  <2>2. \A i \in 1..Len(rows) : f[i] \in Int /\ f[i] = g[i] BY <1>4, <2>1
  <2>3. IsFiniteSet(1..Len(rows)) BY <1>2, FS_Interval
  <2> HIDE DEF f, g
  <2>4. SumFunctionOnSet(f, 1..Len(rows)) = SumFunctionOnSet(g, 1..Len(rows))
    BY <2>2, <2>3, SumSame
  <2> QED BY <1>5, <2>4 DEF f, g, Collected
<1>12. cashOf(MadeIn(0, today), ML) = SumAmounts(entries)
  <2> DEFINE f == [e \in entries |-> ML[e]["cash"]]
             g == [e \in entries |-> e.amount]
  <2>1. \A e \in entries : ML[e]["cash"] = e.amount BY <1>1, WindowFacts
  <2>2. \A e \in entries : f[e] \in Int /\ f[e] = g[e] BY <1>3, <2>1
  <2> HIDE DEF f, g
  <2>3. SumFunctionOnSet(f, entries) = SumFunctionOnSet(g, entries) BY <1>2, <2>2, SumSame
  <2> QED BY <1>6, <2>3 DEF f, g, SumAmounts
<1>13. cashOf(ResolvedIn(0, today), DL) = -SumSent(resolved) /\ SumSent(resolved) \in Int
  <2> DEFINE f == [e \in resolved |-> DL[e]["cash"]]
             g == [e \in resolved |-> Sent(e)]
  <2>1. \A e \in entries : DL[e]["cash"] = -Sent(e) BY <1>1, WindowFacts
  <2>2. \A e \in resolved : g[e] \in Int /\ f[e] = -g[e] BY <1>3, <2>1
  <2>3. IsFiniteSet(resolved) BY <1>2, FS_Subset
  <2>4. cashOf(ResolvedIn(0, today), DL) = SumFunctionOnSet(f, resolved) BY <1>7
  <2>5. SumSent(resolved) = SumFunctionOnSet(g, resolved) BY DEF SumSent
  <2> HIDE DEF f, g, resolved, cashOf
  <2>6. SumFunctionOnSet(f, resolved) = -SumFunctionOnSet(g, resolved) BY <2>2, <2>3, SumOpposite
  <2>7. SumFunctionOnSet(g, resolved) \in Int BY <2>2, <2>3, SumTakes
  <2> QED BY <2>4, <2>5, <2>6, <2>7
<1>14. SumAmounts(entries) = SumAmounts(entries \ INT) + SumAmounts(INT)
  BY <1>2, <1>3, AmountsSplit DEF Owing
<1>15. SumAmounts(entries \ INT) \in Int /\ SumAmounts(INT) \in Int
  <2>1. INT \subseteq entries BY DEF Owing
  <2>2. IsFiniteSet(INT) /\ IsFiniteSet(entries \ INT) BY <1>2, <2>1, FS_Subset
  <2> QED BY <1>3, <2>1, <2>2, AmountsType
<1>16. Collected \in Int
  <2> DEFINE g == [i \in 1..Len(rows) |-> SumOf(rows[i].parts)]
  <2>1. \A i \in 1..Len(rows) : g[i] \in Int BY <1>4
  <2>2. IsFiniteSet(1..Len(rows)) BY <1>2, FS_Interval
  <2> HIDE DEF g
  <2> QED BY <2>1, <2>2, SumTakes DEF Collected, g
<1>17. Collected + SumAmounts(entries \ INT) = MoneyIn BY <1>1 DEF Cashed
<1>18. MoneyOut = (IF payout.status = "success" THEN quote.payout ELSE 0) + SumSent(resolved)
  BY DEF MoneyOut
<1> DEFINE out == IF payout.status = "success" THEN quote.payout ELSE 0
<1>19. out \in Int BY <1>2
<1> HIDE DEF cashOf, INT, resolved, out
<1>20. Ledger(0, today)["cash"] = -out + (Collected + (SumAmounts(entries) + -SumSent(resolved)))
  BY <1>9, <1>10, <1>11, <1>12, <1>13 DEF out
<1>21. MoneyOut = out + SumSent(resolved) BY <1>18 DEF out
<1>22. SumSent(resolved) \in Int BY <1>13
<1>23. Ledger(0, today)["cash"] = MoneyIn - MoneyOut + SumAmounts(INT)
  BY <1>14, <1>15, <1>16, <1>17, <1>19, <1>20, <1>21, <1>22
<1> QED BY <1>23 DEF CashIsReal, INT

LEMMA AmountsAdd ==
  ASSUME NEW S, IsFiniteSet(S), NEW e, e \notin S, \A x \in S \cup {e} : x.amount \in Int
  PROVE  SumAmounts(S \cup {e}) = SumAmounts(S) + e.amount
<1>1. IsFiniteSet(S \cup {e}) BY FS_AddElement
<1>2. (S \cup {e}) \ {e} = S /\ {e} \in SUBSET (S \cup {e}) OBVIOUS
<1>3. SumAmounts(S \cup {e}) = SumAmounts((S \cup {e}) \ {e}) + SumAmounts({e})
  BY <1>1, <1>2, AmountsSplit
<1>4. SumAmounts({e}) = e.amount BY AmountsOne
<1> QED BY <1>2, <1>3, <1>4

(* A row adds what it books. *)
LEMMA RowAdds ==
  ASSUME rows \in Seq(RowType), NEW x \in RowType, rows' = Append(rows, x)
  PROVE  /\ rows' \in Seq(RowType) /\ Len(rows') = Len(rows) + 1 /\ rows'[Len(rows) + 1] = x
         /\ \A i \in 1..Len(rows) : rows'[i] = rows[i]
         /\ Collected' = Collected + SumOf(x.parts)
<1> DEFINE n == Len(rows)
           f == [i \in 1..n + 1 |-> SumOf(rows'[i].parts)]
           g == [i \in 1..n |-> SumOf(rows[i].parts)]
<1>1. /\ rows' \in Seq(RowType) /\ n \in Nat /\ Len(rows') = n + 1 /\ rows'[n + 1] = x
      /\ \A i \in 1..n : rows'[i] = rows[i]
  OBVIOUS
<1>2. Collected' = SumFunctionOnSet(f, 1..n + 1) /\ Collected = SumFunctionOnSet(g, 1..n)
  BY <1>1 DEF Collected
<1>3. \A r \in RowType : SumOf(r.parts) \in Int BY DEF RowType, SumOf, Parts
<1>4. \A i \in 1..n : rows[i] \in RowType OBVIOUS
<1>5. f[n + 1] = SumOf(x.parts) /\ f[n + 1] \in Int BY <1>1, <1>3
<1>6. \A i \in 1..n : g[i] \in Int /\ f[i] = g[i] BY <1>1, <1>3, <1>4
<1>7. 1..n + 1 = (1..n) \cup {n + 1} /\ n + 1 \notin 1..n BY <1>1
<1>8. IsFiniteSet(1..n) BY <1>1, FS_Interval
<1> HIDE DEF f, g, n
<1>9. \A i \in 1..n : f[i] \in Int /\ f[i] = g[i] BY <1>6
<1>10. SumFunctionOnSet(f, (1..n) \cup {n + 1}) = f[n + 1] + SumFunctionOnSet(f, 1..n)
  BY <1>5, <1>7, <1>8, <1>9, SumAdds
<1>11. SumFunctionOnSet(f, 1..n) = SumFunctionOnSet(g, 1..n) BY <1>8, <1>9, SumSame
<1>12. SumFunctionOnSet(g, 1..n) \in Int BY <1>6, <1>8, SumTakes
<1>13. Collected' = SumOf(x.parts) + Collected BY <1>2, <1>5, <1>7, <1>10, <1>11, Zenon
<1>14. SumOf(x.parts) \in Int /\ Collected \in Int BY <1>2, <1>3, <1>12
<1>15. Collected' = Collected + SumOf(x.parts) BY <1>13, <1>14
<1> QED BY <1>1, <1>15 DEF n

(* A receipt adds what was received. *)
LEMMA ReceiptAdds ==
  ASSUME IsFiniteSet(Arrivals), received \in [Refs -> Nat], NEW ref \in Refs, ref \notin Arrivals,
         NEW amount \in Nat, received' = [received EXCEPT ![ref] = amount],
         Arrivals' = Arrivals \cup {ref}
  PROVE  MoneyIn' = MoneyIn + amount
<1> DEFINE g == received'
           S == Arrivals
<1>1. MoneyIn = SumFunctionOnSet(received, S) /\ MoneyIn' = SumFunctionOnSet(g, S \cup {ref})
  BY DEF MoneyIn, Arrivals
<1>2. S \subseteq Refs /\ IsFiniteSet(S) /\ ref \notin S BY DEF Arrivals
<1>3. /\ g[ref] = amount /\ g[ref] \in Int
      /\ \A r \in S : g[r] \in Int /\ g[r] = received[r]
  BY <1>2
<1> HIDE DEF g, S
<1>4. SumFunctionOnSet(g, S \cup {ref}) = g[ref] + SumFunctionOnSet(g, S)
  BY <1>2, <1>3, SumAdds
<1>5. SumFunctionOnSet(g, S) = SumFunctionOnSet(received, S) BY <1>2, <1>3, SumSame
<1>6. SumFunctionOnSet(g, S) \in Int BY <1>2, <1>3, SumTakes
<1> QED BY <1>1, <1>3, <1>4, <1>5, <1>6

(* Steps after which nothing more has arrived. *)
LEMMA NothingArrives ==
  ASSUME BooksKept, Kept', UNCHANGED <<quote, rows, entries>>, today' \in {today, today + 1},
         received' \in [Refs -> Nat], \A r \in Arrivals : received'[r] = received[r],
         \A h \in held' : received'[h.ref] = h.amount /\ h.day <= today',
         payout' \in [day : Int, status : {"none", "processing", "success", "failed"}],
         payout'.status \in {"processing", "success"} => payout'.day \in 0..today',
         loan'.status = "processing" => payout'.status = "processing",
         loan'.start # Never => loan'.status \in Collectible \cup {"paid"},
         entries # {} => loan'.status = "paid"
  PROVE  BooksKept'
<1>1. BooksTyped /\ Dated /\ EntriesApart /\ ReceiptsTrue /\ Cashed BY DEF BooksKept
<1>2. today \in Nat /\ today' \in Nat /\ today <= today' BY <1>1, DayType DEF BooksTyped
<1>3. BooksTyped'
  <2>1. Typed' BY DEF Kept
  <2>2. \A i \in 1..Len(rows) : rows[i] \in RowType /\ rows[i].day <= today BY <1>1 DEF BooksTyped
  <2>3. \A i \in 1..Len(rows) : rows[i].day <= today' BY <1>2, <2>2 DEF RowType
  <2> QED BY <1>1, <2>1, <2>3 DEF BooksTyped
<1>4. Dated'
  <2>1. \A e \in entries : /\ e.made \in 0..today'
                           /\ IF e.status = "open" THEN e.resolved = Never ELSE e.resolved \in 0..today'
    BY <1>1, <1>2 DEF Dated
  <2> QED BY <2>1 DEF Dated
<1>5. EntriesApart' BY <1>1 DEF EntriesApart
<1>6. Arrivals' = Arrivals /\ Arrivals \subseteq Refs BY DEF Arrivals, Arrived
<1>7. ReceiptsTrue' BY <1>1, <1>6 DEF ReceiptsTrue
<1>8. MoneyIn' = MoneyIn
  <2>1. MoneyIn = SumFunctionOnSet(received, Arrivals) /\ MoneyIn' = SumFunctionOnSet(received', Arrivals)
    BY <1>6 DEF MoneyIn, Arrivals
  <2>2. \A r \in Arrivals : received'[r] \in Int /\ received'[r] = received[r] BY <1>6
  <2> QED BY <1>1, <2>1, <2>2, SumSame DEF ReceiptsTrue
<1>9. Cashed' BY <1>1, <1>8 DEF Cashed, Collected, SumAmounts, Owing
<1> QED BY <1>3, <1>4, <1>5, <1>7, <1>9 DEF BooksKept
---------------------------------------------------------------------------
LEMMA ParkedFacts ==
  ASSUME Typed, NEW ref \in Refs, NEW kind \in {"own", "OVR", "INT"}, NEW amount \in Nat
  PROVE  /\ IsFiniteSet(Parked(ref, kind, amount))
         /\ amount = 0 => Parked(ref, kind, amount) = {}
         /\ amount > 0 => Parked(ref, kind, amount) = {Entry(ref, kind, amount)}
         /\ \A e \in Parked(ref, kind, amount) :
              /\ e = Entry(ref, kind, amount)
              /\ e.ref = ref /\ e.kind = kind /\ e.amount = amount /\ e.made = today
              /\ e.status = "open" /\ e.resolved = Never
<1>1. IsFiniteSet({}) /\ IsFiniteSet({Entry(ref, kind, amount)}) BY FS_EmptySet, FS_Singleton
<1> QED BY <1>1 DEF Parked, Entry

(* The rows of a payment, and what they come to. *)
LEMMA RowArrives ==
  ASSUME BooksTyped, NEW ref \in Refs, NEW a \in Nat, NEW day \in 0..today, Rowed(ref, a, day)
  PROVE  /\ rows' \in Seq(RowType) /\ \A i \in 1..Len(rows') : rows'[i].day <= today
         /\ Collected' = Collected + a /\ Collected \in Int
         /\ {rows'[i].ref : i \in 1..Len(rows')}
              = {rows[i].ref : i \in 1..Len(rows)} \cup (IF a = 0 THEN {} ELSE {ref})
<1>1. PICK parts \in [Parts -> Nat] : SumOf(parts) = a /\ Book(ref, a, parts, day) BY DEF Rowed
<1>2. rows \in Seq(RowType) /\ Len(rows) \in Nat /\ \A i \in 1..Len(rows) : rows[i].day <= today
  BY DEF BooksTyped
<1>3. Collected \in Int
  <2> DEFINE g == [i \in 1..Len(rows) |-> SumOf(rows[i].parts)]
  <2>1. \A i \in 1..Len(rows) : rows[i] \in RowType BY <1>2
  <2>2. \A i \in 1..Len(rows) : g[i] \in Int BY <2>1 DEF RowType, SumOf, Parts
  <2>3. IsFiniteSet(1..Len(rows)) BY <1>2, FS_Interval
  <2> HIDE DEF g
  <2> QED BY <2>2, <2>3, SumTakes DEF Collected, g
<1>4. CASE a = 0
  <2>1. rows' = rows BY <1>1, <1>4 DEF Book
  <2> QED BY <1>2, <1>3, <1>4, <2>1 DEF Collected
<1>5. CASE a # 0
  <2> DEFINE x == [ref |-> ref, parts |-> parts, day |-> day]
  <2>1. today \in Nat BY DayType DEF BooksTyped
  <2>2. x \in RowType /\ x.day <= today /\ x.ref = ref /\ x.parts = parts BY <2>1 DEF RowType
  <2>3. rows' = Append(rows, x) BY <1>1, <1>5 DEF Book
  <2> HIDE DEF x
  <2>4. /\ rows' \in Seq(RowType) /\ Len(rows') = Len(rows) + 1 /\ rows'[Len(rows) + 1] = x
        /\ \A i \in 1..Len(rows) : rows'[i] = rows[i]
        /\ Collected' = Collected + SumOf(x.parts)
    BY <1>2, <2>2, <2>3, RowAdds
  <2>5. \A i \in 1..Len(rows') : i \in 1..Len(rows) \/ i = Len(rows) + 1 BY <1>2, <2>4
  <2>6. \A i \in 1..Len(rows') : rows'[i].day <= today BY <1>2, <2>2, <2>4, <2>5
  <2>7. 1..Len(rows) \subseteq 1..Len(rows') /\ Len(rows) + 1 \in 1..Len(rows') BY <1>2, <2>4
  <2>8. {rows'[i].ref : i \in 1..Len(rows')} = {rows[i].ref : i \in 1..Len(rows)} \cup {ref}
    BY <2>2, <2>4, <2>5, <2>7
  <2> QED BY <1>1, <1>3, <1>5, <2>2, <2>4, <2>6, <2>8
<1> QED BY <1>4, <1>5

LEMMA ArrivalsAre ==
  Arrivals = Refs \cap ({rows[i].ref : i \in 1..Len(rows)} \cup {e.ref : e \in entries})
BY DEF Arrivals, Arrived

LEMMA ArrivalsWillBe ==
  Arrivals' = Refs \cap ({rows'[i].ref : i \in 1..Len(rows')} \cup {e.ref : e \in entries'})
BY DEF Arrivals, Arrived

(* Steps after which one payment has arrived: what of it the loan took (a)  *)
(* is in a row, and the rest is parked, with the interest owed back (c).    *)
LEMMA PaymentArrives ==
  ASSUME BooksKept, Kept', NEW ref \in Refs, ~Arrived(ref), NEW amount \in Nat \ {0},
         NEW day \in 0..today, NEW kind \in {"own", "OVR"}, NEW a \in 0..amount, NEW c \in Nat,
         Rowed(ref, a, day),
         entries' = entries \cup Parked(ref, kind, amount - a) \cup Parked(ref, "INT", c),
         received[ref] \in {0, amount}, received' = [received EXCEPT ![ref] = amount],
         held' \in SUBSET held, UNCHANGED <<quote, payout, today>>,
         loan'.status \in Collectible \cup {"paid"}, entries' # {} => loan'.status = "paid"
  PROVE  BooksKept'
<1>1. Kept /\ BooksTyped /\ Dated /\ EntriesApart /\ ReceiptsTrue /\ Cashed BY DEF BooksKept
<1>2. /\ Typed /\ today \in Nat /\ IsFiniteSet(entries) /\ entries \subseteq EntryType
      /\ received \in [Refs -> Nat]
  BY <1>1, DayType DEF BooksTyped, Typed, TypeOK
<1> DEFINE b == amount - a
           P == Parked(ref, kind, b)
           Q == Parked(ref, "INT", c)
<1>3. b \in Nat /\ a \in Nat /\ amount = a + b /\ amount \in Nat BY <1>2
<1>4. entries' = entries \cup P \cup Q OBVIOUS
<1> HIDE DEF b
<1>5. /\ IsFiniteSet(P) /\ IsFiniteSet(Q)
      /\ \A e \in P \cup Q : /\ e.ref = ref /\ e.made = today
                             /\ e.status = "open" /\ e.resolved = Never
      /\ \A e \in P : e.kind = kind /\ e.amount = b
      /\ \A e \in Q : e.kind = "INT"
      /\ \A e, f \in P : e = f
      /\ \A e, f \in Q : e = f
      /\ b = 0 => P = {}
      /\ b > 0 => \E e : P = {e}
  <2>1. /\ IsFiniteSet(P)
        /\ b = 0 => P = {}
        /\ b > 0 => P = {Entry(ref, kind, b)}
        /\ \A e \in P : /\ e = Entry(ref, kind, b)
                        /\ e.ref = ref /\ e.kind = kind /\ e.amount = b /\ e.made = today
                        /\ e.status = "open" /\ e.resolved = Never
    BY <1>2, <1>3, ParkedFacts
  <2>2. /\ IsFiniteSet(Q)
        /\ \A e \in Q : /\ e = Entry(ref, "INT", c)
                        /\ e.ref = ref /\ e.kind = "INT" /\ e.made = today
                        /\ e.status = "open" /\ e.resolved = Never
    BY <1>2, ParkedFacts
  <2> HIDE DEF P, Q
  <2> QED BY <2>1, <2>2
<1> HIDE DEF P, Q
<1>6. \A e \in entries : e.ref # ref BY DEF Arrived
<1>7. IsFiniteSet(entries')
  <2>1. IsFiniteSet(P) /\ IsFiniteSet(Q) BY <1>5
  <2>2. IsFiniteSet(entries \cup P) BY <1>2, <2>1, FS_Union
  <2>3. IsFiniteSet((entries \cup P) \cup Q) BY <2>1, <2>2, FS_Union
  <2> QED BY <1>4, <2>3
<1>8. /\ rows' \in Seq(RowType) /\ \A i \in 1..Len(rows') : rows'[i].day <= today
      /\ Collected' = Collected + a /\ Collected \in Int
      /\ {rows'[i].ref : i \in 1..Len(rows')}
           = {rows[i].ref : i \in 1..Len(rows)} \cup (IF a = 0 THEN {} ELSE {ref})
  BY <1>1, <1>3, RowArrives
<1>9. BooksTyped'
  <2>1. Typed' BY DEF Kept
  <2> QED BY <1>1, <1>7, <1>8, <2>1 DEF BooksTyped
<1>10. Dated'
  <2>1. \A e \in entries' : /\ e.made \in 0..today
                            /\ IF e.status = "open" THEN e.resolved = Never ELSE e.resolved \in 0..today
    BY <1>1, <1>2, <1>5, <1>4 DEF Dated
  <2>2. loan'.status # "processing" BY DEF Collectible
  <2> QED BY <1>1, <2>1, <2>2 DEF Dated
<1>11. EntriesApart'
  <2>1. \A e, f \in entries' : e.ref = f.ref /\ e.kind = f.kind => e = f
    BY <1>1, <1>5, <1>4, <1>6 DEF EntriesApart
  <2> QED BY <2>1 DEF EntriesApart
<1>12. Arrivals' = Arrivals \cup {ref} /\ ref \notin Arrivals
  <2>1. ref \notin Arrivals BY DEF Arrivals
  <2>2. {e.ref : e \in entries'} = {e.ref : e \in entries} \cup (IF P \cup Q = {} THEN {} ELSE {ref})
    BY <1>5, <1>4
  <2>3. a = 0 => P \cup Q # {}
    <3>1. a = 0 => b > 0 BY <1>3
    <3>2. b > 0 => P # {} BY <1>5
    <3> QED BY <3>1, <3>2
  <2>4. {rows'[i].ref : i \in 1..Len(rows')}
          = {rows[i].ref : i \in 1..Len(rows)} \cup (IF a = 0 THEN {} ELSE {ref})
    BY <1>8
  <2>5. {rows'[i].ref : i \in 1..Len(rows')} \cup {e.ref : e \in entries'}
          = ({rows[i].ref : i \in 1..Len(rows)} \cup {e.ref : e \in entries}) \cup {ref}
    BY <2>2, <2>3, <2>4
  <2> QED BY <2>1, <2>5, ArrivalsAre, ArrivalsWillBe
<1>13. ReceiptsTrue'
  <2>1. IsFiniteSet(Arrivals') BY <1>1, <1>12, FS_AddElement DEF ReceiptsTrue
  <2>2. Arrivals \subseteq Refs BY DEF Arrivals
  <2>3. \A r \in Arrivals' : received'[r] > 0 BY <1>1, <1>2, <1>12, <2>2 DEF ReceiptsTrue
  <2>4. ASSUME NEW h \in held' PROVE received'[h.ref] = h.amount
    <3>1. received[h.ref] = h.amount /\ h.ref \in Refs BY <1>1, <1>2 DEF ReceiptsTrue, Typed, TypeOK
    <3>2. h.amount \in Nat \ {0}
      BY <1>2, AccountAssumption DEF Typed, TypeOK, AccountAssumption
    <3> QED BY <1>2, <3>1, <3>2
  <2> QED BY <2>1, <2>3, <2>4 DEF ReceiptsTrue
<1>14. MoneyIn' = MoneyIn + amount /\ MoneyIn \in Int
  <2>1. MoneyIn' = MoneyIn + amount BY <1>1, <1>2, <1>12, ReceiptAdds DEF ReceiptsTrue
  <2>2. \A r \in Arrivals : received[r] \in Int BY <1>2 DEF Arrivals
  <2>3. SumFunctionOnSet(received, Arrivals) \in Int BY <1>1, <2>2, SumTakes DEF ReceiptsTrue
  <2> QED BY <2>1, <2>3 DEF MoneyIn, Arrivals
<1>15. Cashed'
  <2> DEFINE N == entries \ Owing("INT")
             M == entries' \ Owing("INT")'
  <2>1. N = {e \in entries : e.kind # "INT"} /\ M = {e \in entries' : e.kind # "INT"}
    BY DEF Owing
  <2>2. M = N \cup P BY <1>5, <1>4, <2>1
  <2>3. IsFiniteSet(N) BY <1>2, FS_Subset
  <2>4. \A e \in N \cup P : e.amount \in Int BY <1>2, <1>3, <1>5 DEF EntryType
  <2>5. SumAmounts(N) \in Int BY <2>3, <2>4, AmountsType
  <2>6. Collected + SumAmounts(N) = MoneyIn BY <1>1 DEF Cashed
  <2>7. Cashed' <=> Collected' + SumAmounts(M) = MoneyIn' BY DEF Cashed, SumAmounts
  <2> HIDE DEF N, M
  <2>8. SumAmounts(M) = SumAmounts(N) + b
    <3>1. CASE b = 0
      <4>1. M = N BY <1>5, <2>2, <3>1
      <4> QED BY <2>5, <3>1, <4>1
    <3>2. CASE b # 0
      <4> b > 0 BY <1>3, <3>2
      <4>1. PICK e : P = {e} BY <1>5
      <4>2. e \notin N /\ e.amount = b BY <1>5, <1>6, <2>1, <4>1 DEF N
      <4> QED BY <2>2, <2>3, <2>4, <4>1, <4>2, AmountsAdd
    <3> QED BY <3>1, <3>2
  <2>9. Collected' = Collected + a /\ Collected \in Int BY <1>8
  <2>10. Collected' + SumAmounts(M) = MoneyIn'
    BY <1>3, <1>14, <2>5, <2>6, <2>8, <2>9
  <2> QED BY <2>7, <2>10
<1> QED BY <1>9, <1>10, <1>11, <1>13, <1>15 DEF BooksKept

(* A payment that an open loan takes.  Nothing was parked before: an open   *)
(* loan has no entries.                                                     *)
LEMMA TakeArrives ==
  ASSUME BooksKept, Kept', loan.status \in Collectible, NEW ref \in Refs, ~Arrived(ref),
         NEW amount \in Nat \ {0}, NEW day \in 0..today, Take(ref, amount, day),
         received[ref] \in {0, amount}, received' = [received EXCEPT ![ref] = amount],
         held' \in SUBSET held, UNCHANGED <<quote, payout, today>>
  PROVE  BooksKept'
<1>1. Kept /\ EntriesApart /\ Typed /\ loan \in LoanType BY DEF BooksKept, Kept, Typed
<1>2. entries = {} BY <1>1 DEF EntriesApart, Collectible
<1>3. day \in Nat BY <1>1, DayType
<1>4. CASE SettleEarly(ref, amount, day)
  <2>1. Settled(ref, amount, day) BY <1>1, <1>3, <1>4, SettleFacts
  <2>2. PICK a \in Nat, c \in Nat, w \in Nat :
          /\ Rowed(ref, a, day) /\ a <= amount
          /\ loan' = [loan EXCEPT !.status = "paid", !.balance = 0, !.settled = day, !.rebate = @ + w]
          /\ entries' = entries \cup Parked(ref, "OVR", amount - a) \cup Parked(ref, "INT", c)
    BY <2>1 DEF Settled
  <2>3. loan'.status = "paid" BY <1>1, <2>2 DEF LoanType
  <2>4. a \in 0..amount BY <2>2
  <2> QED BY <2>2, <2>3, <2>4, PaymentArrives
<1>5. CASE Apply(ref, amount, day)
  <2>1. PICK a \in Nat :
          /\ a <= amount /\ a \in {amount, loan.balance} /\ Rowed(ref, a, day)
          /\ loan' = [loan EXCEPT !.balance = @ - a,
                                  !.status = IF a = loan.balance THEN "paid" ELSE @]
          /\ entries' = entries \cup Parked(ref, "OVR", amount - a)
    BY <1>1, <1>3, <1>5, ApplyFacts
  <2>2. loan'.status = IF a = loan.balance THEN "paid" ELSE loan.status BY <1>1, <2>1 DEF LoanType
  <2>3. a \in 0..amount /\ amount - a \in Nat BY <2>1
  <2>4. Parked(ref, "INT", 0) = {} BY DEF Parked
  <2>5. entries' = entries \cup Parked(ref, "OVR", amount - a) \cup Parked(ref, "INT", 0)
    BY <2>1, <2>4
  <2>6. a = amount => Parked(ref, "OVR", amount - a) = {}
    <3>1. a = amount => amount - a = 0 BY <2>1
    <3>2. Parked(ref, "OVR", 0) = {} BY DEF Parked
    <3> QED BY <3>1, <3>2
  <2>7. entries' # {} => loan'.status = "paid" BY <1>2, <2>1, <2>2, <2>6
  <2>8. loan'.status \in Collectible \cup {"paid"} BY <2>2
  <2> QED BY <2>1, <2>3, <2>5, <2>7, <2>8, PaymentArrives
<1> QED BY <1>4, <1>5 DEF Take

(* A payment on a loan that is paid. *)
LEMMA ParkArrives ==
  ASSUME BooksKept, Kept', loan.status = "paid", NEW ref \in Refs, ~Arrived(ref),
         NEW amount \in Nat \ {0}, Park(ref, amount),
         received[ref] \in {0, amount}, received' = [received EXCEPT ![ref] = amount],
         held' \in SUBSET held, UNCHANGED <<quote, payout, today>>
  PROVE  BooksKept'
<1>1. Typed BY DEF BooksKept, Kept
<1>2. today \in 0..today /\ 0 \in 0..amount /\ amount - 0 = amount BY <1>1, DayType
<1>3. /\ entries' = entries \cup Parked(ref, "own", amount)
      /\ UNCHANGED <<loan, rows, paid>>
  BY DEF Park
<1>4. Rowed(ref, 0, today)
  <2> DEFINE none == [p \in Parts |-> 0]
  <2>1. none \in [Parts -> Nat] /\ SumOf(none) = 0 BY DEF SumOf, Parts
  <2> HIDE DEF none
  <2>2. Book(ref, 0, none, today) BY <1>3 DEF Book
  <2> QED BY <2>1, <2>2 DEF Rowed
<1>5. Parked(ref, "INT", 0) = {} BY DEF Parked
<1>6. entries' = entries \cup Parked(ref, "own", amount - 0) \cup Parked(ref, "INT", 0)
  BY <1>2, <1>3, <1>5
<1>7. loan'.status = "paid" BY <1>3
<1> QED BY <1>2, <1>4, <1>6, <1>7, PaymentArrives

LEMMA ArrivedReceived ==
  ASSUME BooksKept, NEW ref \in Refs, Arrived(ref)
  PROVE  received[ref] > 0
BY DEF BooksKept, ReceiptsTrue, Arrivals

LEMMA DaysSoFar ==
  ASSUME BooksKept
  PROVE  /\ today \in Nat
         /\ \A day \in AtLeast(today - Late, 0)..today : day \in 0..today
<1>1. today \in Nat BY DayType DEF BooksKept, Kept
<1>2. Late \in Nat BY AccountAssumption DEF AccountAssumption
<1> QED BY <1>1, <1>2 DEF AtLeast

LEMMA PayBooks ==
  ASSUME BooksKept, Kept', NEW ref \in Refs, NEW amount \in Amounts,
         NEW day \in 0..today, Pay(ref, amount, day)
  PROVE  BooksKept'
<1>1. amount \in Nat \ {0} BY AccountAssumption DEF AccountAssumption
<1>2. EntriesApart /\ ReceiptsTrue BY DEF BooksKept
<1>3. loan.start # Never /\ ~Arrived(ref) /\ received' = [received EXCEPT ![ref] = amount]
      /\ held' = held /\ UNCHANGED <<quote, payout, today>>
  BY DEF Pay
<1>4. received[ref] \in {0, amount} BY <1>2 DEF Pay, ReceiptsTrue
<1>5. CASE loan.status \in Collectible
  <2>1. Take(ref, amount, day) BY <1>5 DEF Pay
  <2> QED BY <1>1, <1>3, <1>4, <1>5, <2>1, TakeArrives
<1>6. CASE loan.status \notin Collectible
  <2>1. Park(ref, amount) BY <1>6 DEF Pay
  <2>2. loan.status = "paid" BY <1>2, <1>3, <1>6 DEF EntriesApart
  <2> QED BY <1>1, <1>3, <1>4, <2>1, <2>2, ParkArrives
<1> QED BY <1>5, <1>6

LEMMA EnterBooks ==
  ASSUME BooksKept, Kept', NEW ref \in Refs, NEW amount \in Amounts,
         NEW day \in 0..today, Enter(ref, amount, day)
  PROVE  BooksKept'
<1>1. amount \in Nat \ {0} BY AccountAssumption DEF AccountAssumption
<1>2. /\ Dated /\ EntriesApart /\ ReceiptsTrue /\ Typed
      /\ received \in [Refs -> Nat] /\ \A h \in held : h.ref \in Refs
  BY DEF BooksKept, Kept, Typed, TypeOK
<1>3. /\ received[ref] = 0 /\ loan.status \in Collectible
      /\ received' = [received EXCEPT ![ref] = amount]
      /\ \A h \in held : h.ref # ref
      /\ UNCHANGED <<quote, payout, today>>
  BY DEF Enter, Free
<1>4. ~Arrived(ref) BY <1>3, ArrivedReceived
<1>5. CASE amount >= Threshold
  <2> DEFINE x == [ref |-> ref, amount |-> amount, day |-> day]
  <2>1. held' = held \cup {x} /\ UNCHANGED <<loan, rows, paid, entries>> BY <1>5 DEF Enter
  <2>2. x.ref = ref /\ x.amount = amount /\ x.day <= today BY <1>2, DayType
  <2> HIDE DEF x
  <2>3. received' \in [Refs -> Nat] BY <1>1, <1>2, <1>3
  <2>4. Arrivals \subseteq Refs /\ ref \notin Arrivals BY <1>4 DEF Arrivals
  <2>5. \A r \in Arrivals : received'[r] = received[r] BY <1>2, <1>3, <2>4
  <2>6. \A h \in held' : received'[h.ref] = h.amount /\ h.day <= today'
    BY <1>2, <1>3, <2>1, <2>2 DEF ReceiptsTrue, Dated
  <2>7. today' \in {today, today + 1} BY <1>3
  <2> QED BY <1>2, <1>3, <2>1, <2>3, <2>5, <2>6, <2>7, NothingArrives DEF Dated, EntriesApart
<1>6. CASE ~(amount >= Threshold)
  <2>1. Take(ref, amount, day) /\ held' = held BY <1>6 DEF Enter
  <2> QED BY <1>1, <1>3, <1>4, <2>1, TakeArrives
<1> QED BY <1>5, <1>6

LEMMA ApproveBooks ==
  ASSUME BooksKept, Kept', NEW h \in held, Approve(h)
  PROVE  BooksKept'
<1>1. /\ Dated /\ EntriesApart /\ ReceiptsTrue /\ Typed
      /\ received \in [Refs -> Nat] /\ \A x \in held : x.ref \in Refs
      /\ h.ref \in Refs /\ h.amount \in Amounts /\ h.day \in Days
  BY DEF BooksKept, Kept, Typed, TypeOK
<1>2. h.amount \in Nat \ {0} BY <1>1, AccountAssumption DEF AccountAssumption
<1>3. h.day \in 0..today
  <2>1. h.day <= today BY <1>1 DEF Dated
  <2> QED BY <1>1, <2>1, DayType
<1>4. loan.status \in Collectible /\ held' = held \ {h} /\ received' = received
      /\ UNCHANGED <<quote, payout, today>>
  BY DEF Approve
<1>5. received[h.ref] = h.amount BY <1>1 DEF ReceiptsTrue
<1>6. CASE Used(h.ref)
  <2>1. UNCHANGED <<loan, rows, entries>> BY <1>6 DEF Approve
  <2>2. \A x \in held' : received'[x.ref] = x.amount /\ x.day <= today'
    BY <1>1, <1>4 DEF ReceiptsTrue, Dated
  <2>3. today' \in {today, today + 1} BY <1>4
  <2> QED BY <1>1, <1>4, <2>1, <2>2, <2>3, NothingArrives DEF Dated, EntriesApart
<1>7. CASE ~Used(h.ref)
  <2>1. entries = {} BY <1>1, <1>4 DEF EntriesApart, Collectible
  <2>2. ~Arrived(h.ref) BY <1>7, <2>1 DEF Used, Arrived
  <2>3. Take(h.ref, h.amount, h.day) BY <1>7 DEF Approve
  <2>4. received' = [received EXCEPT ![h.ref] = h.amount] BY <1>1, <1>4, <1>5
  <2>5. received[h.ref] \in {0, h.amount} /\ held' \in SUBSET held BY <1>4, <1>5
  <2> QED BY <1>1, <1>2, <1>3, <1>4, <2>2, <2>3, <2>4, <2>5, TakeArrives
<1> QED BY <1>6, <1>7
---------------------------------------------------------------------------
(* What is resolved keeps its reference, its kind and its amount. *)
LEMMA ResolveBooks ==
  ASSUME BooksKept, Kept', NEW e \in entries, NEW how \in {"refunded", "moved"}, Resolve(e, how)
  PROVE  BooksKept'
<1> DEFINE f == [e EXCEPT !.status = how, !.resolved = today]
           U == entries \ {e}
<1>1. /\ BooksTyped /\ Dated /\ EntriesApart /\ ReceiptsTrue /\ Cashed /\ Typed
      /\ entries \subseteq EntryType /\ IsFiniteSet(entries) /\ today \in Nat
  BY DayType DEF BooksKept, BooksTyped, Typed
<1>2. /\ entries' = U \cup {f} /\ e.status = "open"
      /\ UNCHANGED <<quote, loan, payout, rows, held, received, today>>
  BY DEF Resolve
<1>3. e \in EntryType BY <1>1
<1>4. /\ f.ref = e.ref /\ f.kind = e.kind /\ f.amount = e.amount /\ f.made = e.made
      /\ f.status = how /\ f.resolved = today
  BY <1>3 DEF EntryType
<1> HIDE DEF f, U
<1>5. \A x \in entries : x.ref = f.ref /\ x.kind = f.kind => x = e
  BY <1>1, <1>4 DEF EntriesApart
<1>6. f \notin entries
  <2>1. f # e BY <1>2, <1>4
  <2> QED BY <1>5, <2>1
<1>7. U \subseteq entries /\ e \notin U /\ IsFiniteSet(U) /\ entries = U \cup {e}
  BY <1>1, FS_Subset DEF U
<1>8. BooksTyped'
  <2>1. IsFiniteSet(U \cup {f}) BY <1>7, FS_AddElement
  <2>2. Typed' BY DEF Kept
  <2> QED BY <1>1, <1>2, <2>1, <2>2 DEF BooksTyped
<1>9. Dated'
  <2>1. f.made \in 0..today /\ f.status # "open" /\ f.resolved \in 0..today
    BY <1>1, <1>4 DEF Dated
  <2>2. \A x \in entries' : /\ x.made \in 0..today
                            /\ IF x.status = "open" THEN x.resolved = Never ELSE x.resolved \in 0..today
    BY <1>1, <1>2, <1>7, <2>1 DEF Dated
  <2> QED BY <1>1, <1>2, <2>2 DEF Dated
<1>10. EntriesApart'
  <2>1. \A x \in U : ~(x.ref = f.ref /\ x.kind = f.kind) BY <1>5, <1>7
  <2>2. \A x, y \in entries' : x.ref = y.ref /\ x.kind = y.kind => x = y
    BY <1>1, <1>2, <1>7, <2>1 DEF EntriesApart
  <2>3. loan.status = "paid" BY <1>1 DEF EntriesApart
  <2> QED BY <1>1, <1>2, <2>2, <2>3 DEF EntriesApart
<1>11. Arrivals' = Arrivals
  <2>1. {x.ref : x \in entries'} = {x.ref : x \in entries} BY <1>2, <1>4, <1>7
  <2> QED BY <1>2, <2>1, ArrivalsAre, ArrivalsWillBe
<1>12. ReceiptsTrue' BY <1>1, <1>2, <1>11 DEF ReceiptsTrue
<1>13. MoneyIn' = MoneyIn /\ Collected' = Collected BY <1>2, <1>11 DEF MoneyIn, Arrivals, Collected
<1>14. Cashed'
  <2> DEFINE N == {x \in entries : x.kind # "INT"}
             M == {x \in entries' : x.kind # "INT"}
             V == {x \in U : x.kind # "INT"}
  <2>1. SumAmounts(M) = SumAmounts(N)
    <3>1. \A x \in V \cup {e} : x.amount \in Int BY <1>1, <1>3, <1>7 DEF EntryType
    <3>2. \A x \in V \cup {f} : x.amount \in Int BY <1>4, <3>1
    <3>3. IsFiniteSet(V) /\ e \notin V /\ f \notin V BY <1>6, <1>7, FS_Subset
    <3>4. CASE e.kind = "INT"
      <4>1. M = V /\ N = V BY <1>2, <1>4, <1>7, <3>4
      <4> QED BY <4>1
    <3>5. CASE e.kind # "INT"
      <4>1. M = V \cup {f} /\ N = V \cup {e} BY <1>2, <1>4, <1>7, <3>5
      <4> HIDE DEF V, M, N
      <4>2. SumAmounts(V \cup {f}) = SumAmounts(V) + f.amount BY <3>2, <3>3, AmountsAdd
      <4>3. SumAmounts(V \cup {e}) = SumAmounts(V) + e.amount BY <3>1, <3>3, AmountsAdd
      <4> QED BY <1>4, <4>1, <4>2, <4>3
    <3> QED BY <3>4, <3>5
  <2>2. N = entries \ Owing("INT") /\ M = entries' \ Owing("INT")' BY DEF Owing
  <2>3. Cashed <=> Collected + SumAmounts(N) = MoneyIn BY <2>2 DEF Cashed
  <2>4. Cashed' <=> Collected' + SumAmounts(M) = MoneyIn' BY <2>2 DEF Cashed, SumAmounts
  <2> HIDE DEF N, M
  <2> QED BY <1>1, <1>13, <2>1, <2>3, <2>4
<1> QED BY <1>8, <1>9, <1>10, <1>12, <1>14 DEF BooksKept

(* The steps that neither receive nor send back anything. *)
LEMMA QuietBooks ==
  ASSUME BooksKept, Kept',
         \/ Disburse \/ PaidOut \/ PayoutFails \/ TurnOverdue \/ TurnDefaulted
         \/ \E r \in Refs : EnterAgain(r)
         \/ \E o \in Orders : SetOrder(o)
         \/ \E m \in Methods : SetMethod(m)
         \/ \E p \in Products : UpdateProduct(p)
         \/ Tick
         \/ UNCHANGED vars
  PROVE  BooksKept'
<1>1. /\ Dated /\ EntriesApart /\ ReceiptsTrue /\ Typed /\ today \in Nat
      /\ loan \in LoanType /\ received \in [Refs -> Nat]
  BY DayType DEF BooksKept, Kept, Typed, TypeOK
<1>2. UNCHANGED <<quote, rows, entries, held, received>>
  BY DEF Disburse, PaidOut, PayoutFails, TurnOverdue, TurnDefaulted, EnterAgain, SetOrder,
         SetMethod, UpdateProduct, Tick, vars, money
<1>3. today' \in {today, today + 1}
  BY DEF Disburse, PaidOut, PayoutFails, TurnOverdue, TurnDefaulted, EnterAgain, SetOrder,
         SetMethod, UpdateProduct, Tick, vars
<1>4. \A h \in held' : received'[h.ref] = h.amount /\ h.day <= today'
  <2>1. \A h \in held : received[h.ref] = h.amount /\ h.day <= today /\ h.day \in Int
    <3>1. \A h \in held : h.day \in Days BY <1>1 DEF Typed, TypeOK
    <3>2. \A h \in held : h.day \in Int BY <1>1, <3>1, DayType
    <3> QED BY <1>1, <3>2 DEF ReceiptsTrue, Dated
  <2> QED BY <1>1, <1>2, <1>3, <2>1
<1> DEFINE PayoutType == [day : Int, status : {"none", "processing", "success", "failed"}]
<1>5. /\ payout' \in PayoutType
      /\ payout'.status \in {"processing", "success"} => payout'.day \in 0..today'
      /\ loan'.status = "processing" => payout'.status = "processing"
      /\ loan'.start # Never => loan'.status \in Collectible \cup {"paid"}
      /\ entries # {} => loan'.status = "paid"
  <2>1. CASE Disburse
    <3>1. /\ loan.status = "approved" /\ loan' = [loan EXCEPT !.status = "processing"]
          /\ payout' = [day |-> today, status |-> "processing"] /\ today' = today
      BY <2>1 DEF Disburse
    <3>2. loan'.status = "processing" /\ loan'.start = loan.start BY <1>1, <3>1 DEF LoanType
    <3>3. loan.start = Never /\ entries = {} BY <1>1, <3>1 DEF EntriesApart, Collectible
    <3> QED BY <1>1, <3>1, <3>2, <3>3
  <2>2. CASE PaidOut
    <3>1. /\ loan.status = "processing" /\ payout' = [payout EXCEPT !.status = "success"]
          /\ loan'.status = "active" /\ today' = today
      BY <1>1, <2>2 DEF PaidOut, LoanType
    <3>2. entries = {} BY <1>1, <3>1 DEF EntriesApart
    <3>3. payout'.status = "success" /\ payout'.day = payout.day /\ payout' \in PayoutType
      BY <1>1, <3>1 DEF Dated
    <3>4. payout.day \in 0..today BY <1>1, <3>1 DEF Dated
    <3> QED BY <3>1, <3>2, <3>3, <3>4 DEF Collectible
  <2>3. CASE PayoutFails
    <3>1. /\ loan.status = "processing" /\ payout' = [payout EXCEPT !.status = "failed"]
          /\ loan' = [loan EXCEPT !.status = "approved"]
      BY <2>3 DEF PayoutFails
    <3>2. loan'.status = "approved" /\ loan'.start = loan.start BY <1>1, <3>1 DEF LoanType
    <3>3. loan.start = Never /\ entries = {} BY <1>1, <3>1 DEF EntriesApart, Collectible
    <3>4. payout'.status = "failed" /\ payout' \in PayoutType BY <1>1, <3>1 DEF Dated
    <3> QED BY <3>2, <3>3, <3>4
  <2>4. CASE TurnOverdue \/ TurnDefaulted
    <3>1. loan.status \in {"active", "overdue"} /\ payout' = payout /\ today' = today
      BY <2>4 DEF TurnOverdue, TurnDefaulted
    <3>2. loan'.status \in {"overdue", "defaulted"}
      BY <1>1, <2>4 DEF TurnOverdue, TurnDefaulted, LoanType
    <3>3. entries = {} BY <1>1, <3>1 DEF EntriesApart
    <3> QED BY <1>1, <3>1, <3>2, <3>3 DEF Dated, Collectible
  <2>5. CASE UNCHANGED <<loan, payout>>
    <3>1. payout.day \in 0..today => payout.day \in 0..today' BY <1>1, <1>3
    <3> QED BY <1>1, <2>5, <3>1 DEF Dated, EntriesApart
  <2>6. \/ Disburse \/ PaidOut \/ PayoutFails \/ TurnOverdue \/ TurnDefaulted
        \/ UNCHANGED <<loan, payout>>
    BY DEF EnterAgain, SetOrder, SetMethod, UpdateProduct, Tick, vars
  <2> QED BY <2>1, <2>2, <2>3, <2>4, <2>5, <2>6
<1>6. received' \in [Refs -> Nat] /\ \A r \in Arrivals : received'[r] = received[r] BY <1>1, <1>2
<1> QED BY <1>2, <1>3, <1>4, <1>5, <1>6, NothingArrives

LEMMA InitBooks == Init => BooksKept
<1> SUFFICES ASSUME Init PROVE BooksKept OBVIOUS
<1>1. Kept /\ Typed BY InitKept DEF Kept
<1>2. rows = <<>> /\ entries = {} /\ held = {} /\ today = 0 /\ Len(rows) = 0 BY DEF Init
<1>3. BooksTyped
  <2>1. quote.inBalance <= quote.fees + quote.excise
    <3>1. product \in ProductType /\ Principal \in Nat
      BY AccountAssumption DEF Init, ProductType, AccountAssumption
    <3>2. quote = Quote(product, Principal) BY DEF Init
    <3> QED BY <3>1, <3>2, QuoteTyped
  <2>2. rows \in Seq(RowType) /\ 1..Len(rows) = {} BY <1>2
  <2> QED BY <1>1, <1>2, <2>1, <2>2, FS_EmptySet DEF BooksTyped
<1>4. Dated BY <1>2 DEF Dated, Init, Never
<1>5. EntriesApart BY <1>2 DEF EntriesApart, Init
<1>6. Arrivals = {} BY <1>2 DEF Arrivals, Arrived
<1>7. ReceiptsTrue BY <1>2, <1>6, FS_EmptySet DEF ReceiptsTrue
<1>8. Cashed
  <2>1. Collected = 0 BY <1>2, SumNone DEF Collected
  <2>2. MoneyIn = 0 BY <1>6, SumNone DEF MoneyIn, Arrivals
  <2>3. entries \ Owing("INT") = {} BY <1>2
  <2> QED BY <2>1, <2>2, <2>3, AmountsNone DEF Cashed
<1> QED BY <1>1, <1>3, <1>4, <1>5, <1>7, <1>8 DEF BooksKept

LEMMA StepBooks == BooksKept /\ [Next]_vars => BooksKept'
<1> SUFFICES ASSUME BooksKept, [Next]_vars PROVE BooksKept' OBVIOUS
<1>1. Kept' BY StepKept DEF BooksKept
<1>2. ASSUME NEW r \in Refs, NEW a \in Amounts, NEW d \in AtLeast(today - Late, 0)..today,
             Pay(r, a, d) \/ Enter(r, a, d)
      PROVE  BooksKept'
  BY <1>1, <1>2, DaysSoFar, PayBooks, EnterBooks
<1>3. ASSUME NEW h \in held, Approve(h) PROVE BooksKept' BY <1>1, <1>3, ApproveBooks
<1>4. ASSUME NEW e \in entries, NEW how \in {"refunded", "moved"}, Resolve(e, how)
      PROVE  BooksKept'
  BY <1>1, <1>4, ResolveBooks
<1> QED BY <1>1, <1>2, <1>3, <1>4, QuietBooks DEF Next

(* The inductive invariant of the books: with what the account keeps, every *)
(* row and entry has a date, only a paid loan has entries, and rows and     *)
(* entries come to what was received.                                       *)
THEOREM BooksInvariant == Spec => []BooksKept
<1> QED BY InitBooks, StepBooks, PTL DEF Spec

(* An export balances, and two periods say what both together say           *)
(* (accounting._build_gl_lines, gl_export).                                 *)
THEOREM BooksBalance == Spec => []BooksAddUp
<1>1. BooksKept => BooksAddUp BY TypedAddUp DEF BooksKept
<1> QED BY <1>1, BooksInvariant, PTL

(* The cash account is the money received less the money sent, but for the  *)
(* interest that is owed back (accounting._build_gl_lines).                 *)
THEOREM CashIsTrue == Spec => []CashIsReal
<1>1. BooksKept => CashIsReal BY CashIs
<1> QED BY <1>1, BooksInvariant, PTL
=============================================================================
