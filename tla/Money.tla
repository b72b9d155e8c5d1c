------------------------------- MODULE Money -------------------------------
(***************************************************************************)
(* The arithmetic of packages/money: integer minor units with a currency,  *)
(* rounding under an explicit mode, splitting by the largest remainder,    *)
(* and the exact decimal text of an amount.  The integers of the code are  *)
(* bigints, which do not overflow.                                         *)
(***************************************************************************)
EXTENDS Integers, SequencesExt

CONSTANTS
  Currency,            \* SUPPORTED_CURRENCIES
  minorUnitExponent    \* decimal places of the major unit, by currency

ASSUME MoneyAssumption == minorUnitExponent \in [Currency -> Nat]

RoundingMode == {"HALF_EVEN", "HALF_UP", "DOWN", "UP"}

money(amount, currency) == [amount |-> amount, currency |-> currency]

\* assertSameCurrency: every operation on two amounts throws unless this holds.
sameCurrency(left, right) == left.currency = right.currency

add(left, right) == money(left.amount + right.amount, left.currency)

\* -1 if left is smaller, 1 if larger, 0 if equal.
compare(left, right) ==
  CASE left.amount < right.amount -> -1
    [] left.amount > right.amount -> 1
    [] OTHER                      -> 0

magnitude(n) == IF n < 0 THEN -n ELSE n

(***************************************************************************)
(* Rounding.                                                               *)
(***************************************************************************)

\* Bug: a half is rounded to even in every mode.
BankersRounding(quotient, remainder, denominator, rounding) ==
  remainder # 0 /\
  CASE rounding = "DOWN" -> FALSE
    [] rounding = "UP"   -> TRUE
    [] OTHER             -> \/ 2 * remainder > denominator
                            \/ 2 * remainder = denominator /\ quotient % 2 # 0

\* On magnitudes: whether a remainder takes the quotient one further from zero.
roundAway(quotient, remainder, denominator, rounding) ==
  remainder # 0 /\
  CASE rounding = "DOWN"      -> FALSE
    [] rounding = "UP"        -> TRUE
    [] rounding = "HALF_UP"   -> 2 * remainder >= denominator
    [] rounding = "HALF_EVEN" -> \/ 2 * remainder > denominator
                                 \/ 2 * remainder = denominator /\ quotient % 2 # 0

divideRounded(numerator, denominator, rounding) ==
  LET negative == (numerator < 0) # (denominator < 0)
      quotient == magnitude(numerator) \div magnitude(denominator)
      rest     == magnitude(numerator) % magnitude(denominator)
      result   == IF roundAway(quotient, rest, magnitude(denominator), rounding)
                    THEN quotient + 1 ELSE quotient
  IN  IF negative THEN -result ELSE result

assertRatio(ratio) == ratio.den # 0

multiply(value, ratio, rounding) ==
  IF ~ assertRatio(ratio) THEN "InvalidRatioError"
  ELSE money(divideRounded(value.amount * ratio.num, ratio.den, rounding), value.currency)

(***************************************************************************)
(* Splitting.                                                              *)
(***************************************************************************)

SumOf(seq) == FoldFunction(+, 0, seq)

\* Bug: the sort is by index alone, so the leftover goes to the first parts.
GoesFirst(remainders, a, b) == a < b

\* byRemainderThenIndex: the largest remainder first, a tie to the earliest.
goesBefore(remainders, a, b) ==
  \/ remainders[a] > remainders[b]
  \/ remainders[a] = remainders[b] /\ a < b

\* None of them negative, and not all of them zero.
assertWeights(weights) ==
  /\ \A i \in DOMAIN weights : weights[i] >= 0
  /\ SumOf(weights) > 0

shares(value, weights) ==
  LET total      == SumOf(weights)
      negative   == value.amount < 0
      product    == [i \in DOMAIN weights |-> magnitude(value.amount) * weights[i]]
      whole      == [i \in DOMAIN weights |-> product[i] \div total]
      remainders == [i \in DOMAIN weights |-> product[i] % total]
      leftover   == magnitude(value.amount) - SumOf(whole)
      before(i)  == Cardinality({j \in DOMAIN weights : goesBefore(remainders, j, i)})
      \* the leftover units go one each to the first parts of the order
      part(i)    == IF before(i) < leftover THEN whole[i] + 1 ELSE whole[i]
  IN  [i \in DOMAIN weights |->
         money(IF negative THEN -part(i) ELSE part(i), value.currency)]

allocate(value, weights) ==
  IF assertWeights(weights) THEN shares(value, weights) ELSE "InvalidWeightsError"

(***************************************************************************)
(* The exact text of an amount: a sign, the digits before the point, and   *)
(* those after it.                                                         *)
(***************************************************************************)

Decimal(negative, integer, fraction) ==
  [negative |-> negative, integer |-> integer, fraction |-> fraction]

tenTo(k) ==
  LET power[j \in 0 .. k] == IF j = 0 THEN 1 ELSE 10 * power[j - 1]
  IN  power[k]

\* BigInt(digits): the value of a sequence of digits, none of them being zero.
valueOf(digits) ==
  LET leading[j \in 0 .. Len(digits)] ==
        IF j = 0 THEN 0 ELSE 10 * leading[j - 1] + digits[j]
  IN  leading[Len(digits)]

\* Bug: the fraction is not padded, so that "10.5" is ten and five cents.
Unpadded(digits, length) == digits

padEnd(digits, length) ==
  digits \o [i \in 1 .. length - Len(digits) |-> 0]

\* More places than the currency has are refused, never rounded.
fromMajorString(text, currency) ==
  LET exponent == minorUnitExponent[currency]
      units    == valueOf(text.integer \o padEnd(text.fraction, exponent))
  IN  IF Len(text.fraction) > exponent
        THEN "InvalidDecimalStringError"
        ELSE money(IF text.negative THEN -units ELSE units, currency)

\* The last `length` digits of n, or all of them if it has more.
digitsOf(n, length) ==
  LET needed == CHOOSE k \in length .. n + length + 1 :
                  n < tenTo(k) /\ \A j \in length .. k - 1 : n >= tenTo(j)
  IN  [i \in 1 .. needed |-> (n \div tenTo(needed - i)) % 10]

toMajorString(value) ==
  LET exponent == minorUnitExponent[value.currency]
      digits   == digitsOf(magnitude(value.amount), exponent + 1)
      boundary == Len(digits) - exponent
  IN  Decimal(value.amount < 0, SubSeq(digits, 1, boundary),
              SubSeq(digits, boundary + 1, Len(digits)))
=============================================================================
