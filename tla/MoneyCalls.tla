---------------------------- MODULE MoneyCalls -----------------------------
(***************************************************************************)
(* One call of packages/money on bounded arguments, and what the package   *)
(* promises of its answer, stated without the algorithm that computes it.  *)
(***************************************************************************)
EXTENDS Money

CONSTANTS
  Amounts,       \* minor units a call may be made with
  Numbers,       \* numerators and denominators of a ratio
  Weights,       \* sequences of weights
  Digits,        \* the digits of a text
  MaxPlaces      \* the digits on one side of the point, at most

ASSUME MoneyCallsAssumption ==
  /\ Amounts \subseteq Int /\ Numbers \subseteq Int
  /\ Weights \subseteq Seq(Int)
  /\ Digits \subseteq 0 .. 9 /\ MaxPlaces \in Nat

VARIABLES
  operation,     \* the operation and its arguments
  answer         \* << >> before it returns

moneyVars == << operation, answer >>

Values == {money(a, c) : a \in Amounts, c \in Currency}

Texts == {Decimal(n, i, f) : n \in BOOLEAN,
                             i \in BoundedSeq(Digits, MaxPlaces) \ {<< >>},
                             f \in BoundedSeq(Digits, MaxPlaces)}

Calls ==
  [op : {"multiply"}, value : Values, rounding : RoundingMode,
   ratio : [num : Numbers, den : Numbers]]
    \cup [op : {"allocate"}, value : Values, weights : Weights]
    \cup [op : {"fromMajorString"}, text : Texts, currency : Currency]
    \cup [op : {"toMajorString"}, value : Values]

MoneyInit == operation \in Calls /\ answer = << >>

Return(op, result) ==
  /\ answer = << >> /\ operation.op = op
  /\ answer' = << result >>
  /\ UNCHANGED operation

Multiply == Return("multiply", multiply(operation.value, operation.ratio, operation.rounding))
Allocate == Return("allocate", allocate(operation.value, operation.weights))
Parse    == Return("fromMajorString", fromMajorString(operation.text, operation.currency))
Render   == Return("toMajorString", toMajorString(operation.value))

MoneyNext == Multiply \/ Allocate \/ Parse \/ Render

MoneySpec == MoneyInit /\ [][MoneyNext]_moneyVars

Answered(op) == operation.op = op /\ answer # << >>

\* The invariant, for the proofs.
AnswersAreComputed ==
  /\ operation \in Calls
  /\ Answered("multiply") =>
       answer = << multiply(operation.value, operation.ratio, operation.rounding) >>
  /\ Answered("allocate") =>
       answer = << allocate(operation.value, operation.weights) >>
  /\ Answered("fromMajorString") =>
       answer = << fromMajorString(operation.text, operation.currency) >>
  /\ Answered("toMajorString") => answer = << toMajorString(operation.value) >>

(***************************************************************************)
(* What the package promises.                                              *)
(***************************************************************************)

\* How far q is from num / den, in parts of den.
distance(q, num, den) == magnitude(num - q * den)

\* The whole numbers around num / den.
Around(num, den) ==
  LET size == magnitude(num) \div magnitude(den)
  IN  {q \in -(size + 1) .. size + 1 : distance(q, num, den) < magnitude(den)}

Nearest(num, den) ==
  {q \in Around(num, den) :
     \A p \in Around(num, den) : distance(q, num, den) <= distance(p, num, den)}

Smallest(set) == CHOOSE q \in set : \A p \in set : magnitude(q) <= magnitude(p)
Largest(set)  == CHOOSE q \in set : \A p \in set : magnitude(q) >= magnitude(p)

\* Each mode, as money.ts:184-185 describes it: one of the whole numbers around
\* the quotient, chosen by its distance from it or from zero.
rounded(num, den, rounding) ==
  CASE rounding = "DOWN"      -> Smallest(Around(num, den))
    [] rounding = "UP"        -> Largest(Around(num, den))
    [] rounding = "HALF_UP"   -> Largest(Nearest(num, den))
    [] rounding = "HALF_EVEN" ->
         IF Cardinality(Nearest(num, den)) = 1 THEN Smallest(Nearest(num, den))
         ELSE CHOOSE q \in Nearest(num, den) : q % 2 = 0

\* Scaling rounds as its mode says, whatever the signs of the amount and of
\* both sides of the ratio (divideRounded normalises them by hand), and throws
\* where there is no quotient.
RoundsAsAsked ==
  Answered("multiply") =>
    IF operation.ratio.den = 0 THEN answer[1] = "InvalidRatioError"
    ELSE answer[1].amount = rounded(operation.value.amount * operation.ratio.num,
                                    operation.ratio.den, operation.rounding)

\* What allocate promises of the parts of an amount: they add up to it, each is
\* an exact share rounded one way or the other, a part of no weight gets
\* nothing, and no part gets a leftover unit before one whose share was cut by
\* more, or by as much and stands earlier.
Fair(value, weights, part) ==
  LET total   == SumOf(weights)
      cut(i)  == magnitude(value.amount * weights[i]) % total
      \* what part i got above its exact share, in parts of the total weight
      over(i) == magnitude(part[i]) * total - magnitude(value.amount * weights[i])
  IN  /\ SumOf(part) = value.amount
      /\ \A i \in DOMAIN part :
           /\ over(i) > -total /\ over(i) < total
           /\ part[i] * value.amount >= 0
           /\ weights[i] = 0 => part[i] = 0
      /\ \A i, j \in DOMAIN part :
           over(i) > 0 /\ over(j) < 0 =>
             cut(i) > cut(j) \/ (cut(i) = cut(j) /\ i < j)

\* allocate loses and invents nothing, and its parts are fair.  It throws if a
\* weight is negative or nothing has any.
SharesAreFair ==
  Answered("allocate") =>
    LET value   == operation.value
        weights == operation.weights
    IN  IF {i \in DOMAIN weights : weights[i] > 0} = {} \/ \E i \in DOMAIN weights : weights[i] < 0
          THEN answer[1] = "InvalidWeightsError"
          ELSE Fair(value, weights, [i \in DOMAIN weights |-> answer[1][i].amount])

\* A text is taken at its exact value or refused, never rounded; and the text
\* an amount is shown as is read back as that amount.
TextIsExact ==
  /\ Answered("fromMajorString") =>
       LET places == Len(operation.text.fraction)
           digits == valueOf(operation.text.integer \o operation.text.fraction)
           exact  == (IF operation.text.negative THEN -digits ELSE digits)
                        * tenTo(minorUnitExponent[operation.currency])
       IN  IF places > minorUnitExponent[operation.currency]
             THEN answer[1] = "InvalidDecimalStringError"
             ELSE answer[1] \in [amount : Int, currency : {operation.currency}]
                    /\ answer[1].amount * tenTo(places) = exact
  /\ Answered("toMajorString") =>
       fromMajorString(answer[1], operation.value.currency) = operation.value
=============================================================================
