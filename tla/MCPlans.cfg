SPECIFICATION MCSpec
CONSTANTS
  USD = USD
  GTQ = GTQ
  behind = behind
  food = food
  s1 = s1
  s2 = s2
  NoCap = NoCap
  Null = Null
  Currency <- MCCurrency
  minorUnitExponent <- MCExponent
  Creation <- MCCreation
  Edit <- MCEdit
  Zone <- MCZone
  Name <- MCName
  Cap <- MCCap
  MaxNow = 1
  Submission = {s1, s2}
  Asked <- MCAsked
  Ruled <- MCRuled
  MonthLength = 2
  offset <- MCOffset
  MaxBigint = 2
  Amounts <- MCAmounts
  Numbers <- MCNumbers
  Weights <- MCWeights
  Digits <- MCDigits
  MaxPlaces = 3
INVARIANTS
  VersionsAreGapless
  RecurringKeepsTheCap
  RoundsAsAsked
  SharesAreFair
  TextIsExact
SYMMETRY Symmetric
CHECK_DEADLOCK FALSE
