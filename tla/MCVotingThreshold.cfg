CONSTANTS
  MinTotal = 0
  MaxTotal = 214748

SPECIFICATION Spec

INVARIANT ThresholdIsTwoThirds
