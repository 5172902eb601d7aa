CONSTANTS
  MinTotal = 214740
  MaxTotal = 214760

SPECIFICATION Spec

INVARIANT ThresholdIsTwoThirds
