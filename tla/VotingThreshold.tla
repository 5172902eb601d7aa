-------------------------- MODULE VotingThreshold --------------------------
(***************************************************************************)
(* Actor::calculate_voting_threshold (actor.rs) in the arithmetic the     *)
(* actor is built with: usize on wasm32 is 32 bits wide, and a release    *)
(* build wraps on overflow.  TLC's integers are 32-bit signed, so a       *)
(* 32-bit unsigned value is kept as two 16-bit halves [hi, lo] and never  *)
(* materialised when it exceeds 2^31 - 1.                                 *)
(***************************************************************************)
EXTENDS Integers

THRESHOLD_NUMERATOR   == 20000
THRESHOLD_DENOMINATOR == 30000

Half == 65536  \* 2^16

\* (total * k) mod 2^32 as [hi, lo], for total < 2^31 and k < 2^15.
MulWrap32(total, k) ==
  LET lo0 == (total % Half) * k
      hi0 == (total \div Half) * k + lo0 \div Half
  IN  [hi |-> hi0 % Half, lo |-> lo0 % Half]

\* floor(([hi, lo] as a 32-bit value) / d), for 0 < d < 2^15.
DivWord32(w, d) ==
  (w.hi \div d) * Half + ((w.hi % d) * Half + w.lo) \div d

\* Variant: the ratio computed first, 20000 / 30000 = 0 in integers.
ThresholdRatioFirst(total) ==
  total * (THRESHOLD_NUMERATOR \div THRESHOLD_DENOMINATOR)

\* Variant: the threshold one lower (an off-by-one in the quorum).
ThresholdOffByOne(total) ==
  DivWord32(MulWrap32(total, THRESHOLD_NUMERATOR), THRESHOLD_DENOMINATOR) - 1

\* total * THRESHOLD_NUMERATOR / THRESHOLD_DENOMINATOR in wrapping usize.
CalculateVotingThreshold(total) ==
  DivWord32(MulWrap32(total, THRESHOLD_NUMERATOR), THRESHOLD_DENOMINATOR)

\* The reference: the largest k with 3k <= 2 * total, i.e. floor(2n/3).
TwoThirdsFloor(total) == (2 * total) \div 3
=============================================================================
