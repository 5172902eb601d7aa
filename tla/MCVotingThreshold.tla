------------------------ MODULE MCVotingThreshold ------------------------
(* Evaluates calculate_voting_threshold on every total of a range of     *)
(* checker counts: each state is one input.                               *)
EXTENDS VotingThreshold

CONSTANTS MinTotal, MaxTotal

VARIABLE total

Init == total \in MinTotal..MaxTotal
Next == UNCHANGED total
Spec == Init /\ [][Next]_total

\* The quorum threshold is two thirds of the checkers, rounded down, as
\* the comment of Actor::calculate_voting_threshold says ("the ratio is
\* 0.67"): report_checker evicts on more than this many votes.
ThresholdIsTwoThirds ==
  CalculateVotingThreshold(total) = TwoThirdsFloor(total)
=============================================================================
