------------------------- MODULE MCUptimeChecker -------------------------
(* Model-checking instance of UptimeChecker: three accounts, so that a    *)
(* round can collect the 3 > 3 * 2/3 votes that evict a checker.          *)
EXTENDS UptimeChecker, TLC

CONSTANTS a1, a2, a3, p1

MCAccounts == {a1, a2, a3}
MCPeerIDs  == {p1}

\* Accounts are interchangeable model values.
Symmetry == Permutations(MCAccounts)
=============================================================================
