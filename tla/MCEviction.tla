----------------------------- MODULE MCEviction -----------------------------
(***************************************************************************)
(* One offline checker and the checkers that report it.  After an init    *)
(* that registers one checker per account, the reporters call             *)
(* report_checker against Target while the chain advances; nobody joins,  *)
(* leaves or re-inits.  The environment is restricted to this scenario so *)
(* that a liveness counterexample cannot blame a voter that left.         *)
(***************************************************************************)
EXTENDS UptimeChecker

CONSTANTS a1, a2, a3, a4, p1

MCAccounts == {a1, a2, a3, a4}
MCPeerIDs  == {p1}

\* A voting_duration of -1: InitParams takes any i64 unchecked.
MCNegativeWindow == {-1}

\* The checker that has gone offline, and the checkers that watch it.
Target    == a4
Reporters == Accounts \ {Target}

\* The state Actor::init commits for InitParams naming one node per account
\* (creators a1..a4, payload p1) and any voting_duration of DurationParams.
EvictionInit ==
  /\ initialized      = TRUE
  /\ members          = EmptyMap
  /\ checkers         = [a \in Accounts |-> NodeInfoFrom(p1, a)]
  /\ offline_checkers = EmptyMap
  /\ total_checkers   = Cardinality(Accounts)
  /\ voting_duration \in {IF d = None THEN DEFAULT_VOTING_DURATION ELSE d :
                            d \in DurationParams}
  /\ epoch            = 0
  /\ result           = [method |-> "init", caller |-> a1, code |-> "Ok"]

EvictionNext ==
  \/ AdvanceEpoch
  \/ \E a \in Reporters : ReportChecker(a, Target)

\* A report that the actor accepts (the caller is a checker and not yet in
\* the current round).
ReportOk(a, c) == ReportChecker(a, c) /\ result'.code = "Ok"

\* Reporters are diligent: a reporter whose report would be accepted
\* eventually sends it.  The chain keeps producing epochs up to MaxEpoch.
Fairness ==
  /\ \A a \in Reporters : WF_vars(ReportOk(a, Target))
  /\ WF_vars(AdvanceEpoch)

EvictionSpec == EvictionInit /\ [][EvictionNext]_vars /\ Fairness

\* A checker that more than two thirds of the checkers keep reporting
\* offline is eventually removed from the checkers HAMT (traits.rs doc of
\* report_checker; spec.md 8, end-to-end example).
TargetEventuallyEvicted == <>(Target \notin DOMAIN checkers)
=============================================================================
