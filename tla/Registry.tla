------------------------------ MODULE Registry ------------------------------
(***************************************************************************)
(* What the uptime-checker registry promises, without HAMTs, payloads or  *)
(* time: sets of member and checker accounts that only their owners join  *)
(* and leave, and offline rounds (sets of voters) through which checkers  *)
(* may evict a checker.  Every step is a call by one account, `caller`;   *)
(* a call that changes no set (an error, an edit, a repeated upsert) is   *)
(* Reject.  A report either restarts the round with the reporter or adds  *)
(* the reporter to it; which one is left open, since that depends on the  *)
(* voting window.                                                          *)
(*                                                                         *)
(* The callers allowed for each method are those the doc comments of      *)
(* traits.rs give.  Two further promises there are left out, because the  *)
(* code does not keep them and runs of their own show it: the eviction    *)
(* quorum is the one actor.rs computes from the init-time count (not 2/3  *)
(* of the current checkers), and departed voters still count.  Peer-id    *)
(* uniqueness (new_checker doc) is not stated: records are keyed by their  *)
(* creator, and payloads are one abstract value.                          *)
(***************************************************************************)
EXTENDS Integers, FiniteSets, Functions, TLC, VotingThreshold

CONSTANTS
  Accounts,      (* account identities                                   *)
  MaxInitNodes,  (* bound on the number of initial checker nodes         *)
  NoCaller       (* the caller before any call                           *)

VARIABLES
  live,        (* the registry has been deployed                          *)
  memberSet,   (* accounts that have a member record                      *)
  checkerSet,  (* accounts that have a checker record                     *)
  rounds,      (* reported account -> accounts counted in its round       *)
  total,       (* the checker count fixed at deployment                   *)
  caller       (* the account that made the last call                     *)

regvars == <<live, memberSet, checkerSet, rounds, total, caller>>

Voters(c) == IF c \in DOMAIN rounds THEN rounds[c] ELSE {}

Init ==
  /\ live = FALSE
  /\ memberSet = {}
  /\ checkerSet = {}
  /\ rounds = [c \in {} |-> {}]
  /\ total = 0
  /\ caller = NoCaller

\* init (any account; only from Uninitialized, spec.md 4.4): n initial
\* nodes owned by the accounts in cs.
Deploy(a) ==
  /\ ~live
  /\ \E n \in 0..MaxInitNodes, cs \in SUBSET Accounts :
       /\ (cs = {}) = (n = 0)
       /\ Cardinality(cs) <= n
       /\ checkerSet' = cs
       /\ total' = n
  /\ live' = TRUE
  /\ memberSet' = {}
  /\ rounds' = [c \in {} |-> {}]
  /\ caller' = a

\* new_member / new_checker (any account; the owner is the message
\* signer): the caller registers itself.
JoinMembers(a) ==
  /\ live
  /\ memberSet' = memberSet \cup {a}
  /\ caller' = a
  /\ UNCHANGED <<live, checkerSet, rounds, total>>

JoinCheckers(a) ==
  /\ live
  /\ checkerSet' = checkerSet \cup {a}
  /\ caller' = a
  /\ UNCHANGED <<live, memberSet, rounds, total>>

\* rm_member / rm_checker (owner only): the caller removes its own record.
LeaveMembers(a) ==
  /\ live
  /\ a \in memberSet
  /\ memberSet' = memberSet \ {a}
  /\ caller' = a
  /\ UNCHANGED <<live, checkerSet, rounds, total>>

LeaveCheckers(a) ==
  /\ live
  /\ a \in checkerSet
  /\ checkerSet' = checkerSet \ {a}
  /\ caller' = a
  /\ UNCHANGED <<live, memberSet, rounds, total>>

\* report_checker (checkers only): a checker not yet counted in c's round
\* reports c offline.  The round restarts with the voter or grows by the
\* voter; c may be evicted only if the round then holds more than the
\* threshold of the deployed count of voters.
Report(voter, c) ==
  /\ live
  /\ voter \in checkerSet
  /\ voter \notin Voters(c)
  /\ \E vs \in {{voter}, Voters(c) \cup {voter}} :
       /\ rounds' = (c :> vs) @@ rounds
       /\ \/ checkerSet' = checkerSet
          \/ /\ Cardinality(vs) > CalculateVotingThreshold(total)
             /\ checkerSet' = checkerSet \ {c}
  /\ caller' = voter
  /\ UNCHANGED <<live, memberSet, total>>

\* A call by a that changes no set and no round.
Reject(a) ==
  /\ caller' = a
  /\ UNCHANGED <<live, memberSet, checkerSet, rounds, total>>

Next ==
  \E a \in Accounts :
    \/ Deploy(a)
    \/ JoinMembers(a) \/ JoinCheckers(a)
    \/ LeaveMembers(a) \/ LeaveCheckers(a)
    \/ \E c \in Accounts : Report(a, c)
    \/ Reject(a)

Spec == Init /\ [][Next]_regvars
=============================================================================
