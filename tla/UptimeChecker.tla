--------------------------- MODULE UptimeChecker ---------------------------
(***************************************************************************)
(* The uptime-checker FVM actor (src/fvm-actor/src): the HamtState        *)
(* registry of members, checkers and offline-vote rounds, and the eight   *)
(* methods of Actor<HamtState> that lib.rs::invoke dispatches to.          *)
(*                                                                         *)
(* The host runs one invocation at a time and commits the state root only *)
(* when a method returns Ok (HamtState::save is its last step), so every  *)
(* method is one atomic action: on an error it changes nothing but the    *)
(* observable result.  A HAMT keyed by the decimal string of an ActorID   *)
(* is a partial function from accounts (to_string is injective on u64).   *)
(* NodeInfoPayload {id, addresses} is abstracted to one value of PeerIDs. *)
(***************************************************************************)
EXTENDS Integers, SequencesExt, VotingThreshold

CONSTANTS
  Accounts,                (* ActorIDs that call the actor or are reported *)
  PeerIDs,                 (* abstract node payloads (peer id, addresses)  *)
  DurationParams,          (* values of InitParams.voting_duration         *)
  None,                    (* InitParams.voting_duration = None            *)
  DEFAULT_VOTING_DURATION, (* hamt_state.rs: 200 epochs                    *)
  MaxInitNodes,            (* bound on the length of InitParams.ids        *)
  MaxEpoch,                (* bound on fvm_sdk::network::curr_epoch        *)
  ReInit,                  (* whether init is also called on a live actor  *)
  FailingMethods           (* methods whose aborts (decode, storage) occur *)

ASSUME MaxInitNodes \in Nat /\ MaxEpoch \in Nat /\ ReInit \in BOOLEAN
ASSUME FailingMethods \subseteq {"init", "new_checker", "new_member",
          "edit_checker", "edit_member", "rm_checker", "rm_member",
          "report_checker"}
ASSUME DurationParams \subseteq Int \cup {None} /\ DEFAULT_VOTING_DURATION \in Int

Methods == {"init", "new_checker", "new_member", "edit_checker",
            "edit_member", "rm_checker", "rm_member", "report_checker"}
Codes   == {"Ok", "NotOwner", "NotExists", "NotCaller", "AlreadyVoted",
            "NoState", "CannotDeserialize", "Storage"}

\* Methods whose parameters are decoded by parse_params_or_abort.
MethodsWithParams == Methods \ {"rm_checker", "rm_member"}

VARIABLES
  initialized,      (* the actor has a state root (init has run)          *)
  members,          (* HamtState.members: ActorID -> NodeInfo             *)
  checkers,         (* HamtState.checkers: ActorID -> NodeInfo            *)
  offline_checkers, (* HamtState.offline_checkers: ActorID -> Votes       *)
  total_checkers,   (* HamtState.total_checkers                           *)
  voting_duration,  (* HamtState.voting_duration                          *)
  epoch,            (* curr_epoch supplied by the host                    *)
  result            (* method, caller and exit code of the last call      *)

state == <<initialized, members, checkers, offline_checkers, total_checkers,
           voting_duration>>
vars  == <<state, epoch, result>>

EmptyMap == [a \in {} |-> a]

(***************************************************************************)
(* types.rs: NodeInfo and Votes.                                           *)
(***************************************************************************)
NodeInfo == [id : PeerIDs, creator : Accounts]

\* NodeInfo::from stamps the caller as creator of a payload.
NodeInfoFrom(p, caller) == [id |-> p, creator |-> caller]

NewVotes(e) == [last_vote |-> e, votes |-> <<>>]

\* Variants of Votes::has_voted: the check dropped, or only the latest
\* voter compared.
HasVotedDropped(v, p) == FALSE
HasVotedLast(v, p) == v.votes # <<>> /\ Last(v.votes) = p

HasVoted(v, p) == p \in ToSet(v.votes)

\* Variant: within_threshold returning what its name says.
WithinThresholdNegated(v, e, t) == ~(v.last_vote + t < e)

\* Votes::within_threshold: TRUE when the round is OLDER than the window.
WithinThreshold(v, e, t) == v.last_vote + t < e

Vote(v, p) == [v EXCEPT !.votes = Append(@, p)]

TotalVotes(v) == Len(v.votes)

(***************************************************************************)
(* HAMT map operations (set, delete) as functions over their key set.     *)
(***************************************************************************)
MapSet(map, k, v) == (k :> v) @@ map

MapDelete(map, k) == Restrict(map, DOMAIN map \ {k})

(***************************************************************************)
(* hamt_state.rs helpers: each returns the Result of the Rust function as *)
(* a record [code, map]; the map is unchanged when code # "Ok".           *)
(***************************************************************************)
EnsureOwner(n, caller) == caller = n.creator

Upsert(map, node, caller) ==
  LET n == IF node.creator \in DOMAIN map THEN map[node.creator] ELSE node
  IN  IF EnsureOwner(n, caller)
        THEN [code |-> "Ok", map |-> MapSet(map, node.creator, node)]
        ELSE [code |-> "NotOwner", map |-> map]

RemoveOwned(map, id, caller) ==
  IF id \notin DOMAIN map THEN [code |-> "NotExists", map |-> map]
  ELSE IF ~EnsureOwner(map[id], caller) THEN [code |-> "NotOwner", map |-> map]
  ELSE [code |-> "Ok", map |-> MapDelete(map, id)]

\* HamtState::new: one checker per node keyed by its creator, later nodes
\* overwriting earlier ones; total_checkers counts the nodes.
NewCheckerMap(nodes) ==
  FoldLeft(LAMBDA m, n : MapSet(m, n.creator, n), EmptyMap, nodes)

\* Variant: is_checker looking in the members map.
IsCheckerMember(a) == a \in DOMAIN members

IsChecker(a) == a \in DOMAIN checkers

\* HamtState::remove_node / remove_checker: remove on the members or the
\* checkers map.
RemoveNode(id, caller)    == RemoveOwned(members, id, caller)
RemoveChecker(id, caller) == RemoveOwned(checkers, id, caller)

\* HamtState::remove_checker_unchecked: delete without the owner check
\* (deleting an absent key is not an error).
RemoveCheckerUnchecked(map, id) == MapDelete(map, id)

HasVotedIn(reported, voter) ==
  reported \in DOMAIN offline_checkers
  /\ HasVoted(offline_checkers[reported], voter)

\* HamtState::record_voted: [code, count, map] for the offline round map.
RecordVoted(reported, voter) ==
  LET fresh == Vote(NewVotes(epoch), voter)
      v     == offline_checkers[reported]
  IN  IF reported \notin DOMAIN offline_checkers
        THEN [code |-> "Ok", count |-> 1,
              map |-> MapSet(offline_checkers, reported, fresh)]
      ELSE IF ~WithinThreshold(v, epoch, voting_duration)
        THEN [code |-> "Ok", count |-> 0,
              map |-> MapSet(offline_checkers, reported, fresh)]
      ELSE IF HasVoted(v, voter)
        THEN [code |-> "AlreadyVoted", count |-> 0, map |-> offline_checkers]
      ELSE [code |-> "Ok", count |-> TotalVotes(Vote(v, voter)),
            map |-> MapSet(offline_checkers, reported, Vote(v, voter))]

Return(method, caller, code) ==
  result' = [method |-> method, caller |-> caller, code |-> code]

(***************************************************************************)
(* Methods (actor.rs), dispatched by lib.rs::invoke.                       *)
(***************************************************************************)

\* Actor::init with InitParams describing `nodes`.  Method 1 is dispatched
\* to every caller, also once a state root exists.  Parameter vectors of
\* unequal length either abort (index out of bounds) or are truncated to
\* ids.len(), so a well-formed sequence of nodes covers every commit.
\* ReInit = FALSE scopes a model to a single deployment.
InitMethod(caller) ==
  /\ ReInit \/ ~initialized
  /\ \E n \in 0..MaxInitNodes, d \in DurationParams :
     \E nodes \in [1..n -> NodeInfo] :
       /\ initialized'      = TRUE
       /\ members'          = EmptyMap
       /\ checkers'         = NewCheckerMap(nodes)
       /\ offline_checkers' = EmptyMap
       /\ total_checkers'   = n
       /\ voting_duration'  = IF d = None THEN DEFAULT_VOTING_DURATION ELSE d
  /\ Return("init", caller, "Ok")
  /\ UNCHANGED epoch

\* Any other method before init: S::load finds no state and aborts.
LoadFails(method, caller) ==
  /\ ~initialized
  /\ method # "init"
  /\ Return(method, caller, "NoState")
  /\ UNCHANGED <<state, epoch>>

\* util.rs::parse_params_or_abort: a payload that does not decode aborts
\* with CannotDeserialize before the state is loaded.
DecodeFails(method, caller) ==
  /\ method \in MethodsWithParams
  /\ Return(method, caller, "CannotDeserialize")
  /\ UNCHANGED <<state, epoch>>

\* A HAMT, blockstore or encoding error (error.rs From conversions) aborts
\* a method of a live actor; the host drops every change, including maps
\* already flushed, because the root is set only by the final save.
StorageFails(method, caller) ==
  /\ initialized
  /\ Return(method, caller, "Storage")
  /\ UNCHANGED <<state, epoch>>

\* invoke: a method number outside 1..8 returns Ok without any effect.
UnknownMethod(caller) ==
  /\ Return("other", caller, "Ok")
  /\ UNCHANGED <<state, epoch>>

\* HamtState::upsert_checker / upsert_node inside a method that loads the
\* state, upserts the caller's record built from payload p and saves.
UpsertCheckerMethod(method, caller, p) ==
  LET r == Upsert(checkers, NodeInfoFrom(p, caller), caller)
  IN  /\ initialized
      /\ checkers' = r.map
      /\ Return(method, caller, r.code)
      /\ UNCHANGED <<initialized, members, offline_checkers, total_checkers,
                     voting_duration, epoch>>

UpsertNodeMethod(method, caller, p) ==
  LET r == Upsert(members, NodeInfoFrom(p, caller), caller)
  IN  /\ initialized
      /\ members' = r.map
      /\ Return(method, caller, r.code)
      /\ UNCHANGED <<initialized, checkers, offline_checkers, total_checkers,
                     voting_duration, epoch>>

\* Actor::new_checker and Actor::edit_checker run the same code.
NewChecker(caller, p)  == UpsertCheckerMethod("new_checker", caller, p)
EditChecker(caller, p) == UpsertCheckerMethod("edit_checker", caller, p)

\* Actor::new_member and Actor::edit_member run the same code.
NewMember(caller, p)  == UpsertNodeMethod("new_member", caller, p)
EditMember(caller, p) == UpsertNodeMethod("edit_member", caller, p)

\* Actor::rm_checker: the caller removes their own checker record.
RmChecker(caller) ==
  LET r == RemoveChecker(caller, caller)
  IN  /\ initialized
      /\ checkers' = r.map
      /\ Return("rm_checker", caller, r.code)
      /\ UNCHANGED <<initialized, members, offline_checkers, total_checkers,
                     voting_duration, epoch>>

\* Actor::rm_member: the caller removes their own member record.
RmMember(caller) ==
  LET r == RemoveNode(caller, caller)
  IN  /\ initialized
      /\ members' = r.map
      /\ Return("rm_member", caller, r.code)
      /\ UNCHANGED <<initialized, checkers, offline_checkers, total_checkers,
                     voting_duration, epoch>>

\* Actor::report_checker(ReportPayload { checker: reported }).
ReportChecker(caller, reported) ==
  /\ initialized
  /\ \/ /\ ~IsChecker(caller)
        /\ Return("report_checker", caller, "NotCaller")
        /\ UNCHANGED <<state, epoch>>
     \/ /\ IsChecker(caller)
        /\ HasVotedIn(reported, caller)
        /\ Return("report_checker", caller, "AlreadyVoted")
        /\ UNCHANGED <<state, epoch>>
     \/ /\ IsChecker(caller)
        /\ ~HasVotedIn(reported, caller)
        /\ LET r == RecordVoted(reported, caller)
               evict == r.code = "Ok" /\
                        CalculateVotingThreshold(total_checkers) < r.count
           IN  /\ offline_checkers' = r.map
               /\ checkers' = IF evict
                               THEN RemoveCheckerUnchecked(checkers, reported)
                               ELSE checkers
               /\ Return("report_checker", caller, r.code)
        /\ UNCHANGED <<initialized, members, total_checkers, voting_duration,
                       epoch>>

\* The chain advances: curr_epoch is non-decreasing between invocations.
AdvanceEpoch ==
  /\ epoch < MaxEpoch
  /\ epoch' = epoch + 1
  /\ UNCHANGED <<state, result>>

Init ==
  /\ initialized      = FALSE
  /\ members          = EmptyMap
  /\ checkers         = EmptyMap
  /\ offline_checkers = EmptyMap
  /\ total_checkers   = 0
  /\ voting_duration  = DEFAULT_VOTING_DURATION
  /\ epoch            = 0
  /\ result           = [method |-> "none", caller |-> None, code |-> "Ok"]

Next ==
  \/ AdvanceEpoch
  \/ \E a \in Accounts :
       \/ InitMethod(a)
       \/ \E m \in Methods : LoadFails(m, a)
       \/ \E m \in FailingMethods : DecodeFails(m, a)
       \/ \E m \in FailingMethods : StorageFails(m, a)
       \/ UnknownMethod(a)
       \/ \E p \in PeerIDs : NewChecker(a, p)
       \/ \E p \in PeerIDs : NewMember(a, p)
       \/ \E p \in PeerIDs : EditChecker(a, p)
       \/ \E p \in PeerIDs : EditMember(a, p)
       \/ RmChecker(a)
       \/ RmMember(a)
       \/ \E c \in Accounts : ReportChecker(a, c)

Spec == Init /\ [][Next]_vars

\* result is written by every method and read by none, so states that
\* differ only in result have the same successors.
StateView == <<state, epoch>>

(***************************************************************************)
(* Invariants and properties.                                              *)
(***************************************************************************)

Epochs == 0..MaxEpoch

VotesType == [last_vote : Epochs,
              votes : BoundedSeq(Accounts, Cardinality(Accounts))]

\* f is a HAMT from account keys to values of T.
IsMapOf(f, T) == DOMAIN f \subseteq Accounts /\ \A k \in DOMAIN f : f[k] \in T

TypeOK ==
  /\ initialized \in BOOLEAN
  /\ IsMapOf(members, NodeInfo)
  /\ IsMapOf(checkers, NodeInfo)
  /\ IsMapOf(offline_checkers, VotesType)
  /\ total_checkers \in 0..MaxInitNodes
  /\ voting_duration \in (DurationParams \ {None}) \cup {DEFAULT_VOTING_DURATION}
  /\ epoch \in Epochs
  /\ result.method \in Methods \cup {"none", "other"}
  /\ result.code \in Codes

\* Sybil resistance of the vote count: an account is counted at most once
\* in a report round, however often it reports, leaves and re-registers
\* (Actor::report_checker and HamtState::record_voted check has_voted).
NoDuplicateVoter ==
  \A c \in DOMAIN offline_checkers : IsInjective(offline_checkers[c].votes)

\* The quorum the spec asks of an eviction: more than two thirds of n.
MoreThanTwoThirds(k, n) == 3 * k > 2 * n

\* A checker record disappears only by its owner's rm_checker, by a fresh
\* init, or by a report_checker after which more than two thirds of
\* total_checkers distinct accounts stand in its offline round
\* (Actor::report_checker, HamtState::remove_checker_unchecked).
CheckerRemovalAuthorized ==
  [][\A c \in DOMAIN checkers \ DOMAIN checkers' :
       \/ result'.method = "rm_checker" /\ result'.caller = c
       \/ result'.method = "init"
       \/ /\ result'.method = "report_checker"
          /\ MoreThanTwoThirds(Cardinality(ToSet(offline_checkers'[c].votes)),
                               total_checkers)]_vars

(***************************************************************************)
(* Refinement: the actor implements the abstract Registry, whose sets are *)
(* the key sets of the HAMTs and whose rounds are the voters of a Votes.  *)
(***************************************************************************)
Reg == INSTANCE Registry WITH
         live       <- initialized,
         memberSet  <- DOMAIN members,
         checkerSet <- DOMAIN checkers,
         rounds     <- [c \in DOMAIN offline_checkers |->
                          ToSet(offline_checkers[c].votes)],
         total      <- total_checkers,
         caller     <- result.caller,
         NoCaller   <- None

\* Every behaviour of the actor (deployed once) is one of the registry's:
\* a record appears or disappears only in a call by its owner (or, for a
\* checker, in a report by a checker), only checkers vote, each once per
\* round, and an eviction follows a round of more than the threshold.
RegistryRefinement == Reg!Spec

(***************************************************************************)
(* What spec.md and the doc comments of traits.rs say of report_checker   *)
(* and init; the code does otherwise (see README, findings).              *)
(***************************************************************************)

\* spec.md 4.3: a round is stale when last_vote + window < now.
SpecStale(v) == v.last_vote + voting_duration < epoch

\* A successful report into a live (not stale) round adds the caller's
\* vote to it (spec.md 4.3 step 3, and the end-to-end example of 8).
LiveRoundAccumulates ==
  [][result'.method = "report_checker" /\ result'.code = "Ok" =>
       \A c \in DOMAIN offline_checkers :
         offline_checkers'[c] # offline_checkers[c]
         /\ ~SpecStale(offline_checkers[c])
         => offline_checkers'[c].votes
              = Append(offline_checkers[c].votes, result'.caller)]_vars

\* A successful report leaves the round's last_vote at the current epoch
\* (spec.md 4.3: "update last_vote = now"; Votes.last_vote doc comment).
LastVoteRefreshed ==
  [][result'.method = "report_checker" /\ result'.code = "Ok" =>
       \A c \in DOMAIN offline_checkers' :
         \/ c \notin DOMAIN offline_checkers
         \/ offline_checkers'[c] # offline_checkers[c]
         => offline_checkers'[c].last_vote = epoch]_vars

\* An eviction counts only voters that are still checkers (traits.rs,
\* report_checker doc: "a sanity-check is performed verifying that the
\* voters are still in the checkers list").
EvictionVotersStillCheckers ==
  [][result'.method = "report_checker" =>
       \A c \in DOMAIN checkers \ DOMAIN checkers' :
         MoreThanTwoThirds(Cardinality(ToSet(offline_checkers'[c].votes)
                                         \cap DOMAIN checkers),
                           total_checkers)]_vars

\* An eviction needs votes from more than two thirds of the checkers
\* registered when it happens (traits.rs: "removes PeerID from checkers
\* if the number of votes > 2/3 checkers").
EvictionQuorumOfCurrentCheckers ==
  [][result'.method = "report_checker" =>
       \A c \in DOMAIN checkers \ DOMAIN checkers' :
         MoreThanTwoThirds(Cardinality(ToSet(offline_checkers'[c].votes)),
                           Cardinality(DOMAIN checkers))]_vars

\* total_checkers is the size of the checker set at init (spec.md 3: "a
\* scalar snapshot of checker-set size").
TotalIsCheckerCount ==
  [][result'.method = "init" =>
       total_checkers' = Cardinality(DOMAIN checkers')]_vars

\* A member record leaves the registry only by its owner's rm_member
\* (traits.rs: "Only the owner of the PeerID is allowed to remove
\* themselves from the list").
MemberRemovedOnlyByOwner ==
  [][\A a \in DOMAIN members \ DOMAIN members' :
       result'.method = "rm_member" /\ result'.caller = a]_vars

=============================================================================
