# TLA+ model of the uptime-checker FVM actor

This directory holds TLA+ models of `src/fvm-actor`, the FVM actor that keeps
a registry of *members* (nodes whose liveness is monitored), *checkers*
(accounts allowed to report nodes offline), and *offline rounds* (votes that
evict a checker reported offline by a quorum of checkers). The models are
checked with TLC.

## 1. Inventory

### Components

| Component | Source | State | Operations |
|---|---|---|---|
| Actor protocol handlers | `actor.rs`, `lib.rs`, `traits.rs` | none of its own | `init`, `new_checker`, `new_member`, `edit_checker`, `edit_member`, `rm_checker`, `rm_member`, `report_checker`, dispatched by method number in `lib.rs::invoke` |
| Registry state `HamtState` | `hamt_state.rs` | `members`, `checkers` (HAMT ActorID→NodeInfo), `offline_checkers` (HAMT ActorID→Votes), `total_checkers`, `voting_duration` | `new`, `upsert`, `remove`, `is_checker`, `remove_checker_unchecked`, `has_voted`, `record_voted`, `load`, `save` |
| Entity model | `types.rs` | `NodeInfo {id, creator, addresses}`, `Votes {last_vote, votes}` | `NodeInfo::from` (stamps the caller as creator), `Votes::{new, has_voted, within_threshold, vote, total_votes}` |
| Error taxonomy | `error.rs` | none | `Error::code`, `Error::msg` |
| Persistent map adapter | `blockstore.rs` | IPLD blocks | `put`, `get`, `make_empty_map`, `get_map_from_cid` |
| Parameter decoding | `util.rs` | none | `parse_params_or_abort` |
| Voting threshold | `actor.rs` | none | `calculate_voting_threshold` |

### How they interact

The host calls `invoke` once per message, one message at a time. Every method
other than `init` first loads the state from the actor's root CID. It then
calls one or two `HamtState` operations, and finally saves the state and sets
the new root. Each `HamtState` operation loads a HAMT from its CID, changes
it, and flushes it back to a new CID. An error anywhere aborts the message,
and the host discards everything, because the root is set only by the final
`save`. The caller identity (`message::caller`) and the epoch
(`network::curr_epoch`) come from the host.

### What is hard

There is no concurrency inside the actor. What is hard is the *protocol*:
- long sequences of calls by several accounts (register, vote, leave, rejoin,
  re-init);
- the voting window, i.e. the time between votes measured against
  `voting_duration`;
- the quorum arithmetic (`total * 20000 / 30000`, truncated) against a
  `total_checkers` snapshot.

### What makes each component correct

- **Handlers and registry:**
  - a record is created, changed or removed only by its owner;
  - the only exception is eviction, which needs more than 2/3 of the checkers
    to vote;
  - `init` happens once.
- **Offline rounds:**
  - every account is counted at most once per round;
  - votes inside the window accumulate, and a stale round restarts;
  - `last_vote` follows the latest vote;
  - only current checkers' votes count (`traits.rs` doc of `report_checker`).

The hazards that tests would hardly reach are listed, each at its line, under
`hazards` in `PROJECT.json`.

## 2. Modules

### `UptimeChecker.tla`: the whole actor

**Variables:**
- `initialized`: a state root exists.
- `members`, `checkers`, `offline_checkers`: partial functions from accounts.
  A HAMT keyed by `ActorID::to_string` is a map keyed by the account, because
  the decimal string is injective.
- `total_checkers` and `voting_duration`.
- `epoch`: the host's `curr_epoch`.
- `result`: method, caller and exit code of the last call. This is what the
  host sees of a call: Ok or an abort code.

**Abstraction:** a `NodeInfoPayload` (peer id plus addresses) is one value of
`PeerIDs`.

**Actions:** each method is one atomic action:
- `InitMethod` for `Actor::init` with `HamtState::new`;
- `NewChecker`, `EditChecker`, `NewMember` and `EditMember`, which all go
  through `Upsert`;
- `RmChecker` and `RmMember`, which go through `RemoveOwned`;
- `ReportChecker`, with its `NotCaller` and `AlreadyVoted` disjuncts and the
  `RecordVoted` / eviction path;
- `LoadFails`, for any method called before `init`;
- `DecodeFails`, for a payload that `parse_params_or_abort` rejects
  (`CannotDeserialize`); `rm_checker` and `rm_member` take no payload;
- `StorageFails`, for a blockstore or HAMT error wrapped by the `From`
  impls of `error.rs` (one code, `Storage`); the abort discards the call;
- `UnknownMethod`, for a method number other than 1..8, which returns Ok.

`AdvanceEpoch` is the host's clock.

**Helpers:** `RecordVoted`, `Upsert`, `RemoveOwned` and `NewCheckerMap` return
the Rust `Result` as a record `[code, map, ...]`. They translate their
functions branch by branch, including the paths that cannot be reached:
- `ensure_owner` in `upsert` never fails, because the key is the caller's own
  account;
- the `AlreadyVoted` check inside `record_voted` never fires, because
  `report_checker` checks first.

**The constant `ReInit`:**
- `lib.rs` lets any account call method 1 on a live actor.
- `ReInit = TRUE` models exactly that.
- `ReInit = FALSE` scopes a run to one deployment, so that the other
  properties are not drowned by resets. This is the setting for every run
  except `reinit`.

**The constant `FailingMethods`:** the methods for which `DecodeFails` and
`StorageFails` are enumerated. Both leave the state unchanged, so one method
(`report_checker`) suffices to show that an abort commits nothing; listing all
eight only multiplies the transitions.

**Refinement:** `Reg == INSTANCE Registry WITH live <- initialized,
memberSet <- DOMAIN members, checkerSet <- DOMAIN checkers, rounds <- the
voter set of each round, total <- total_checkers, caller <- result.caller`,
and `RegistryRefinement == Reg!Spec` is checked as a property. Because the
caller of each step is mapped, the refinement fails if any call writes or
removes a record other than the caller's own (checker removal by a report
aside).

**`MCUptimeChecker.tla`:**
- three accounts `a1, a2, a3`, which are a symmetry set;
- one payload `p1`.

### `Registry.tla`: what the registry promises

An abstract specification without HAMTs, payloads or time. Its variables are
the set of member accounts, the set of checker accounts, the voter set of
each offline round, the deployed checker count and `caller`, the account
that made the last call. Every step is a call by one account; a call that
changes no set or round (an abort, an edit, a repeated upsert) is `Reject`.
An account joins and leaves only itself. A report by a checker not yet in the round either
restarts the round with the reporter or adds the reporter (which one the
voting window decides, and the abstraction leaves open). A checker leaves
the set by a report only if the round then holds more voters than
`CalculateVotingThreshold(total)`.

The callers allowed for each method are those the doc comments of
`traits.rs` give. Three other promises there are left out:
- the quorum over the *current* checkers: the code uses the init-time count;
- not counting votes of departed checkers: the code counts them;
- peer-id uniqueness (`traits.rs:20-22`).

The first two are left out because the `current_quorum` and
`departed_voters` runs show that the code breaks them.

### `VotingThreshold.tla` and `MCVotingThreshold.tla`

`calculate_voting_threshold` as the wasm32 build computes it: the product
`total * 20000` wraps modulo 2^32. It is computed in two 16-bit limbs
(`MulWrap32`, `DivWord32`), because TLC's integers are 32-bit signed.
`MCVotingThreshold` fixes `total` in `MinTotal..MaxTotal` and compares the
result with `TwoThirdsFloor(total) = (2*total) \div 3`.

### `MCEviction.tla`: diligent reporters against one offline checker

It extends `UptimeChecker` with four accounts and starts in the state that
`init` commits for one node per account (`total_checkers = 4`, threshold 2,
so three votes evict). Its `EvictionNext` allows only two kinds of step:
- `AdvanceEpoch`;
- `ReportChecker(a, a4)` by the reporters a1..a3.

Nobody joins, leaves or re-inits, so a liveness counterexample cannot be
blamed on a voter that left. `Fairness` puts weak fairness on each accepted
report (`ReportOk`) and on the clock. `TargetEventuallyEvicted` says the
offline checker a4 eventually leaves `checkers`.

### `Blockstore.tla` and `MCBlockstore.tla`: the IPLD block store

`blockstore.rs` is modelled over the host's block store `blocks` (CID to
data) and the answer `ret` of the last call. A CID's digest is the pair
`<<hash code, data>>`, which is injective as a collision-free hash is.
- `IpldPut` is the `ipld::put` syscall. It accepts the codes in
  `SyscallCodes`.
- `Put` is `Blockstore::put`.
- `PutKeyed` is `Blockstore::put_keyed`:
  - it rejects a code that `Code::try_from` does not know;
  - it puts the block;
  - it returns an error if the host's CID is not the key the caller named.
    The block stays stored even then.
- `Get` is `Blockstore::get`. It never answers `Ok(None)`.

`MCBlockstore` has two blocks and two codecs, and three hash codes:
- one code the syscall accepts;
- one the crate knows but the syscall rejects;
- one the crate does not know.

Callers may name any CID, matching or not.

### Runs

| Run | cfg | Expect | What it shows |
|---|---|---|---|
| registry | MCUptimeChecker.cfg | pass | `TypeOK`; `NoDuplicateVoter` (no account twice in a round, however it leaves and rejoins); `CheckerRemovalAuthorized` (a checker disappears only by its own `rm_checker`, by `init`, or by a report after which more than 2/3 of `total_checkers` distinct accounts stand in its round); `RegistryRefinement` (every behaviour, aborts included, is one of `Registry`) |
| live_round | MCLiveRound.cfg | violation | `LiveRoundAccumulates`: two reports in the same epoch leave only the second vote |
| last_vote | MCLastVote.cfg | violation | `LastVoteRefreshed`: an appended vote leaves `last_vote` at the round's start |
| departed_voters | MCVotersStillCheckers.cfg | violation | `EvictionVotersStillCheckers`: a voter who left still counts |
| current_quorum | MCCurrentQuorum.cfg | violation | `EvictionQuorumOfCurrentCheckers`: 1 vote of 2 current checkers evicts when `total_checkers` = 1 |
| reinit | MCReInit.cfg | violation | `MemberRemovedOnlyByOwner`: any account's `init` wipes every member |
| total_checkers | MCTotalCheckers.cfg | violation | `TotalIsCheckerCount`: `init` with two nodes of one creator gives one checker and `total_checkers = 2` |
| eviction_livelock | MCEvictionLivelock.cfg | violation | `TargetEventuallyEvicted` with window 1: at epoch 2 the three reporters reset each other's round for ever |
| negative_window | MCEvictionNegativeWindow.cfg | pass | `TargetEventuallyEvicted` with window -1: no round ever resets, so the reporters always evict |
| blockstore | MCBlockstore.cfg | pass | `TypeOK` (a get that succeeds returns a block); `PutKeyedRetrievable` (a put_keyed that returns Ok leaves the block under the caller's key) |
| threshold | MCVotingThreshold.cfg | pass | `ThresholdIsTwoThirds` for every total 0..214748 |
| threshold_overflow | MCThresholdOverflow.cfg | violation | `ThresholdIsTwoThirds` fails at total 214749: the threshold wraps to 0 |

### Findings

The violation runs are each a disagreement between the code and what
`spec.md` or the `traits.rs` doc comments say (see `findings` in
`PROJECT.json`). The most serious one is in `record_voted`
(`hamt_state.rs:138`): it resets a round when `!within_threshold`, but
`within_threshold` is `last_vote + t < now`, which means "stale". As a
result:
- votes cast inside the window discard each other;
- votes cast after the window accumulate for ever, because `last_vote` is
  never refreshed (`hamt_state.rs:154`).

With the default window of 200 epochs, a checker can be evicted only by
reports spread over more than 200 epochs after a first report. Reports made
close together, as the spec describes, can never evict.

Two more come from this sitting:
- `calculate_voting_threshold` (`actor.rs:99`) overflows on wasm32 from
  214749 checkers on, and the threshold then is 0: one report evicts.
- `total_checkers` (`hamt_state.rs:67`) counts init nodes, not checker
  records; spec.md section 3 and section 4 disagree on which it is.

The livelock (`eviction_livelock`) is the liveness side of the inverted
window. Every report inside the window resets the round, and the reset sets
`last_vote = now`. So checkers that report more often than
`voting_duration` reset each other for ever, and an offline checker that
every other checker reports is never evicted. With the unchecked
`voting_duration = -1` (`negative_window`), rounds never reset and eviction
is guaranteed. With window 1 an eviction is still reachable (reports at
spaced epochs append), but it is not guaranteed. Whether diligent reporters
are guaranteed to evict thus depends on the
sign of an init parameter nobody validates (`types.rs:84`).

### Bounds

The `registry` run (safety and refinement together) uses `MaxEpoch = 1`,
`DurationParams = {0}` and `MaxInitNodes = 3` (about 2m40s with two
workers):
- A window of 0 over epochs 0..1 gives both branches of `record_voted`:
  votes at the same epoch reset each other, and a vote at epoch 1 on a
  round from epoch 0 appends.
- Three init nodes give `total_checkers = 3`, whose threshold is 2, so a
  round needs all three accounts to evict.

It explores about 300,000 distinct states in about two minutes. The
violation runs on `MCUptimeChecker` use epochs 0..2 with a window of 1.
That is the smallest clock on which a report can land both strictly
inside the window and after it. The threshold runs cover every total up
to the overflow point exhaustively.
`MCEviction` has 4 accounts (the smallest set where three reporters other
than the target reach the threshold) and epochs 0..2 with window 1, the
smallest case in which a report can fall outside the window. No symmetry
or VIEW is used there, because both are unsound for liveness checking.
`None` (which selects the 200-epoch default) behaves like a window
that never closes within the bound. It is left to a later configuration.

### Fairness

The actor acts only when an account sends it a message. So the safety
runs assume no fairness. The `MCEviction` runs assume two things:
- **The chain keeps producing epochs**: weak fairness of `AdvanceEpoch`,
  up to `MaxEpoch`.
- **Checkers do the job spec.md section 2 gives them**: weak fairness of
  each reporter's accepted report (`ReportOk`). If a report would be
  accepted and stays acceptable, it is eventually sent.

Rejected reports (`AlreadyVoted`) are not made fair. Otherwise they would
discharge the obligation without changing any round.

### Not modelled

- **HAMT internals** (node layout, bit width 5, `get_map_from_cid`): these
  belong to the `fvm_ipld_hamt` library. A flushed HAMT is the map it
  stores, and the blocks it writes go through `Blockstore::put`.
- **Error messages**.
- **Peer-id uniqueness** (`traits.rs:20-22`, `new_checker` "peer ID not
  registered yet"): every MC module has one payload `p1`, so all records
  share a peer id. The code never checks this; no property examines it.
- **Doc comments of edits** (`traits.rs` `edit_checker`/`edit_member`):
  these change no set, so `Registry` has no action for them.
- **`i64` overflow** of the window sum `last_vote + t`: beyond TLC's
  integers; listed as a hazard. (The `usize` threshold overflow is modelled
  in `VotingThreshold`.)

## 3. Plan

Done:
1. `UptimeChecker` with every method, the `registry` run, and the five
   violation runs.
2. Abort paths (`DecodeFails`, `StorageFails`, `UnknownMethod`), the
   abstract `Registry` and its refinement, `VotingThreshold` with the
   overflow, and the `total_checkers` finding.

3. `MCEviction` with weak fairness: the eviction livelock and the negative
   window; `Registry` mapped to the `traits.rs` contract.
4. `Blockstore` with its own run. The refinement was folded into the
   `registry` run, which now runs on a cheaper clock that still reaches
   both `record_voted` branches.

Next:
- **`OfflineVoting.tla`**: an abstract offline round as spec.md 4.3 states
  it (votes inside the window accumulate, stale rounds restart), and a
  corrected `record_voted` shown to refine it; the code as written does not.
- **More configurations:** `DurationParams = {None, -1}` (default and
  negative window), `PeerIDs = {p1, p2}` for the overwrite paths.
