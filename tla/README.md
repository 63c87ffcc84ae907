# The Pact farm in TLA+

The repository holds the smart contracts of a farm on Algorand: users stake an
asset and are paid reward assets for the time they hold it. This directory
models the contracts, checks the models with TLC on small instances and proves
some of what they promise with TLAPS for every instance.

## The system

| Component | Source | State | Operations |
|---|---|---|---|
| Farm | `farm/farm.py` | reward schedule (two periods: pending and next), reward per token, totals, stakers, reward assets, admin, updater, version; per user: stake, snapshot of the reward per token, accrued and claimed rewards, escrow id | `create`, `update`, `post_update`, `opt_in`, `clear_state`, `close_out`, `change_updater`, `change_admin`, `add_reward_asset`, `deposit_rewards`, `update_global_state`, `update_state`, `claim_rewards` |
| Calculators | `farm/rpt_calculator.py`, `helpers/common.py` | none | `RPTCalculator.run`, `UserRewardCalculator.run`, `Addw`, `Mulw` |
| Escrow | `farm/escrow.py` | `MasterAppID`, creator, program; its account's tokens and Algos | create, `unstake`, `withdraw_algos`, `send_message`, delete |
| Husk | `farm/escrow.py` (bytecode) | the same, until a farm updates its program | create, anything afterwards |
| GasStation | `gas_station.py` | its Algos | `withdraw`, `increase_opcode_quota` |
| Deployment | `deploy_farm.py` | none | builds the group that pays the gas station and creates a farm |
| Helpers | `helpers/*.py` | none (`state.py`: scratch slots and a byte string in the application's state) | transfers and their validation, 256-bit fixed point, packed state, ABI fields |

How they interact. A user creates a husk and calls the farm's `opt_in` in the
next transaction of the group; the farm replaces the husk's program by the
escrow's and remembers the escrow's id. The user sends tokens to the escrow's
account, which nobody tells the farm; anybody may then call `update_state`,
which first brings the global reward state up to the current time, then pays
the user for the stake *last seen*, and only then reads the escrow's balance.
`unstake` moves tokens out of the escrow and calls `update_state` of the farm
in one step. The admin sends rewards and calls `deposit_rewards` in the same
group; the contract finds the transfers by their position. Every call is a
transaction, transactions are executed one at a time, and a failure rejects the
whole group; so the interleavings are those of calls by different accounts, and
what is hard is what lies *between* two calls: time, unnoticed transfers,
rounding, stale snapshots, and users who go away at any moment by clearing
their state, which the ledger never refuses.

What makes each part correct:

* Calculators: no carry or borrow mints or burns rewards; rounding is bounded.
* Farm: what is owed to all users together is covered by released rewards, and
  these by the farm's account; time is neither lost nor counted twice; a stake
  earns from when it is noticed; users can always claim and leave; the schedule
  keeps moving.
* Escrows: the stake the farm counts is really there, belongs to the user, and
  always comes back to it.
* Deposits: only what the admin sent counts, with its own amount. Claims pay
  each index once, or fail as a whole.
* Upgrade: the escrow program never changes under its users, no call runs on
  state that has not been migrated, and only who was updater before a group can
  have it install another, newer program.
* Gas station and Algos: a deployment that is paid for needs nothing others have
  left in the station, every account keeps its minimum balance, and an escrow's
  Algos go back to its creator.
* Helpers: byte strings never get longer than what the next operation accepts,
  quotients and integral parts lose less than stated, and a packed member is
  found where it was stored.

## Modules

| Module | Models | Correspondence |
|---|---|---|
| `RPTCalculator` | the two calculators over words of `W` values | one operator per assignment of `run` |
| `RPTStream` | the calculators used over a sequence of distributions | `Distribute` and `Settle` are one update each |
| `Farm` | the farm contract without its escrows | one action per method; the global arrays are the record `pool`, a user's arrays the record `local[u]` |
| `FarmProperties` | what the farm promises | |
| `RewardStream` | the promise about rewards, with a clock that counts every tick with stakers: deposits released evenly, one after the other | implemented by `Farm` under the mapping of `FarmProperties!Stream` |
| `FarmSchedule` | `Farm` with history of the current period | |
| `ClaimLoop` | the loop in `claim_rewards`, with the transfers it makes | one step per index; a failing one takes back the others |
| `DepositGroup` | a transaction group with deposits | one step per transaction |
| `Escrow` | escrow programs and the staked tokens | one action per call or transfer |
| `PactFarm` | `Farm` and `Escrow` together | conjunctions of their actions |
| `FarmUpgrade` | the farm's program, version, box and updater | atomic groups: one action per kind of transaction, which sees the next one of its group; `Reject` restores what was before the group |
| `GasStation` | the gas station, on the Algos of all accounts | one action per call or payment |
| `Deployment` | `GasStation` with the creation of farms (`deploy_farm.py`) and of escrows, and the escrows' Algos | one action per group |
| `FixedPoint64` | the 256-bit fixed point numbers | one operator per function, on byte strings given by length and value, and a stack of two that applies them |
| `PackedState` | one packed schema | one action per `put`, `load`, `store`, and end of a transaction |
| `ByteWords` | bytes and words of the AVM | |
| `MCFarm`, `MCPactFarm` | symmetry for TLC | |
| `MCHelpers` | `RPTStream`, `FixedPoint64` and `PackedState` side by side for TLC; a behaviour moves one of them | |
| `ArithmeticProofs` | theorems about the calculators; lemmas about sums over a finite set and about products | |
| `FarmProofs`, `FarmSafetyProofs` | theorems about `Farm`: types, the safety invariants, that updates do not panic | |
| `FarmHistoryProofs` | theorems about what steps of `Farm` do: the users' earnings, `RewardStream`, and `FarmSchedule` | |
| `PactFarmProofs` | theorems about `PactFarm`: that it implements `Farm`, the stakes, and unstaking | |
| `CallProofs` | theorems about `ClaimLoop` and `DepositGroup` | |
| `LifecycleProofs` | theorems about `FarmUpgrade` and `Deployment` | |
| `HelperProofs` | theorems about `RPTStream`, `FixedPoint64` and `PackedState` | |

Conventions. Indices of reward arrays start at 1. `elapsed` stands for
`latest_timestamp - UpdatedAt`; only differences of timestamps enter the code.
`Tick` is the ledger's clock. An AVM operation that over- or underflows panics,
and a panic or a failed assertion rejects the call: both are guards. The one
exception is `clear_state`, after whose panic the ledger still deletes the
local state, and the action says so. `update_state` in `Farm` may find any
balance in the escrow, and the escrow rekeyed: `Farm` is thus checked for more
environments than exist, and `PactFarm` puts the real escrows in their place.
Rewards that leave the farm as claims do not come back to the depositors; the
constant `Supply` bounds what can ever be deposited. `FundFarm` is any other
transfer to the farm. That a claim may fail because of its receiver is modelled
in `ClaimLoop`; in `Farm` any call may not happen at any time, which covers it.
The transaction fees are paid by the callers and left out.

What is assumed of the ledger. After a transaction of the top level, an account
it has changed is empty or holds its minimum balance; inner transactions are not
held to that one by one, which the gas station depends on: a new application
draws the station's Algos from within its own creation. Any transaction may be
rejected, and then its group is. In `FarmUpgrade` a group has no bound; in
`Deployment` a group is one action, since no other group comes in between. The
ledger moves no tokens to an account that has not opted in to them; a transfer
of zero looks at neither account. The AVM's byte arithmetic takes strings of at
most `MaxBytes` bytes and returns the shortest string for its result, and `Btoi`
refuses strings longer than a word.

Definitions with the comment `mutant` are wrong on purpose. They stand before
the definition a plausible bug could turn into them, and PROJECT.json names for
each property those it is known to notice.

## Runs

| Run | Question | Bounds |
|---|---|---|
| `helpers` | Do the calculators overpay, or lose more than the stated rounding? Do fixed point numbers convert back and divide within bounds? Is a packed member found with its last value? | calculators: 16-valued words, totals up to 5, three distributions of up to 4, the fraction starting at either end: every carry and borrow occurs. Fixed point: strings of bits in words of two, arguments of up to 6, so that all lengths up to the limit come up. Packed state: three members, a string shorter than a word, an integer, a string, and inputs of a length too many |
| `farm_stakers` | Accounting, solvency, fair shares, schedule, exit: two stakers with stakes 0, 1, 3, rekeyed or not | one reward asset, two deposits of up to 3 over 2 ticks, calls up to 3 ticks apart, so one call may end a period, start the next and leave a rest |
| `farm_assets` | Are rewards covered in each asset, when Algos are also spent on opt-ins, and what remains when lifetime totals exceed a word? | Algo and a token, two admins, deposits of any split with repeated indices; 4-valued words and 6 tokens of each asset, so updates come to panic |
| `farm_upgrade` | Can groups that upgrade, hand over the updater and serve users leave the farm unmigrated, an escrow invalid, or an older program in place? | two accounts, two escrow programs, three versions, two builds of each; groups of any length |
| `farm_schedule` | Do many small updates keep to the linear schedule, and does everything get released? | a period of 4 ticks with 3 tokens, two deposits, one staker who may pause |
| `claim_loop` | Does one claim pay each index once, or nothing? Does it fail only if one of its indices cannot be paid? | all lists of up to three indices over two slots, one past the end included; settled rewards and what the farm can pay up to 2, any assets referenced, and any the receiver takes |
| `deposit_group` | Does a deposit count only what the admin sent with it, each transfer with its amount? | all groups of up to four transactions, two slots, amounts 1 and 2; deposits of up to three indices, so that one can be repeated beside another |
| `pact_escrows` | Is every counted stake in an escrow its owner can empty? | two users, three escrows, two farms, one token each (an escrow may hold both) |
| `pact_quit` | Does a user who decides to leave get everything back? | two users, two escrows |
| `deployment` | Can others stop a deployment that is paid for? Are minimum balances kept, and Algos lost in an escrow? | two users with 9 Algos, one farm, two escrows, a minimum balance of 2; payments of 2, 4 and 5 are below, at and above what an escrow needs; quota calls can empty the station or be refused |
| `deposit_documented`, `opt_in_documented` | Are the groups of the documents accepted? | as `deposit_group` with three transactions and one index; as `deployment` |

Every property of a passing run has a mutant that breaks it. Two runs end in
a violation: they state what the repository *says*.

* `deposit_documented`: README.md:184-189, DEPLOYMENT.md and test_farm.py:567
  put `update_global_state` between the transfers and `deposit_rewards`; the
  contract looks for the last transfer at that position and rejects the group.
  Updating first in the group works (`PlainDepositCounts`).
* `opt_in_documented`: DEPLOYMENT.md:408-452 and test_farm.py:417 opt in with
  the husk's creation and `opt_in` alone. The new escrow draws its minimum
  balance from the gas station, but the farm's creation has taken all that was
  there; unless somebody has paid the station since, the group is rejected. The
  deployment group, which brings its payment, does not depend on that
  (`DeploymentsStayOpen`).

Other places where the repository's words and its code differ, seen while
modelling; the modules follow the code:

* farm.py:118 describes `NumStakers` as the accounts opted in; the code counts
  non-zero stakes (README.md:104 says so too).
* farm.py:174 describes `TotalRewards` as the total over the lifetime;
  `exit_farm` takes back what a leaving user has not claimed.
* deploy_farm.py:43-50 makes the deployer `Admin` and the multisignature account
  `Updater`; README.md:267 calls the configured account the admin.
* DEPLOYMENT.md:187 and test_farm.py:169 reckon 4000 microAlgos per byte of the
  box where deploy_farm.py:11 has 400; their payment is larger than needed.

`UpdatesNeverPanic` needs lifetime deposits of each asset below a word, which
holds of every real asset (their supply is a word) as long as claimed rewards
are not deposited again and again; `farm_assets` drops that assumption, and
there only claiming and leaving are shown to work.

Symmetry is used over users and escrows in runs whose properties are safety
properties. Deadlock is checked in the runs of `Farm`, `PactFarm`,
`FarmUpgrade` and the helpers. A transaction group and a claim end, and in
`Deployment` all Algos may have been paid away and all ids used; these runs do
not check it.

Fairness. `Fairness` of `Farm` is weak fairness of `Tick` and of
`UpdateGlobalState`: time goes on, and as anybody may call the method without
authorization, someone who wants rewards can. `PactFairSpec` assumes of each
user that has decided to leave that it takes its own steps: claim what is
settled, leave, delete its escrows. It assumes nothing of others.

## What is proved

All theorems hold for every value of the constants, under the assumptions the
modules state: `WAssumption` (a word has at least two values), `FarmAssumption`
(finitely many users, Algo is an asset, at least one slot, durations are not
zero, and the types of the other constants), `EscrowAssumption` and
`PactFarmAssumption` (finitely many application ids, `None` is neither an
account nor an id, the users own the tokens, and `Farm` is prepared for every
balance up to all tokens there are), `UpgradeAssumption` (versions are numbers),
`StationAssumption` and `DeploymentAssumption` (users, applications and the
station are different accounts, a minimum balance is not zero, costs are
numbers), `ByteWordsAssumption` and `FixedPointAssumption` (a byte has at least
two values, byte arithmetic takes at least two words), `PackedAssumption`
(a schema's integers have the length of a word), and the types of the bounds of `RPTStream`, `ClaimLoop` and `DepositGroup`. Two theorems have
hypotheses of their own, named below the table.

| Theorem | States |
|---|---|
| `IncrementIsFloor`, `AccrualIsFloor` | the two calculators compute the exact quotient rounded down once, carries and borrows included |
| `FarmTypeOK` | `TypeOK` |
| `FarmSolvent` | `Solvent` |
| `FarmStakeAccounting` | `StakeAccounting` |
| `FarmHoldingsCover` | `HoldingsCoverLiabilities` |
| `FarmScheduleConsistent` | `ScheduleConsistent` |
| `FarmExitAlwaysOpen` | `ExitAlwaysOpen` |
| `FarmDepositsBounded` | no slot holds more rewards, nor has reached a higher reward per token, than the farm has received |
| `FarmUpdatesNeverPanic` | `UpdatesNeverPanic`, if `Supply < W` and stakes add up to words |
| `FarmEarnings` | `EarningsFollowStake` |
| `FarmStreamsRewards` | `StreamsRewards`: `Farm` implements `RewardStream` |
| `FarmReleasesOnSchedule` | `ReleaseOnSchedule` |
| `PactImplementsFarm` | every behaviour of `PactFarm` is one of `Farm` |
| `PactTypes` | `PactTypeOK` |
| `StakesAreBacked` | `StakeIsBacked` |
| `EscrowsPayTheirCreators` | `TokensReturnToCreator` |
| `PactSolvent` | `Solvent`, in `PactFarm` |
| `PactUnstakeAlwaysOpen` | `UnstakeAlwaysOpen`, if `Supply < W` |
| `ClaimsPayEachOnce`, `ClaimsPayAllOrNothing` | `PaysEachOnce`, `StoredIffPayable` |
| `DepositsCountWhatWasSent`, `PlainDepositsCount` | `CountedWereSent`, `PlainDepositCounts` |
| `UpgradeTypes` | `UpgradeTypeOK` |
| `UpgradesKeepEscrowsValid` | `EscrowsStayValid` |
| `MigrationComesFirst` | `CallsSeeMigratedState` |
| `UpgradesNeedTheUpdater` | `UpgradesAreAuthorized` |
| `UpgradesRaiseVersions` | `UpgradesAreNewer` |
| `DeploymentsKeepMinimums` | `MinimumsKept` |
| `DeploymentsStayPossible` | `DeploymentsStayOpen` |
| `HoldingsStayWithTheirOwner` | `HoldingsShrinkByPaying` |
| `CalculatorsNeverOverpay`, `CalculatorsLoseLittle` | `NeverOverpays`, `RoundingLossBounded` |
| `IntegersAreDefined` | `ToIntDefined` |
| `QuotientsMultiplyBack` | `QuotientBounded` |
| `PartsStayWithinWhole` | `PartsWithinWhole` |
| `MembersAreFound`, `StoresKeepTheRest` | `StoredIsFound`, `StoreKeepsTheRest` |

The two hypotheses. `Supply` is what the depositors of an asset have when the
farm is created, so `Supply < W` says that what is ever deposited of one asset
is a word: the supply of every Algorand asset is one, and the hypothesis fails
only where claimed rewards are deposited again and again. That stakes add up to a word is a hypothesis on
`Balances` in `Farm`, whose escrows may hold anything; in `PactFarm` it needs
none, since the stakes are parts of one supply of tokens.

None of the safety properties is inductive by itself, and they need each other:
solvency survives an update because `TotalStaked` is the sum of the stakes, the
account survives a claim because the claim is solvent, and a departure keeps
`TotalStaked` right only because `exit_farm` does not panic, which is solvency
again. `SafetyInv` of `FarmSafetyProofs` is therefore their conjunction, with
what else they rest on: users who are not opted in have no state (`NoStrays`),
a user's claims are part of the claims (`ClaimsCounted`), no asset has two slots
(`DistinctAssets`), slots without an asset are empty (`UnlistedEmpty`), and no
user's snapshot is ahead of the pool (`SnapshotsBehind`), without which
`UserRewardCalculator` would underflow.

The argument in short. `Cum` is a reward per token as one number. An update
*advances* the pool (`Advances`): rewards only move from next to pending to
total, and the growth of `Cum` times `totalStaked` is at most `W` times what it
released, by `IncrementIsFloor`. The lemma is proved for one call of
`update_global_state_current`, for the start of the next period, and for their
sequence. The debt to all users grows by exactly that product (`DebtGrows`, a
sum over the users, by the lemmas of `ArithmeticProofs`), so it stays covered (`UpdatedCovered`).
Settling, claiming and leaving replace one user's state by one to whom as much
less is owed as they take out of the claimable rewards (`CoverReplace`).
`FarmEarnings` adds that settling is exact to the token: what has been settled
can be taken out of the division by `W` (`WholePart`).

`exit_farm` is the only subtraction from `TotalRewards`, and it never
underflows; so in `clear_state` the panic after which the ledger would keep a
stale `TotalStaked` is unreachable. The type invariant and the parts of
`SafetyInv` were checked with TLC on the bounds of the `farm_*` runs first.

The composition. `PactInv` of `PactFarmProofs` adds to `StakeIsBacked` that the
tokens in wallets and escrows are all there are (`TokensConserved`). That bounds
what `update_state` can find in an escrow, so that each step of `PactFarm` is a
step of `Farm` (`PactStep`), and the theorems about `Farm` hold for the real
escrows too. `StakeIsBacked` is kept because an escrow in use belongs to one
user (`OwnEscrow`): what happens to another application, or through another
farm's escrow, touches nobody's stake (`UnusedEscrowKeeps`), and the two calls
that take tokens out of an escrow in use are `on_unstake`, which ends with
`update_state`, and `on_delete`, which is refused.

Upgrades. A property of what is between groups needs an invariant that holds
within them. `IInv` of `LifecycleProofs` says what was so before the group
(`SavedIsMigrated`), that the box never changes and the linked escrows agree
with it (`BoxStays`), that a program not followed by `post_update` is the old
one or newer (`VersionsGrow`), and that neither updater nor program has changed
without a signature of the old updater (`ChangesAreSigned`), by which an updater
named in the middle of a group gets no further than the one who named it. Each
action is shown to establish `Executed`, which is `IInv` but for the next
transaction, and `Executed` to keep `IInv`.

Panics. `DepositsBounded` is inductive together with `SafetyInv`: an update with
a stake of one token or more raises `Cum` by no more than the rewards it
releases, and without a stake releases none (`UpdatedWithin`), so both figures
stay below what was received. From it follow that sums, products and borrows fit
their words (`UpdateAlwaysFits`, `SettleAlwaysFits`, `StakeAlwaysFits`). In
`PactFarm`, `kept` and the stakes are at most all tokens, whence
`PactUnstakeAlwaysOpen`.

Refinement. `RewardStream` counts the ticks with stakers and, in each release,
makes up for exactly those since the one before: first in the current deposit,
then in the queued one. What it releases of a deposit with `t` ticks left in `d`
of them is the part `d` of `t`, up to less than a token that is kept back
(`Evenly`). `FarmProperties!Stream` maps `passed` to `elapsed` while somebody is
staking and to 0 otherwise, the deposits to pending and next, and what is
payable to the rewards released and not claimed. `Tick` is then a tick of the
stream or a stutter, an update is a release (`UpdateStreams`:
`EvenRelease` is about one call of `update_global_state_current`, and
`UpdatedUsesUp` about the one that goes on to the queued deposit), and claims and
departures take from what is payable. The stream's clock is set back in one
place: when the last staker leaves, the ticks nobody was told of do not count
(farm.py:747).

The schedule. `ReleaseOnSchedule` is inductive for given types of the history
variables. Within a period each update takes `pending * elapsed \div duration`,
rounded down, and the lemma on one step bounds what the rounding leaves by one
token per update; a new period starts with nothing left over.

Calls and groups. `LoopInv` says that a processed slot has been paid in full
and has nothing left, so repeating an index pays nothing and never makes the
call fail, and that what is sent of a slot is within what the farm can pay and
the receiver takes. After a failure everything is as before. `GroupInv` says, of
every position with only transfers after it, that what has been counted came
before it: a deposit counts the transfers directly in front of it, and becomes
the last call itself.

Algos. `DeploymentInv` adds to `MinimumsKept` that only escrows whose id has
been given have a creator. `DeploymentsStayOpen` rests on the station's minimum
balance: with it there, a group that pays for what it needs is accepted, and
`StationStaysBootstrapped` says that only quota calls can spend it. The code lets
them: such a call burns the station to 0, and the group of `deploy_farm.py`, which
pays just what the farm needs, is rejected until somebody pays the minimum
balance in again. `HoldingsShrinkByPaying` is about sums over escrows that change
with the step; `ArithmeticProofs` has the lemmas.

Calculators over time. `RoundingInv` bounds the reward per token reached and
the rounding of each distribution in `W`-ths, from which both bounds of
`RPTStream` follow by one division at the end.

Fixed point. `NumbersInv` says of a byte string that its value fits its length,
and that it is longer than two words only if the value is. `Power` is a
recursive function: that it exists, and what it is of sums, is proved by
induction over the set of the lengths where the claim holds (`SetInduction`).

Packed state. `PackedInv` says that the storage, and the one a panic goes back
to, hold each member's string at its offset, and that after a load the slots
not put since are as stored. Offsets and `Btoi` are sums, so the lemmas about
sums apply; that concatenated strings are found at the sums of the lengths
before them (`ConcatHolds`), and that the bytes of an integer add up to it
(`IntegersAreWords`), are inductions like those about `Power`.

Only model-checked: liveness (`QueuedRewardsStart`, `PendingRewardsAreReleased`,
`QuittersRecover`), which is out of the prover's reach, and the two runs that
end in a violation.

## Not modelled, and the plan

Left out for good: `send_message` of the escrow (a note without effect on any
state), the ABI helpers and the transfer helpers no contract here calls
(`SendToCaller`, `MakeInnerTransferTxn`), `StateManager` (several schemas that
share nothing), and what becomes of a husk no farm has updated (its program may
become anything).

Next, in this order:

1. Proofs: the safety half of the liveness properties, that is, how far each
   step brings the schedule and a leaving user on their way.
2. A history of each user's exact share across changes of the total stake, to
   bound what `Farm` rounds away over a whole life.
