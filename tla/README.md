# A verification project for ccdaddy

ccdaddy (`ccdad`) manages several Claude Code and Codex accounts on one
machine: it stores their logins, watches their quota, and switches the login
Claude Code uses, by command or by a daemon. What can go wrong is custody. A
refresh token is single-use, each account's grant exists in one or two files,
and a daemon, commands, Claude Code itself and the user all move it. This
directory models that in TLA+, checks it with TLC and proves the invariants
that carry it with TLAPS.

## The system

| part | state | operations | talks to | what makes it correct |
|---|---|---|---|---|
| `store` | `accounts.toml`, one credential file per account, `store.lock` | `WithStore` transactions of add, remove, set; `OrphanCredentialsAt` | everything | no lost update; rows and files agree; a refused or interrupted transaction is reversed |
| `tokens` | none of its own | `AccessToken`, `Freshen`, `refreshLive`, `adopt` | store, Claude Code's credentials file, token endpoint | a usable grant is never lost, filed under another account or spent twice |
| `switcher` | cooldown (strategy state), `~/.claude.json` name | `Execute`, `Evaluate` | store, tokens, credentials file | an unattended switch never erases the only copy of a grant |
| `daemon` engine | in-flight polls, quarantine | `Tick`: dispatch, poll, evaluate, act | tokens, switcher, strategy, profile endpoint | one poll per account; quarantine only the dead; one switch per cooldown |
| `daemon` lifecycle | pid file, singleton lock, failure streak | start, supersede, recover, shut down | credhome | one engine per store and per credential home |
| `cclock` | lock directories Claude Code shares | acquire, touch, reassert, release | Claude Code | mutual exclusion except after a genuine stall; no deadlock |
| `credhome` | claim and owner files | acquire, verdict | daemon, switcher | two stores' engines do not fight over one login |
| `codexauth` | Codex grants, pending pairs, cooldowns | `Refresh` | store, endpoint | no grant is presented twice; a minted pair lands; only a dead grant is marked |
| `codexswitch`, `codexproxy` | serving pointer, limit book | switch, forward a request | codexauth, upstream | a request is served by an eligible account, and refreshed once |
| `strategy`, `pollpolicy`, `usage` | engine state, cache | `Decide`, schedules, commits | daemon, switcher | no switch storms; no request storms |
| `config`, `history`, `forecast`, `view`, `tui`, `mcpsrv`, `cli` | documents, screens | commands | all of the above | mostly sequential; see the components list in `PROJECT.json` |

The behaviours that are hard, and that the properties aim at: transactions of
several processes on one document; crashes and signals inside a transaction;
network answers that arrive after the world moved; reads of Claude Code's file
with no lock held; and the several hands on one single-use grant. `PROJECT.json`
lists each hazard at its line.

## StoreTx: the account store

`StoreTx.tla` models `internal/store`: `lock.go` (`acquireLock`, `mutate`,
`WithStore`), `interrupt.go`, and the operations of `store.go`. Each process
has a program counter for the position in `mutate`; a step is one effect that
another process, a crash or a signal could observe: taking the lock, loading,
each operation of the callback (whose file write is on disk at once, whose row
is in memory only), the save, each journal entry of the reversal, the release.

- `doc` and `cred` are the disk; `mem` and `undo` are a process's `Store.data`
  and `Store.undo`. A journal entry's `prior` is what goes back; `NoFile`
  stands for `created`.
- `Journal` journals creations only, as `writeCredentials` does; `JournalContent`
  is `remove`'s. `Reverse` may fail and goes on to the next entry.
- `sig` is SIGINT as the process sees it: default, held by the watch, arrived.
- `OrphanCredentialsAt` is `Probe`, `ListFiles`, `Judge`, under the lock.
- `Crash` and a SIGINT outside the watch kill the process. `residue` records
  the accounts such a death, or a reversal the file system refused, left out of
  step: `rollback` and `mutate` say that these cannot be closed.

Runs:

- `StoreTx.cfg`: two processes, two accounts, two file contents, two operations
  per transaction, one crash and one SIGINT. Two operations are what it takes
  to add and remove one account in either order inside one transaction, and to
  have a second entry in the journal; a second process is what loses updates.
  Symmetric in processes, accounts and contents. 1.4 million states.
- `StoreTxLive.cfg`: every call that waits for the lock returns, under weak
  fairness of each process's own steps (the OS schedules a running process;
  nothing is assumed about callers, crashes or signals). It holds because the
  poll has a deadline: a lock leaked for a process's life is `ErrLockBusy`.

Proved in `StoreTxProofs.tla`, for any number of processes, accounts and
operations: all the safety properties of the run.
The inductive invariant is `IInv`: type correctness; the lock is held wherever
the code relies on it (`HoldsLock`); memory is the document except in touched
rows (`MemoryIsCurrent`); what the watch saw (`SignalsKept`); and `FilesKept`,
which carries `RowsAndFilesAgree` through a transaction: whatever prefix of the
journal is left, replaying it backwards yields credentials that agree with the
document the transaction found. `RowsAndFilesAgree` alone is not inductive: it
says nothing while a transaction is running. `AllUndone` does the same for
`RefusedIsReversed`: until its save, a transaction's document is the one it found,
and replaying any prefix of its journal leaves each file as it found it, or as the
transaction wrote it over one that was there. What is replayed last for a file is
the first entry made for it (`Returns`), so repeated operations on it do not matter.

## Grants: who holds an account's login

`Grants.tla` models one credential lineage per account. A grant is an account
and a generation. `Mint` revokes the grant it spends; `zone` is the time left
on its access token in the three ranges the code distinguishes: above
`LiveRefreshLead`, in the band where ccdad rotates, inside Claude Code's own
window. `store` and `live` are the two copies. Each process has one job record:
a poll (`AccessToken`), or a switch (`Evaluate`, `resolveLive`, `Execute` with
its `Freshen`). A region that runs under Claude Code's locks or the store lock
is one step, because everyone that writes the file takes them; a network call is
two steps with anything in between.

| source | actions |
|---|---|
| `AccessToken` | `ReadStored`, `CheckLive` (no lock), then `Post`, `Save` or `LockRead`, `Adopt` |
| `refreshLive` | `LivePost`, `LiveWrite`, `LiveSave` |
| `Evaluate`, `act` | `StartAuto`; `resolveLive` is `ResolveLoad`, `ResolveOwner`, `ResolveAdopt` |
| `Execute` | `ReadCreds`, `Freshen`'s `AccessToken` and `ReRead`, `Install`, `Sync` |
| `ccdad switch`, `ccdad add` | `StartSwitch`, `AddAgain` |
| Claude Code and the user | `ClaudeRefresh`, `Login` |
| time, faults | `Age`, `CoolDown`, `Crash`, and the faulty branches of the network and write steps |

Properties and their exemptions. `GrantNeverLost` exempts two sets of accounts.
`forfeit`: a lost answer, a refused write, a crash with a pair in flight or the
user's own overwrite has cost the account a pair; or a decision was carried out on
a login that had moved on since it was made:

- `resolveLive` laid over the snapshot what it had read of the file, when the file
  no longer held it or the endpoint no longer honoured it (a finding of its own);
- a live read filed another account's login here;
- a switch installed a snapshot that had since moved on, under a live read that then
  takes the older login for news;
- a foreign verdict about one login let an unattended switch overwrite another, of a
  managed account, that no snapshot held (`switcher.go:462`).

`raced`, which is also what `NeverCrossFiled` exempts: while a job is between the
identity check and the adoption, a login of another account that no snapshot holds
yet reached the file, or the snapshot that would have told them apart moved on.
That is what the comment of `liveOwner` concedes it cannot distinguish. Each
exemption names the account that may have lost a pair and no other; all of them are
needed for `GrantNeverLost` to be provable. `NoUnattendedLoss` exempts a login the
oracle found foreign.

Runs:

- `Grants.cfg`: two accounts, a poller, the engine's tick, Claude Code, one
  login by hand. Two accounts are what cross-filing takes; one generation past
  the first is what a rotation takes. 1.6 million states.
- `GrantsCases.cfg`: one managed account and one foreign, the tick, `ccdad switch`
  with and without `--force`, one login by hand and one fault of any kind, two
  generations: a rotated lineage and a new one meet. 1.8 million states.
- `GrantsRollback.cfg` is a violation, and a bug: `resolveLive` lays the live file
  over the snapshot because the file is "a generation ahead", but after a live
  write was refused the snapshot is ahead, and a good pair is replaced by a
  spent grant.

No run has a command's own process (`Cli`) or a poller beside a human: a
command's poll is a poller's without the claim, its switch the tick's without
the oracle, and the theorems cover them. `ccdad switch --force` onto the live
account can install the login it read before a poll adopted a newer one, and the
next poll then adopts the older one back; `SnapshotsMoveForward` exempts that
account (`Outdated`).

`Prompt` states the timing the design relies on: no token crosses a zone while
a job is in flight (a poll is cut at 45 s, the narrowest zone lasts five
minutes). Every run sets it. `TypeOK`, `NeverCrossFiled` and `NoUnattendedLoss` are
proved without it, the other three theorems under it.

Proved in `GrantsProofs.tla`, for any accounts, pollers, commands and bounds:
`TypeOK`, `NeverCrossFiled`, `NoUnattendedLoss` and `NoRotationHandedOver`. The
inductive invariant `CustodyInv` adds to the first two the shape of a job at each
program counter, that what a job carries belongs to the account it will file it
under unless that account was raced (`Kept`), and that no grant exists beyond the last one
issued (`Minted`). `Handed` carries a switch: it keeps to its own steps, an
unattended one is not forced, and what it comes to the installation with was seen
outside Claude Code's window, unless its target is the account it believes live,
which the installation then refuses.

Proved there as well: `GrantNeverLost`, and `NoStomp` where no human names a target (a forced switch onto the live account may
put back a stale login that another job is about to spend; `Grants.cfg` has no human
either). `GrantNeverLost` says nothing of a grant that is about to be spent, so two
inductive invariants carry it:

- `Ledger`: which pair is where. Whatever is held was issued, and what is fresh has
  not been spent (`Books`); a pair in hand is fresh and on no disk until it is first
  written, and a job at a POST is about to spend a grant of the window its branch is
  for (`Hand`, which is where `Prompt` is needed); no two jobs have one pair in hand, or have
  rotated one login (`Apart`); what is filed under another account is a login of an
  account that may have lost one (`Honest`, `FiledHonestly`).
- `Backing`: what stands behind each account. The snapshot is honoured, or a job has its
  successor in hand (`Backs`), or the file serves (`Serves`): it holds a login of the
  account that is honoured, or one that a job has just rotated and will replace
  (`Rotated`). A job on its way to an adoption is `Ready`: what it will lay over the
  snapshot is still good, or the snapshot has nothing to lose. Each action has a lemma
  that it leaves this true for every account not exempt; the compare in `writeRecord`
  and `StillOurs` are what the two hard cases, a save and a live write beside other
  jobs, rest on.

`NoStomp` adds `Distinct`: a login that comes into the file while a stale account's
grant is about to be spent is fresh, newly issued, or (`Handed`) out of that window.

## DirLock: one directory lock

`DirLock.tla` models `internal/cclock/lock.go` and the read-modify-writes made
under it. `mkdir` is the mutex; the directory's mtime, touched by a goroutine
of the holder, is its proof of life; a waiter that finds it older than `Stale`
removes it and tries again. A step is one system call of one process.

| source | actions |
|---|---|
| `Acquire` | `Acquire`, `Mkdir`, `Stat`, `Steal`, `Inspect`; `Refused`, `Timeout` leave it; `Late` passes its deadline |
| `touch`, `reassert` | `TickFires`, `Check`, `Touch`, `ReadBack`, each with `MarkLost` |
| `WithHistory`, `WithCache`, `WithDocument`, `WithState` | `Load`, `FnReturns`, `Verify`, `Save` |
| `Release` | `Stop`, `Restat`, `Rmdir` |
| the clock, faults | `Tick`, `Stall`, `Resume`, `Crash` |

Time is counted in units no shorter than a call: `Tick` waits until every
process that is not suspended has finished the calls it is in (`Prompt`). Only a
suspension (a closed laptop, SIGSTOP) makes a process late. mtimes are compared
by equality only, so `Stamp` is a small set and a touch takes one that nobody
remembers. `Writers` says which writers there are: those that ask `Owned` before
their rename (history), those that do not, or both. `Refusing` lets the file
system refuse a waiter's calls, or its removals, for ever. `Gaps` lets a
suspension fall between any two calls; without it, it falls where a process
waits or computes, which is where a process spends its time.

`maker`, `wrong` and `trespass` are history variables that only the properties
read. Two windows are exempted, because the code has them:

- a removal that took a directory its remover had not judged (`"mistaken"`):
  `os.Stat` and `os.Remove` are two calls (see "Windows without a run").
- a removal from a holder that woke up after it was judged (`"awake"`): the
  question and the rename of `WithHistory` are two calls as well, which the
  comment of `Owned` accepts.

Runs (all of `MCDirLock`; touch interval 1 and threshold 2, the tightest pair
`Acquire` accepts; two processes, one crash; as many mtimes as two processes and
the directory can remember, and one more):

- `DirLock.cfg`: one suspension, both kinds of writers. 1.7 million states.
- `DirLockLive.cfg`: every `Acquire` returns, whatever is refused; and an
  abandoned directory goes, provided removals are not refused for ever (a
  strong-fairness hypothesis inside `AbandonedIsReclaimed`). `FairSpec` assumes
  that processes and goroutines are scheduled (weak fairness of each one's own
  steps), that time passes and deadlines with it (strong fairness of `Tick` and
  `Late`, which other steps disable in between), and that commands keep coming
  (`WF(Acquire)`): without them there is nobody to reclaim a directory and
  nobody who needs it. No suspension. 0.2 million states.

Proved in `DirLockProofs.tla`, for any number of processes, suspensions and
crashes and any accepted pair of intervals: `TypeOK` and `Exclusive`, and without
`Gaps` also `TakeoversAreReported` and `NoLostSample`. The inductive invariant is
`IInv`. Besides the shape of a call at each program counter it has `Timely` (the
directory of a holder nobody suspended is never older than one touch interval,
counting from where its ticker stands, so it is never what a waiter has judged
stale), `Custody` (who may believe in which mtime: only the maker recognises the
directory, once removals have been of the directory judged) and `Trespassing`
(a process that wrote without owning no longer recognises the directory, so
`Restat` answers `ErrCompromised`). `Exclusive` alone is not inductive: it says
nothing about the age a waiter is about to read.

## CodexRefresh: one Codex login in the daemon

`CodexRefresh.tla` models `internal/codexauth/refresh.go` with everything that
calls it or moves what it reads: the lane's poll (`daemon/codex_lane.go`), the
proxy's requests (`codexproxy/refresh.go`), `ccdad add codex`, removal, the issuer,
the clock and the daemon's end. Accounts share nothing here, so there is one. A
refresh token is numbered by the login and the exchange it came with; the
endpoint keeps those it has seen (`spent`) and the logins withdrawn (`revoked`).
A store transaction is one step, and may find the store busy; the exchange is
two, with no file lock held between them, as `Refresher` says.

| source | actions |
|---|---|
| `codexDispatch`, `codexPoll`, `codexFailure` | `Dispatch`, `ReadToken` (ahead of the expiry or straight to the reading), `Reply` |
| `send`, `sendWithRefresh` | `Send`, `Reply`, `Replay` |
| `Refresh` | `Lock`, `Flush`, `Read`, `Post`, `Answer`, `Save`; `After` is what the caller does with its outcome |
| `failed`, `SetCodexReloginFor` | `Denied`, `Mark` |
| `ccdad add codex`, `ccdad remove` | `AddCodex`, `Remove` |
| issuer, time, faults | `Revoke`, `Age`, `CoolDown`, `Restart` |

An account that is another machine's (`Elsewhere`) and a busy store both end a
call with nothing learned; they are the free `Returned` branches. The poll's
deadline cuts an exchange only after a reading used up part of its 45 s. `lost`
is a history variable: the grants whose successor a lost answer, the deadline, a
refused write or a restart took. Reuse of those cannot be avoided by anyone.

Runs (`MCCodexRefresh`): one poll and one request, one re-login, one exchange
per login. Two callers are what a shared 401 takes, a second login is what
races an old answer, and one exchange makes a spent grant and its successor.

- `CodexRefresh.cfg`: with one fault, and the liveness: a spent grant whose pair is
  pending does not stay in the store. `FairSpec` assumes goroutines run
  (`WF(Step)`), a Go mutex starves nobody (`SF(Lock)`), ticks keep dispatching
  (`WF(Dispatch)`), the dispatched poll finds the account readable and the store is
  not busy for ever (`SF` of a flush that lands). A pair that is lost has nothing to
  land, and `WornIsReplaced` says so. 0.7 million states.
- `CodexRelogin.cfg` is a violation, and a bug: `SetCredentials` compares nothing,
  so a refresh that posted before a re-login and writes after it puts the old
  login's pair over the new one. The mark that follows is right about the grant
  and wrong about the user, who has just logged in.

Proved in `CodexRefreshProofs.tla`, for any number of requests, logins, exchanges
and faults: every safety property of the run. The inductive invariant `IInv` has,
besides types: `Shape` (the mutex is its owner's, and past `Flush` nothing is
pending), `Numbered` (no token beyond the exchanges answered), `WornOut` (what a
waiter saw stays worn), `Deserved` (a mark names a grant that stays dead) and
`Unspent` (the stored grant is unspent, lost, or its successor is pending or in
the hands of the one that spent it). `NeverReused` alone is not inductive: it
says nothing of the store a caller is about to read.

## Ranking, Engine, Hops: the auto-switch engine

`Ranking.tla` has no state: it is `internal/strategy` without its clock and its
state file, over the readings (`Reading`) of a small set of accounts. Headroom
per window and per model, the tiers, the orders, hover's thresholds and
pool share, preemption, the session burn, the credit gate and "the main pool is
exhausted" are operators, one for each function of the source, over whole
percentages and minutes. `Engine.tla` is what happens over time:

| source | actions |
|---|---|
| `switcher.Evaluate`, `strategy.Decide` | `Evaluate`; `Wanted` is the three ways a pass can want to move, `Gate` the margins, `Decide` adds the cooldown |
| `daemon` `act` | `Resolve` |
| `switcher.Execute`, `RecordSwitch` | `Install`, `Record` |
| state file | `Quarantine`, `CooldownEnds`; a file that cannot be read or written is a fault of `Evaluate`, `Record` |
| the rest of the machine | `Poll`, `Toggle`, `UserSwitch`, `UserLogin`, `Rotate`, `Crash` |

Everything that may change a decision is *news*. `Hops.tla` is the abstract
specification: between two news the engine never returns to an account it has
left. `NoPingPong` is `Engine` implementing `Hops` (`at <- live`, `been <- left`).
`fresh` and `left` are history variables.

Run `Engine.cfg`: the daemon and a command, two subscriptions and a last-resort
account, and for each of them readings chosen on both sides of every threshold
(`MCEngine`), all four strategies, one news, one fault. Three accounts are what a
cycle that is not a swap takes; one news is enough because a cycle lies between
two of them. The unread account is among the readings.

Proved in `EngineProofs.tla`, for any accounts, kinds, readings, thresholds and
evaluators: every property of the run. Its first half is about `Ranking`: what a
reading says is whole figures under any table of thresholds, also those hover
derives (`HeadroomTyped`); each of the orders is a strict order of a pool, total
between accounts (`LessOrder`, `CreditOrder`), so that the best account exists
and is ahead of the others (`BestIs`, by well-founded induction over the finite
pool). `WaysToMove` is the three ways a pass moves, and from it follow:

- `EngineNoPingPong`, the refinement of `Hops`. Every move goes up one strict order
  of all accounts, `Precedes`: by the pool's order inside the main pool, between
  the main pool and the last resorts by whether the main pool is exhausted, and
  among last resorts towards the one to buy from. Neither the margins nor the
  cooldown are needed. `HopInv` carries this through the plans: a plan made since
  the last news is what a pass of *now* wants from the account it will be executed
  on (`Fresh`), and every account left in the pool is behind the live one
  (`Behind`). `NoPingPong` alone is not inductive: it says nothing of a plan that
  another evaluator overtakes.
- `EngineEmptiedIsLeft`, `EngineNoMoveOntoEmpty`, `EnginePaidLast`: an account with
  room never ranks behind one without (`EmptyComesLast`), and being out of quota
  does not depend on the table it is judged by (`EmptyIsSpent`), which is what lets
  a pass under hover and the question `MainPoolExhausted` asks agree.

`EngineNoPingPong` assumes `LastResortIsUnmeasured`, which `MCEngine` assumes of its
instance and TLC evaluates; `EngineHops` says what is left without it (`SeatStays`; see
"Windows without a run").

Three statements were found too strong on the way, by proofs that did not close
and larger instances in which TLC then found the counterexample.
`EmptiedIsLeft` claimed an account that serves as the target: an account that has
not been read ranks before those past a threshold, and is taken. `NoMoveOntoEmpty`
held a last resort to windows it is not ranked by. And `NoPingPong` needs the
assumption above.

## Polling: when an account is read and warmed up

`Polling.tla` follows one account: its row of the usage cache, the daemon's
dispatch (`tick.go`), the schedules (`pollpolicy.go`), the verdicts and the ladder
of warm-ups (`usage/probe.go`), the child that spends a turn (`cli/probe.go`). The
other accounts of its organization are a number (`mates`), which multiplies its
waits; its live one may stand it down at any time.

| source | actions |
|---|---|
| `Tick`, `activeAfter`, `dispatch` | `LoadCache`, `Switch`, `Dispatch` |
| `poll`, `commit`, `handleFailure` | `PollEnds`; `Commit` writes the row, with `Cadence`, `Backoff`, `Judged` and `WarmClamp` |
| `checkProfile` | `ProfileEnds` |
| `probeNow`, `probeOne` | `Probe`, `ChildEnds` |
| `standDown` | `StandDown` |
| user, clock | `Spend`, `Clock` |

The constants are the code's figures in units of time, and their assumptions are
what those figures satisfy: `TableAssumption` of `pollpolicy`'s two tables (the
Claude table's floors of one to five minutes and a serve TTL of three are below its
idle interval of ten, that is below the backoff's ceiling of thirty; the Codex
table's a quarter of an hour, an hour, four hours); `GapsAssumption` of the warm-ups
(a minute after one the account is looked at, the ladder's gaps are a quarter of an
hour and more, a profile is fetched again after as long).

Proved in `PollingProofs.tla`, for any such constants, organization and number of
events:

- `PollingTypesHold`: `PollingTypeOK`.
- `WarmUpsKeepTheirDistance`, which is `TurnsAreSpaced`. `Clocked` carries it: a clock
  that a row tells of runs, or has run down since (`Dated`), and whatever row a tick
  goes by is stamped with the last turn. So the two ways `MayProbe` lets a second
  turn through are a settle gap or a clock that has run down.
- `NoAccountIsForgotten`, which is `NeverForgotten`. The bound itself is not
  inductive: it says nothing of what may still come before the next poll. `InTime`
  adds that up: a stale profile, if its next fetch falls before the deadline, costs
  two units, a warm-up, if one may come before it, costs the look after it, and both
  still fit. `Judges` says the same of a row that has been written since the tick
  loaded it. A profile costs its units once because it is not fetched again for
  longer than the rest takes, a warm-up once because of the settle gap or, while a
  clock is about to run down, because it comes early enough (`Awake`). `EventsBuyTime`
  shows that a 429, a failure, a stand-down or a switch never costs more than its
  `Overhead`. Doing this proof corrected the property: its former bound did not
  count a warm-up and a profile in one wait, and held of the small instance only.
- `StoppedClocksStartAgain`, which is `StartsAgain`, where `LongWindow` holds: the
  window is longer than two of the longest waits and what the endpoint lags, than one
  wait and the settle gap, and a turn is judged no sooner than the endpoint knows of
  it. Five hours against ten minutes an account are that, up to a dozen accounts of
  one organization. `Rested` says what a row knows of the clock (`Knows`) and when the
  last warm-up was (`Attempted`): with nothing out of the ordinary none counts as a
  strike (`NoStrike`), none falls late in a running window (`WarmUpsComeEarly`), so
  that none stands in the way of the next, and a look at a stopped clock that is no
  warm-up is one of the first or waits for the phase (`LooksWarmUp`). `Wakening` is
  the deadline. The run's window is shorter than that; there the property is
  checked only.

## CodexProxy: requests, and the account they are tried on

`CodexProxy.tla` is `internal/codexproxy`'s handler with the three writers of the
serving pointer. A step is one attempt, one refresh (which `CodexRefresh` has in
detail), one answer, or one side of a writer: the lane's evaluation and its
`Execute`, `ccdad switch`'s check and its `Execute`, `ccdad remove`'s deletion and its
`ClearIfServing`.

| source | actions |
|---|---|
| `responses`, `chooseOrder` | `Ask`, with `Order`, `Lead`, `RankedEligible` |
| `send`, `streamBack`, `rememberThread` | `NoCredential`, `Unreachable`, `Streams`, `OutOfQuota`, `Fails` |
| `sendWithRefresh` | `Unauthorized`, `Refresh` |
| `LimitBook` | `MarkLimitedFor`, `Limited`, `Known` |
| `outOfAccounts` | `Exhausted`, `OutOfAccounts` |
| `EvaluateCodex`, `codexTick`, `codexFailure` | `Evaluate`, `Repoint`, `PollLimited` |
| `ccdad switch`, `ccdad remove`, `ccdad add codex` | `Choose`, `Execute`; `RemoveAccount`, `ClearIfServing`; `AddCodex` |
| world | `Ends`, `Exhaust`, `Tick`, `Restart` |

The plan of the lane is any order of the accounts it may rank. `sticky` is the
account whose turn state codex holds; one request per thread is under way, which
is how codex uses a thread. `doomed` is a history variable: the accounts removed
after somebody had chosen them, which `remove.go` cannot know of and of which
`PointerNamesAnAccount` makes an exception.

## Sessions: copies of one login

`Sessions.tla` follows one account through `ccdad run` (with a home of the
session's own, or the profile) and `ccdad probe`, while the daemon rotates the
stored copy and the user may log in again. A refresh token is a number, later ones
expire later. Claude Code rotates a home's grant under that home's own lock.

| source | actions |
|---|---|
| `newSession`, `newProfile`, `newProbeSession` | `Begin` |
| `seedSession`, `authorise` | `Seed`, `SeedFails` |
| Claude Code, the child's end | `Rotate`, `End` |
| `sessionLogin`, `adoptBack`, `removeSession` | `ReadBack`, `AdoptBack`, `RemoveSession`; an error keeps the home (`Keep`) |
| the rest of the machine | `Die`, `DaemonPolls`, `Login` |

`forgone` is a history variable: the grants that a login of the user's or a working
grant took the place of, and those overwritten in the profile's case, which is
the finding below.

Proved in `SessionsProofs.tla`, for any sessions in any mode, exchanges, logins and
failures: `SessionsTypeOK`, `SessionGrantKept` and `AdoptedIsAlive`.
Neither property is inductive: a home that is about to be removed says nothing of
the store. `IInv` adds `Single` (a grant found in two homes was stored once) and,
from it, `Outrun`: a grant spent under a home is no later than the stored one, so
comparing expiries is enough; `Settled` is what `adoptBack` leaves a home that is
going to be removed; `Carried` is what a session read before it was stopped.

Proved in `CodexProxyProofs.tla`, for any accounts, threads, pins and events:
`TypeOK`, `TurnStateStaysHome`, `AnswersAreHonest` and `PointerNamesAnAccount`.
`Homebound` relates what the daemon remembers of a thread to what codex holds for
it, across a restart; `Pointing` says that whoever is about to write the pointer
chose an account that was stored. `Quoted` carries the out-of-accounts answer: a
request told of a limit has an account behind it, not counted as dead, which the
book holds limited at least as long, and (`BookKeeps`) no entry that still runs is
ever moved forward, by another request or by a poll. That needs an order to name an
account once (`LeadOrders`): else the account that was limited could be tried again
and counted as dead.

Runs over these three modules:

- `Services.cfg` (`MCServices`): the three share no state in the code but the store,
  which is each module's own here, so their small instances are three
  behaviours of one graph, one per value of `scene`. 2.4 million states.
  - proxy: two accounts (symmetric), one thread of any pin, replays allowed, and
    two events (a login or a quota that ends, a failed call, a switch, a removal, a
    restart). Two accounts are what a replay takes; two events let one account be
    limited and the other die. The clock moves once, enough for a limit to pass.
  - poll: units of ten minutes, a window of four, empty or full (a half-used one
    would change nothing: the table's intervals are one unit), the backoff's
    ceiling at three, an account on its own or one of two that is not the live one
    at first, one event (a 429, a failure, a stand-down, a switch), nine units:
    one more than either bound of an account on its own with no event, so that
    both could be exceeded.
  - session: two sessions in either mode, two exchanges, one event.
- `SessionsProfile.cfg` (`MCSessions`) is a violation, and a bug: `run --full-profile`
  writes the stored blob over the profile's credentials file on every start. A
  second session, or the next one after a failed adopt-back, lays a spent grant over
  the only working copy.

## Windows without a run

Behaviour met while modelling that a comment of the code rules out or does not
mention, described here and checked by no run of the present set:

- `store.go:687` says a credential file already there belongs to a row. After a
  crash between `add`'s write and the save it does not, and adding that uuid again
  overwrites it with no journal entry.
- `switcher.go:462`: a foreign verdict about one file licenses overwriting
  another that is unattributed when the lock is taken (`switcher.go:197` calls
  that a race to refuse).
- `tokens.go:569`: a poll that read a snapshot before it moved on is told
  `invalid_grant`, and the account is quarantined with a usable grant.
- `tokens.go:399`: once Claude Code has rotated the live login, the inactive branch
  runs for the account that is live. `NoStomp` says what still holds.
- `tokens.go:255`: the band is tested before the POST and not after it.
- `tick.go:738`: a plan made without a baseline is executed after `resolveLive`
  found one, inside the cooldown.
- `lock.go:198`: two waiters judge one abandoned directory, and the second removes
  the one the first has just made.
- `lock.go:289`: a holder suspended inside `reassert` touches its successor's
  directory and recognises it as its own.
- `codexproxy/refresh.go:101`: when the rotated pair is pending, the replay reads
  the old token from the store.
- `daemon/codex_lane.go:231`: `codexPoll`'s deadline cuts an exchange whose grant is
  spent; `codexproxy/refresh.go:83` says only a daemon stop does.
- `daemon/codex_lane.go:298`: a poll's 429 without a Retry-After enters the limit book
  with `MarkLimited`, as a known instant, though ccdad chose it; `limitbook.go:31`
  says such a deadline "must not be reported back to codex as resetting at that
  instant", and the proxy then quotes it.
- `codexproxy/forward.go:154` knows one request per thread: with two, or with an answer
  that issues no turn state, `previous` may be another account than the one whose
  state the request carries.
- `usage/probe.go:236`, `daemon/tick.go:1362`: the poll a minute after a warm-up is too
  soon to count a strike and yet ends the wait, so a window no turn wakes is tried
  about every quarter of an hour; `cli/probe.go:342` says it backs off to six hours.
- `daemon/tick.go:1733`: the stand-down of an account and its renewal race the dispatch
  of the same tick (`tick.go:888`).
- `daemon/tick.go:1697`: `warmClamp` may bring the next look forward to a rollover under
  a floor set by a 429, although `tick.go:1418` puts congestion first.
- `usage/probe.go:79`: a warm-up whose clock the endpoint reports late may get a second
  turn after the settle gap.
- `strategy/rank.go:876`: `MainPoolExhausted` asks whether an account is past a threshold,
  where its comment says out of quota. `rank.go:844`: consume-first may park on an
  empty account, which `NoMoveOntoEmpty` leaves out.
- `strategy/antiflap.go:534` says of the last resort that "a credit account carries no
  plan windows at all"; `rank.go:567` says that is false. With one that does, while the
  main pool is past its thresholds and not empty, a pass preempts it for an account
  of the main pool and the next one buys back in: the preempting walk stops at the
  live account only if that one is in the order.
- `switcher/switcher.go:582`: the cooldown is stamped after the switch under another
  lock, so two evaluators can each switch once.
- `cli/run.go:852`: a session's grant carried back does not lift the quarantine its own
  rotation caused the daemon to impose. `run.go:894`: after a new login, a session
  of the earlier one with a later expiry overwrites it.
- `daemon/loop.go:24` allows "one spawn per hour"; a re-armed count (`recovery.go:69`)
  allows three in some 75 minutes. `cli/daemon.go:563`: a stop may signal the pid a
  stale file names. `credhome/claim.go:109`: between the lock and the owner file's
  write a reader meets the previous owner.

## Only model-checked, and why

Liveness (`CallsReturn`, `AcquireReturns`, `AbandonedIsReclaimed`,
`WornIsReplaced`) is outside the prover's reach. `SnapshotsMoveForward` is checked on
the instance above and not proved: it needs an order of generations along every lock
and adoption in flight, also across `resolveLive`'s rollback, which `Ledger` does not
have. `ServicesTypeOK` only joins the types of three modules, each of which has its own
theorem (`ProxyTypes`, `TypesHold`, `PollingTypesHold`). `NoStomp` with a human is
false, as said under Grants, and `StartsAgain` is open where the window is short
(`LongWindow`).

## Not modelled

In `StoreTx`: row order, aliases' uniqueness, the partition. In `Grants`: the
environment token override, the managed API key, the display hint of
`SetActive`, `/logout`, `ccdad run` session homes, removal of accounts, partial
keychain writes. The credential-home claim is a refusal that may happen at any
`Install`. In `DirLock`: the storage lock's own `createExclusive` on Windows and
the order of the three credential locks (`claude.go`). In `CodexRefresh` and
`CodexProxy`: the lane's cache commits and harvested readings, launch
authentication, admission limits and the byte stream. In `Ranking`: the forecast
behind hover, given per reading, and fractions of a percent. In `Polling`: several
windows of one account, and pruning. In `Sessions`: the choice of the account,
environment variables and API keys.

No module of their own: the daemon's life (singleton, replacement, shutdown) and
the credential-home claim, which were read for the windows above; the pure or
sequential parts (document merging, row order, configuration, history, forecast,
views, the terminal UI, the commands around the modelled packages), which unit tests
reach; and network, process and platform code. The components list gives the
reason for each.

## Plan

1. `StoreTx`, `Grants`, `DirLock`, `CodexRefresh` and their proofs (done).
2. `Ranking`, `Engine` and its refinement of `Hops`; `Polling`; `CodexProxy` with the
   serving pointer; `Sessions` (done).
3. `DaemonLife` with the credential-home claim: singleton, supersession, replacement
   budget, shutdown; `CredLocks`: the order of the three credential locks.
4. Proofs of what was only model-checked: `GrantNeverLost`, `NoStomp`,
   `NoRotationHandedOver`, the engine's invariants, the sessions, the proxy, the polls
   (done); `SnapshotsMoveForward`.
5. An abstract `Custody` specification (each account's grant has exactly one
   spender at a time) refined by `Grants` and `Sessions`.
