# Verification of ubgo/lock

TLA+ models of the lock family in this repository, the TLC runs that check them on small
instances, and TLAPS proofs of their main properties for instances of every size.  Module
and definition names follow the packages and functions they model; `PROJECT.json` maps every
definition to its source lines.

## 1. Inventory

The repository is a family of *non-blocking named locks*.  All backends share one contract
(`lock.go`): `Acquire` answers a `Holder` or `ErrLocked` at once, `Holder.Release` gives the
lock back, a `Holder` may carry a monotonic fencing token, and `WithMaxConcurrent(n)` turns
a name into a semaphore of n slots, probed one after the other.

| component | state it keeps | operations | what is hard | what makes it correct |
|---|---|---|---|---|
| `lock` | none: interfaces `Locker`, `Holder`, sentinel `ErrLocked` | `Acquire`, `Release` | the contract has to hold across backends | at most n inside; `ErrLocked` only if there was no room during the call |
| `memlock` | two maps under a mutex, atomic token counters | `Acquire`, `Release`, `WithLock` | token drawn outside the mutex; concurrent double Release | count = holders; limit; newest token |
| `filelock` | marker file per slot, fence sidecar, pid/start/host in the marker | `Acquire` (create, read, judge, take over), `Release`, `Sweep` | no kernel lock: every system call interleaves with every other process; crashes; pid reuse; several hosts | exclusion, only dead holders' markers are taken, dead markers are reclaimed, tokens increase |
| `flock` | lock file per slot, kernel advisory lock per inode, fence sidecar | `Acquire` (open, lock, bump), `Release` (close, remove) | name and inode drift apart; crash at any step | at most n inside; tokens increase |
| `redislock` | key with value and TTL per slot, fence counter on the server | `Acquire` (SETNX, INCR), `Extend`, `Release` (Lua) | expiry under a live Holder, lost and late commands, two commands per Acquire | nobody touches another's lease; stale holders have smaller tokens; orphans expire |
| `pglock` | advisory locks of sessions, a connection pool | `Acquire`, `Release` | pool exhaustion, cancelled queries, reentrant sessions, hash + slot wraps | at most n inside, no lock is left in the pool |
| `etcdlock` | leases, keys with create revisions | `Acquire` (session, TryLock), `Release` | keep-alive bound to a context, transient keys of losers, lost and late requests, prefix nesting | one living Holder per slot; it keeps the slot while its context lasts; stale holders have smaller tokens; keys left behind go away |
| `WithLock`, `AsLocker`, `contrib/gocronlock` | none | wrap Acquire/Release | which error wins, panics, one context for Acquire, body and Release | of callers that overlapped one is told nil at most; a failed Release is not for ever |
| `observe.go` of every package | an active gauge | hooks | every way in which Acquire, body and Release can end | gauge = holders |

The packages do not call one another.  What interacts is the callers of one backend:
goroutines of one process share a `Factory`; processes share a directory (`filelock`,
`flock`) or a server (`redislock`, `pglock`, `etcdlock`), and the only messages are system
calls and commands.  `PROJECT.json` lists the hazards, each at its line.

## 2. Modules

`LockSpec` is the abstract contract: callers are out, trying, in or refused; a caller is
granted a place when fewer than N are in, and refused only when N are.  `Abandon` (another
error, or the end of the process) is not part of its `Next`: the backend that needs it says
which of its own steps abandon a call.  A step that could also be the answer `ErrLocked` is
not excused in this way: an `AcquireError` of flock, or a failed query of pglock, that ends
a call like a refusal has to be a legitimate refusal whenever the guard of the refusal holds.
memlock (per name), flock and pglock (per slot) and filelock (singleton) have an
`ImplementsContract`; redislock and etcdlock break it by design, since a lease may end under
a Holder, and have fencing properties in its place.

Every backend has a module with its state machine and properties and a `...Proofs` module;
an `MC...` module has the values of the constants that the `.cfg` files name.  `WithLock`
extends `RedisLock`: it composes the backend with its helpers, and its runs check the
properties of both.

**FileLock** (`filelock/`).  `path[s]` is the marker on slot s: absent, or who created it
and the acquired time, 0 for a file that was created and not yet written.  That file parses
as a marker whose fields are all zero (`readMarker`), which is what `probeMarker` and
`timeExpired` see.  `by` stands for pid, pid_start and host, which `buildMarker` takes from
the process.  The debug fields are never read back and are left out.  `writeMarker` buffers,
so the marker appears in one write.  Processes are incarnations: a restarted service is a
new element of `Processes`, which may have the pid of a dead one.  `call[c]` is the program
counter and the locals of the Acquire or Sweep of c (what it read, the slot, the fence
value), or its Holder. Every system call that others can see is one action: `TryCreate`,
`WriteMarker`, `ReadMarker`, `RetryCreate`, `JudgeMarker`, `TakeoverRename`, `ReadFence`,
`WriteFence`, `Release`, `SweepRead`, `SweepJudge`, `SweepReread`, `SweepRemove`; the
`...Fails`, `...Error` and `Skips` actions are their error paths.  When writing or closing a
new marker fails, the removal of the path may fail too, and nobody looks at its error: the
marker stays (`WriteMarkerFails`).  Sweep visits the slots in any order: the listing sorts
names, so that slot 10 comes before slot 2, and nothing depends on it. `isStale`, `probeMarker`,
`probePID`, `isAlive`, `processStartTime` and `timeExpired` are operators with the code's
names.  In singleton mode the one slot is slot 0 of the model.  `WriteFence`, here and in
FLock, has the case of a rename that answers `ErrExist`: the code takes the number for
written although the file still has the old one.

**MemLock** (`memlock/`).  `held` and `tokens` are the two maps.  `TakePlace`/`Refuse` are
the critical section of Acquire, `Bump` is the atomic add after it.  `Release` is the
compare-and-swap, `FreePlace` the winner's critical section; several `Releasers` may call
Release on one Holder.

**FLock** (`flock/`).  `file[s]` is the inode that a slot's name is linked to, `owner[i]`
the caller whose descriptor has inode i locked.  `OpenExisting`/`OpenCreates`,
`TryLock`/`Contended`, `Release` (close) and `Remove` (unlink) are separate steps.
`UnlinkOpen` tells Unix, where an open file can be removed, from Windows, where `os.Remove`
of an open file fails.  Inodes are reused when nothing refers to them.

**RedisLock** (`redislock/`).  `key[s]` has a value and the ticks left, `fence` is the INCR
counter, `late` holds the commands that their caller gave up on (context ended, connection
broke): they are delivered later, or never, in any order.  The two Lua scripts and SETNX are
operators on `key`; `SetNX` and `Incr` are separate steps of Acquire.  `Overrun` is the set
of labels at which a lease may run out under its owner; at the other labels the caller is
quick.  Values are random 128-bit strings in the code: `Fresh` draws one that nobody knows.
`Crash` takes the callers of one process.

**WithLock** (`redislock/factory.go`, `locker_adapter.go`, `holder.go`, `observe.go` and
`contrib/gocronlock/`).  Each action is one of RedisLock with what the layer above adds to
it.  `job[c]` says whether c has the Holder in its hands or inside a helper (`WithLock`, or
an adapter and gocronlock on top of it), and whether its context has ended.  A helper has one
context for everything: `EndContext` ends it at any moment after the start, and from then on
commands are not sent (`NotSent`), so that `Finish` is impossible and `FinishError` returns
an error without a Release.  A body returns nil or an error or panics (`bodyResults`), and
its error wins over that of Release (`result`); `releaseResult` is nil or `ErrLockLost`.
Only a caller with the Holder can `Extend`.  `gauge` is the sum of `ActiveLocksDelta` per process.
`told` and `beaten` are ghosts: who was told nil in the last step, and who was in the same
slot at that moment.

**EtcdLock** (`etcdlock/`).  `leases` are the leases that the cluster has, `create[s][l]` the
create revision of the key that lease l has under the prefix of slot s, `rev` the revision
counter (only the writes that create keys are counted: revisions of other writes order
nothing).  Every attempt at a slot opens a session of its own (`NewSession`), puts its key
and looks for the oldest in one transaction (`TryLock`), deletes it again when it lost
(`DeleteKey`), and closes the session (`Close`, `NextSlot`).  The behaviour of
`concurrency.Session` and `concurrency.Mutex` is modelled from its use and marked external:
a session keeps its lease alive until it is closed or the context of Acquire ends
(`KeepsAlive`), and Close revokes the lease with that same context (`CloseError` when it has
ended).  A put of the key that its caller gave up on may be executed later (`late`): the
transaction of a TryLock that failed, or the put of a TraceID, whose error Acquire drops.  The
second finds the key there as long as the Holder has it, and then changes no create revision;
after Unlock it creates the key again.  So it need not be known before Unlock whether it is on
its way, and `Unlock` makes that choice (`TraceMayBeLate`).  `MaxLate` bounds the puts that
are on their way at a time.  `Faults`
selects ended contexts, failing requests, partitions beyond the TTL and crashes.

**PgLock** (`pglock/`).  A connection has two ends: `client[s]` is what the pool knows of it
(not open, idle, used, or used and closed), `server` the sessions that Postgres has.
`lock[k]` is the session that has the advisory lock of a slot's key, and how often, since
Postgres grants a lock again to the session that has it; `xid` is `txid_current()`.  Acquire
waits for a connection (`PoolTakes`, `PoolOpens`), tries the lock (`TryLock`, `Refused`,
`TryError`) and draws the token (`Txid`, `TxidError`); `Release` and `ReleaseError` unlock
and return the connection.  The behaviour of pgx and pgxpool is modelled from its use and
marked external: a query whose context has ended already is not sent and leaves the
connection open; a query that fails halfway closes it, and the server may have executed it;
a pool has at most `MaxConns` connections and its callers wait; an idle connection may be
closed at any time (`Retire`); the server notices a closed connection some time later
(`Disconnected`).  `Faults` selects what may go wrong.  Once the
`released` flag is set further Releases do nothing, so a Holder is released once.

Definitions whose names say so (`...NoExcl`, `...OffByOne`, `...Unbounded`, ...) and that
stand right before the definition they vary are deliberate bugs, used to show that every
property can fail.  No specification uses them.

## 3. Runs

| run | instance | shows |
|---|---|---|
| `filelock_exclusion` | 3 lockers, 1 sweeper, 2 slots, all file operations may fail, nobody dies (660k states up to symmetry) | `MutualExclusion` per slot, `AtMostN`, `HolderKeepsMarker`, `TypeOK` |
| `filelock_contract` | 3 lockers (2 in one process), 1 sweeper, 1 slot, window of one tick, no failures | refinement of `LockSpec` (`ImplementsContract`), `FenceStrict` |
| `filelock_recovery` | 3 lockers, 1 sweeper, 2 slots, 2 machines, crashes, a restart with a reused pid, failing removals in Sweep | `JudgedDead`; under fairness `DeadMarkerReclaimed` and `AcquireReturns` |
| `filelock_exit_race` | 3 processes that end only while idle | **violates** `MutualExclusion` |
| `memlock` | 3 callers, 2 names (limits 1 and 2), 2 releasers per Holder | `CountIsHolders`, `WithinLimit`, `HolderHasNewestToken`, `ImplementsContract`, `TypeOK` |
| `flock_windows` | 3 callers, 2 slots, releases, crashes, failing calls | `OpenFileIsLinked`, `AtMostN`, `ImplementsContract` per slot, `TypeOK` |
| `flock_unlink` | 2 callers, 1 slot, Unix, Release | **violates** `AtMostN` |
| `withlock` | 2 callers of one process, 2 slots, TTL of 2 ticks, late commands, leases that run out under Holders, ended contexts, crashes (560k states) | `LostOnlyByExpiry`, `NeverRegained`, `Fenced`, `OneNil`, `GaugeExact`, `TypeOK`, `JobTypeOK`; under fairness `OrphanFreed` |
| `pglock` | 3 callers, 2 processes, pools of one connection, all faults but an ended context in Release | `AtMostN`, `Fenced`, `PoolClean`, `ImplementsContract` per slot, `TypeOK`; under fairness `GrantedIsFreed` and `AcquireReturns` |
| `pglock_cancelled_release` | the same, and ReleaseContext may be called with an ended context | **violates** `PoolClean` |
| `etcdlock` | 2 callers, 3 leases, 2 slots, late puts, all faults but partitions (600k states) | `MutualExclusion` per slot, `Fenced`, `KeptWhileContextLives`, `TypeOK`; under fairness `KeyFreed` |
| `etcdlock_ended_context` | 2 callers, 1 slot, contexts end and nothing else goes wrong | **violates** `HealthyHolderKeepsLock` |

What the violations show, against what the repository says:

- `filelock_exit_race`: b fails to create, reads a's marker; a releases and its process
  exits; c creates the marker and holds; b probes a's pid, finds it dead and renames its own
  marker over c's.  Two Holders, and no process crashed.  `docs/design/races.md:24-25`:
  "either you win or you see ErrLocked. No check-then-take."
- `flock_unlink`: between close and remove, another caller locks the file that is then
  unlinked; the next Acquire, of either caller, creates and locks a new one.
  `docs/guides/flock.md:183` calls the removal "cosmetic".
- `pglock_cancelled_release`: `ReleaseContext` with an ended context does not send the
  unlock but returns the sound connection, whose session keeps the lock until the pool
  retires it. `WithLock` and the adapter pass on the caller's context, so a job whose
  deadline has passed leaves the lock behind. `pglock/README.md:49-50`: "On Release, runs
  `pg_advisory_unlock($1)` and returns the connection."
- `etcdlock_ended_context`: a caller acquires with a context that has a deadline.  Acquire
  returns, the deadline passes, the keep-alive of the session stops with it, the lease
  expires under the Holder, and the next caller gets the slot.
  `docs/guides/etcdlock.md:77-78`: "Healthy holders never lose the lock."

The same models have nine more counterexamples, which the properties above exclude by their
configuration and which `PROJECT.json` notes at the hazards: a process that dies between creating and writing its
marker leaves an empty one, without pid and time, that nothing ever removes; Sweep removes the marker of a
takeover that came after its second read; two takers-over of one dead marker draw equal
tokens; in the semaphore modes of filelock and flock a delayed write puts the fence back, and
a later Holder gets a smaller token than an earlier one (`flock/fence.go:13-15`: "a single
monotonic sequence covers all holders"); a reused pid without start times keeps a marker for ever, since an alive probe never
consults the window; a fence file of flock that cannot be read gives token 1 and not 0;
`Extend` with `WithTTL(0)` deletes the key; a redislock caller that is paused between SETNX
and INCR until its lease is over draws the larger token (`Overrun` with `"incr"` violates
`Fenced`, against `redislock/README.md:159-162`: "Fencing tokens stop A's write
downstream"); a TryLock of etcdlock that sees the key of a loser answers `ErrLocked` although
the Holder has released.  What they say about captured contexts also contradicts
`docs/guides/gocronlock.md:80-81`, "cleanup uses `context.Background()`".

**Bounds.**  Each is a named constant in a guard.  `MaxFence` stops new Acquires once so
many tokens were given; every call that has started runs to its end.  In `filelock_recovery`
the fence wraps at 2 (`FenceMod`, the uint64's range), so
callers acquire for ever and liveness is not an artefact of the bound.  `MaxTime` lets a
window of one tick run out.  Three lockers are needed for the races at hand (owner,
newcomer, somebody in between); two slots for the slot loop.  `CrashPoints` has one label
for each state in which a dying process can leave the disk; all labels together give the
same set of states.  In `withlock` `MaxFence` is 1, which both callers may pass before the
first token is drawn, and which failed INCRs do not raise, so that callers also acquire one
after the other; `MaxLate` is one command without a caller, for which the third value is
left.  In `etcdlock` the third lease is that of a session which its caller has left, and
`MaxLate` of one is the put of such a session or of the other caller.
`MaxRev` of 2 is passed in the same way by calls that have started, and by late puts.
`pglock` has one slot: with one connection per process two Holders are the most there can be,
so that a limit of two could not be exceeded.  What happens at the limit of its slot loop is
left to the theorems `SessionExclusion` and `SlotIsALock`, which are about every N.
`MaxXid` stops new Acquires in PgLock; every Acquire that has started returns and every
Holder is released.  `MaxConns` is 1 so that callers of one process really wait for each
other; the second session of that process replaces a connection that the server has not
forgotten yet.  Symmetry is used in safety runs only (of the lockers of `filelock_exclusion`,
whose pids differ and tell no more than that).

**Fairness.**  `FileLock!Fairness`: goroutines that can run do (weak fairness of each
caller, which includes that Holders are released and callers call again: cron jobs, Sweep on
a timer), the clock runs, and Sweep is not cancelled, and its removal does not fail, every
single time it comes to a marker (strong fairness).  `WithLock!FairJobSpec` assumes the
server's clock, and that a caller between SETNX and INCR gets on, since the clock waits for
it there; no helper need ever finish.  `EtcdLock!FairSpec` assumes only that a lease which
nobody keeps alive expires.  `PgLock!FairSpec`: callers get on and release their Holders, the
pool serves those who wait in turn (pgxpool's queue: strong fairness of getting a
connection), and Postgres notices a closed connection some time.  No context need end while
its caller waits, so `PoolError` is not fair. Safety properties use no fairness.

**Deadlock** is checked where callers always have a step left; in the other runs
(`CHECK_DEADLOCK FALSE`) the bound on tokens, or the death of all processes, ends the
behaviour.

## 4. Proofs

All theorems hold for every number of callers, processes, slots, names and values, and rest on
the named `ASSUME`s of the constants, which the runs evaluate.

Five of them are refinements.  `MemLockIsASemaphore`, `SingletonIsALock` of filelock, and
`SlotIsALock` of flock and of pglock are about `LockSpec`: every step is a step of the
contract, one that it cannot see, or one of the abandoning steps that the property names;
`HelpersAreClients` shows that the callers of the helpers are callers of redislock.  Each of
the first four follows one scheme: `Seen` is the contract's state of one caller as a function
of its call, `ContractUpdate` turns a step of one caller into an `EXCEPT` of the contract's
state, a lemma says what the backend's own test (`held[n]`, the kernel lock, the file,
`pg_try_advisory_lock`) says about the number of callers inside, and `ContractStep` has one
step per action.

- `MemLockProofs`: `TypeCorrect`, `CountCorrect` (`CountIsHolders /\ WithinLimit`),
  `LimitKept`, `NewestToken`.  The inductive invariant `MemInv` adds `OneWinner`: at most one
  releaser of a Holder won the compare-and-swap and has not freed the place yet, and the
  Holder's `released` flag is set from then on.  Without it a second decrement could not be
  excluded.  Tokens need `WithinLimit`: in singleton mode nobody else is between the critical
  section and the counter.  `MemLockIsASemaphore` (`Spec => ImplementsContract`): for every
  name and limit the count that Acquire reads under the mutex is the number of callers inside
  (`InIsOwners`), so that `ErrLocked` means that all places are taken.
- `FileLockProofs`: `TypeCorrect`; `TakeoverOnlyFromDead` (`ProbeDecides => (Spec =>
  []JudgedDead)`): the invariant `LifeInv` says that no two running processes of a machine
  have one pid, that callers with a call run, and that whoever wrote a marker on the disk or
  in a caller's hands has started, so that a probe that answers "dead" is right and stays
  right.  `ProbeDecides` is the case in which the probe is trusted: hostnames identify
  machines, processes agree on start times, and the window is not set, not consulted, or every
  probe is conclusive.  `Exclusion` (`ProbeDecides /\ CrashAt = {} => ...`): mutual exclusion,
  `HolderKeepsMarker` and `AtMostN` while no process ends, whatever operations fail;
  `OwnersOnDisk` gives every caller past the creation its own marker on the disk.  The
  hypothesis on process ends cannot be dropped: `filelock_exit_race`.  `MarkerStays` and
  `LimitKept` are the last two parts of `Exclusion` by themselves.  `FenceRises`
  (`QuietSingleton => (Spec /\ [](fence + 1 < FenceMod) => FenceStrict)`): in singleton mode,
  with a fence file that works, tokens strictly increase.  `ReadIsCurrent` says that the
  number a caller has read is still in the file, since the marker keeps everybody else out of
  both steps of `bumpFence`.  The second hypothesis says that the uint64 does not wrap, which
  the code does not guard; in the run the bound on tokens keeps it true.  `SingletonIsALock`
  (`FilesWork /\ N = 1 => (Spec => ImplementsContract)`): a refusal is decided when the marker
  is read, when a retry finds a file, or when the marker is judged; `DiskOwned`, the converse
  of `OwnersOnDisk`, says that whatever file is found then belongs to a caller that is inside.
  It needs that writes and removals of markers do not fail (`FilesWork`): a marker that could
  not be removed refuses everybody although nobody is inside, and a failed write ends Acquire
  with another error, which the contract of filelock has no step for.  The fence may fail.
- `FLockProofs`: `TypeCorrect`; `KernelExclusion` (`NoUnlinkRace => (Spec =>
  [](OpenFileIsLinked /\ AtMostN))`) and its first part, `OpenFileStaysLinked`, for Windows
  with everything, and for Unix without Release.  `LinkInv` ties an open descriptor to the
  name of its slot and the kernel lock to its caller.  `flock_unlink` is the counterexample
  without the hypothesis.  `FenceRises` (`SingleReader => (Spec => FenceStrict)`): in
  singleton mode, while the fence can be read, tokens strictly increase; `ReadIsCurrent` says
  that the number a caller has read is still the one in the file, because nobody else is past
  the kernel lock.  The file has every token that was given, unless a rename answered
  `ErrExist`: then the next Holder gets the same one.  `SlotIsALock` (`NoUnlinkRace => (Spec => ImplementsContract)`), through
  crashes and failing calls: `ContractInv` adds `OwnerHolds`, the locked inodes are those of
  callers inside, and `SlotOfFile`, no two names are linked to one inode.
- `RedisLockProofs`: `TypeCorrect`; `LeaseIsSafe` (`TTL # 0 => (Spec => LostOnlyByExpiry /\
  NeverRegained)`) and its second part, `LeaseStaysLost`: values are unique (`UniqueValues`)
  among Holders, and the late commands with a Holder's value are its own Extends, so no
  command of somebody else matches its key.  `TokenFencesLostLease` (`TTL # 0 /\ "incr" \notin
  Overrun => (Spec => []Fenced)`): a caller between SETNX and INCR still has its key, so
  whoever draws a token has the key of its slot at that moment, and no token exceeds the
  counter.
- `WithLockProofs`: `HelpersAreClients` (`JobSpec => Spec`): each action of WithLock implies
  one of RedisLock or leaves its state alone, so all theorems about RedisLock hold under the
  helpers.  `AtMostOneNil` (`TTL # 0 => (JobSpec => OneNil)`), from the invariant that a
  caller in `beaten` does not have its key, which `NeverRegained` preserves: Release then
  answers `ErrLockLost`.  `GaugeCorrect` counts Holders with cardinalities of finite sets;
  `JobTypeCorrect` follows, since a count is never negative.
- `EtcdLockProofs`: `TypeCorrect`; `OneHolderPerSlot` (`MutualExclusion`), under all faults,
  partitions included.  `SessionInv`: a lease is the session of one caller, and a late
  put belongs to a session that is being closed or was, so neither can touch the key
  of a Holder.  `KeyInv`: no key is younger than the counter, and the key of a living Holder
  is strictly older than every other key of its slot, which two Holders cannot both have.
  `TokenFencesLostLease` (`Fenced`): only TryLock makes a Holder, with a token above all
  before.  `HolderKeepsSlot` (`"partition" \notin Faults => (Spec =>
  []KeptWhileContextLives)`) adds that a Holder whose context lasts has its lease.  That the
  condition on the context cannot be dropped is what `etcdlock_ended_context` shows.
- `PgLockProofs`: `TypeCorrect`; `SessionExclusion` (`AtMostN`), from `LiveOwns`: a caller
  with a living session is the one the server has down for its key, and `OneUser`: a
  connection has one user, so that reentrance never lets a second caller in.
  `TokenFencesLostSession` (`Fenced`), from `TokensDrawn`: no token exceeds the counter, so
  that the one which a caller draws on its own living session is larger than all before.
  `ReleaseCleansPool` (`"cancelRelease" \notin Faults => (Spec => []PoolClean)`), from
  `Accounted`: every granted lock was granted once, and is its user's or that of a closed
  connection.  The hypothesis is the one that `pglock_cancelled_release` drops.  Under the
  same hypothesis `SlotIsALock` (`Spec => ImplementsContract`): by `LiveOwns` and `OneUser` a
  key that is available has nobody inside, and by `Accounted` one that is not has a caller
  inside or is `Unnoticed`, the lock of a connection that was closed and that the server still
  has a session for.

Every invariant and every action property that a passing run checks is stated by one of these
theorems, for every number of callers, processes, sessions, inodes, leases and names.  Each
hypothesis describes the environment (`ProbeDecides`, `CrashAt = {}`, `NoUnlinkRace`,
`FilesWork`, no partition, no ended context in a Release, callers that are quick between SETNX
and INCR), an option (`TTL # 0`) or the mode: `N = 1` where a token must increase or where
`ErrLocked` is about one place, which semaphores do not promise (section 3).  The instances of
the runs that check these properties satisfy them, and the counterexamples of section 3 show
what happens outside of them.

Only model-checked: all liveness, that is `DeadMarkerReclaimed`, `AcquireReturns` (of filelock
and pglock), `OrphanFreed`, `KeyFreed` and `GrantedIsFreed`.  TLAPS has no rules for `WF`/`SF`
that its provers here support, nor for `ENABLED`.  No recursive definition is used, so no
induction over data is needed.

## 5. Not modelled, and plan

Left out of the modelled packages: the directory listing order across lock names and
non-marker files in Sweep, temporary files that a crash leaves behind, the early returns for
a cancelled context and for a directory that cannot be made (they change nothing), hooks,
trace ids but for the put of etcdlock, further Releases of a Holder (they answer nil and do
nothing; `OneNil` speaks of the first one), drift of the cached boot time and equal hostnames on two machines (excluded by
`SoundIdentity`), callers with different n for one name (documented misuse),
`SET application_name` of pglock (best effort, no lock state), Redis replication and
failover (documented).

The helpers of filelock, flock and memlock are not composed with their backends: they
add no context, and their error rule is the one of `WithLock`.  Of the hooks only the gauge
is modelled.  The nesting of etcd prefixes and
everything else about several lock names belong to the key layout.

Next, in this order:

1. `KeyLayout`: paths and keys of different names and slots are different (`job.1` against
   slot 1 of `job`, `job:fence`; hash + slot in the 64 bits of pglock, which wrap and
   overlap; a lock `a/b` of etcdlock, whose keys are also under the prefix of `a`).
2. A ghost of the moments of refusal for semaphores, and for the transient keys of etcdlock:
   `ErrLocked` although at no moment all slots were taken.
3. Proofs: the mutual exclusion of filelock while processes may end at the labels at which an
   end is harmless, and the properties of the two items above.
