# A TLA+ model of mongoqueue

mongoqueue is a fair, multi-tenant job queue on MongoDB, written as a Go
library. This directory specifies its protocols in TLA+, model-checks them with
TLC on small instances and proves the most important results for every instance
with TLAPS. Source positions are given as `file.go:line`; `PROJECT.json` maps
each definition to the lines it models.

## The system

The library runs inside callers' processes. It has no threads of its own, no
server and no sweeper; every operation is a method called by some goroutine.
Two kinds of state exist:

- **durable**: one MongoDB collection of jobs, shared by every node, changed by
  single-document commands the server applies atomically;
- **soft**: one virtual-time cache per `Queue`, shared by its goroutines,
  guarded by a global mutex, one mutex per timeline, atomics and a mutex for the
  frontiers. It is rebuilt from the collection at any time.

| component | state | operations | interacts through |
|---|---|---|---|
| virtual-time arithmetic (`vtime.go`) | none | `stride`, `nextVStamp`, normalizations | called by the cache |
| job store (`job.go`, filters in `claim.go`, `lease.go`, `resolve.go`, `queue.go`) | job records | insert, claim, fenced update, cancel, reads, TTL deletion | commands to the server |
| leases (`claim.go`, `lease.go`, `resolve.go`) | the record's claim id and `visible_at`; a private job id and claim id in each `ClaimedJob` | `Claim`, `Heartbeat`, `Release`, `Complete`, `Cancel`, `Get` | the store only; workers never talk to each other |
| virtual-time cache (`vtimecache.go`) | map of timelines to entries, last frontier of each partition | `reserve`, `Commit`, `Abort`, `refreshLWM`, `invalidateAndEvict` | locks; two hooks that query the store |
| queue (`queue.go`, `enqueue.go`) | none beyond these | `enqueue`, `Reconcile`, seed and frontier queries | cache and store |
| retention (`EnsureTTLIndex` in `queue.go`) | the TTL index of the collection | `EnsureTTLIndex` | a server command; the server deletes resolved jobs |
| Kind facade, `EnsureIndexes`, node id, test harness | none | marshalling, constant administrative commands | - |

A *timeline* is a (tenant, partition) pair. An enqueue locks its timeline's
entry, seeds it if needed, computes a stamp (vtime plus cost over weight),
inserts the job with that stamp while it still holds the lock, then commits or
aborts. A claim takes the visible pending job with the lowest (stamp, id). The
*frontier* of a partition, the highest stamp among jobs that carry a claim id,
floors the seed of a timeline.

What is hard, component by component:

- arithmetic: wrapping and truncation at the edges of the range;
- leases: stale handles, expired leases, races for the terminal write, lost
  replies, collected and reused ids, two-command cancels;
- cache: eviction racing a lookup, a walk that must not block on an entry and
  yet must not miss one, marks set and cleared without the lock, errors at every
  database call;
- queue: reads of two moments combined, frontiers stored late, inserts whose
  outcome is unknown or that arrive after their caller left, other writers on the
  same timeline, restarts;
- dispatch: clocks of many tenants, on several nodes, that only agree through
  what they read from the collection;
- retention: durations cut to seconds and to 32 bits, an index created over jobs
  that resolved long ago.

`PROJECT.json` lists these hazards at their lines.

### What makes each component correct

- *Arithmetic*: stamps of a timeline strictly increase, never wrap, charge what
  was declared; overflow is reported only when it is real.
- *Store and leases*: one claimer during a lease; one terminal write; no pending
  job lost; a claim that ended never acts again; abandoned claims return.
- *Cache*: one writer per timeline; a walk makes every timeline re-seed, blocks
  on none and spares the frontiers in use; unused entries go; no lock is leaked.
- *Queue*: a new stamp exceeds every pending stamp of its timeline; what the cache
  cannot know of is respected after the next reconcile; stored frontiers converge.
- *Dispatch*: newcomers join at the point of service, weighted shares, no
  starvation.
- *Retention*: no job is deleted sooner than asked, and never as it resolves.

## Modules

An arrow points at the module that is extended; `=I=` is an `INSTANCE`.

```
 VTime <-- Timeline <-- MCTimeline
   ^
   |--- VTimeCache <-- CacheHistory <-- MCCacheHistory
   |        ^
   |    FairQueue <-- FrontierHistory
   |      |   ^------ ForeignInserts
   |      |
   |      '==I== QueueStore
   |                ^
   '--- Dispatch ==I' <-- MCDispatch <-- Starvation, MCPlacement, MCFairShare
          ^--- Placement <--------------------------'            |
          '--- FairShare <---------------------------------------'

 JobStore <-- QueueStore <-- Retention <-- MCRetention
   ^
 Leases <-- LeasesRefinement <-- MCLeases        LeasesRefinement =I= JobLifecycle
```

The proofs are in modules of their own, each extending the module it is about:

```
 VTime_proofs <-- Timeline_proofs
   ^   ^
   |   |--- VTimeCache_proofs     (about VTimeCache and CacheHistory)
   |             ^
   |        FairQueue_proofs      (about FairQueue and ForeignInserts)
   |
 Dispatch_proofs ==I== JobStore_proofs      (about Dispatch, Placement and FairShare)

 JobStore_proofs <-- Leases_proofs          (about Leases and LeasesRefinement)
              ^----- Retention_proofs
```

### Arithmetic

**VTime** is `vtime.go` as operators. Every Go operation that could wrap goes
through `Wrap`, two's complement of a width given by `MaxInt`, so the absence of
wrapping is a result. **Timeline** applies an arbitrary sequence of enqueues to
one timeline.

### Store and leases

**JobStore** holds the collection, `jobs`, and each filter and update document
as an operator. Server time appears in the code only in `visible_at <= $$NOW` and
in `$$NOW + d`; a record therefore keeps `visible_in`, the milliseconds left
until `visible_at`, and a tick of the server's clock decrements it. Absolute
times would only add a counter without bound. Job ids are numbers because
`claimSort` breaks ties by their order. `visible_in` is blanked when a job is
resolved, since no filter that reads it matches a resolved job.

**QueueStore** adds the reads of `queue.go` (`Edge` is `seedTenantVtime`, `Frontier`
is `computeLWM` taken at one instant, `Fenced` and `PendingIn` are its two queries)
and `StoreStep`, one step of any worker, canceler, the TTL monitor or the clock.
A lease operation is taken there only when its fence matches, since one that does
not changes nothing.

**Leases** adds the callers. `handles` is the set of `ClaimedJob`s still in use;
a handle carries the job id and claim id captured at claim time. Each command is
one step at the instant the server applies it. A call that is delayed, or whose
reply is late or lost, needs no state of its own: the handle's fields never
change and its methods read nothing else, so such a call behaves as the same call
made later, by a worker that may make any call at any time with any handle. Only
two cases are visible to somebody: the lost reply of `Claim` (`ClaimReplyLost`)
and the time between the two commands of `Cancel` (`cancels`). Two history
variables serve the properties: `promise`, how much of the granted lease is left
to each claim in the caller's nanoseconds, and `ended`, the handles whose claim
is over as far as the server has told anybody.

**JobLifecycle** is the abstract specification: a job is gone, waiting, leased to
a claim, lapsed (its lease ran out, its claim still counts) or done with one
resolution, and a worker needs a ticket to renew, give up or finish a lease.
There are no records, filters, clocks or timestamps in it. **LeasesRefinement**
maps `Leases` onto it: `StageFor` reads the stage off the record and off what is
left of the promise, and handles are the tickets. A tick may end several leases
at once, which is why `Lapse` takes a set of jobs.

### Cache and queue of one node

**VTimeCache** is `vtimecache.go` and the control flow of `enqueue` and
`Reconcile`, one step per critical section under `mu` or `lwmMu`, per entry-lock
acquisition, per atomic operation and per database call. `pc` names the step a
goroutine is at; the entry lock is the field `holder`. Entries live at addresses
(`Ref`) because the code's hazard is two goroutines holding pointers to different
entries of one timeline. An address is reused when nothing points at it, the
lowest first (which one is irrelevant). The fields of an evicted entry other than
`evicted` are blanked: nothing reads them. `TryLock` may also fail while a waiter
is queued, as `sync.Mutex` allows. Database answers are arbitrary in this module:
`HookStamp` gives the stamps the hooks return; hooks may fail or find nothing;
inserts may succeed or fail.

**CacheHistory** watches VTimeCache to tell seeds and reserves older than the
last reconcile from newer ones. Its history variables are only assigned and occur
in no guard. The watch begins where a call of `Reconcile` leaves its refresh phase,
on every path, so a call that gives up after a failed refresh owes a walk too.

**FairQueue** extends VTimeCache and replaces its arbitrary answers by queries on
the store: `ClockQuery` and `FallbackQuery` are the two reads of `computeLWM`,
two steps, and `EdgeQuery` is the seed. `InsertApplied` and `InsertFailed` are the
outcomes of `InsertOne` the caller learns; `InsertUnknown`, an insert applied and
yet reported as an error, belongs to `UnknownSpec` only. `StoreStep` moves the jobs
underneath at any moment. `Restart` empties the cache and keeps the store.

**FrontierHistory** records every frontier a partition has had.

**ForeignInserts** lets jobs reach a timeline behind the cache's back, at every
step of an enqueue or a reconcile: from another node that writes the same timeline
against the rule of `EnqueueOpts`, from a predecessor process, or from an insert
abandoned at its deadline and applied later. All the cache can see of any of them
is a record with some stamp, so one action, `ForeignInsert`, stands for the three.
`known`, `seen` and `must` compute which pending jobs an enqueue has to respect.

### Many tenants, several nodes

**Dispatch** takes an enqueue or a reconcile as one step and keeps what each
leaves behind on every path: per timeline the entry in the cache of its home
node, per node the stored frontiers, and the jobs. Each path of `reserve` is
there (warm; marked stale; seeded before; cold, which refreshes the frontier),
as are failed seeds and inserts, reconciles with any set of failed refreshes,
restarts, and the whole life of the jobs. Cost and weight are those of each
enqueue, as `EnqueueOpts` has them. That single steps suffice for each
cache is what the previous group checks. **Placement** adds, for every node and
partition, the lowest frontier since the node last re-read it. **FairShare** adds
what each job is worth to its tenant, its own cost over its own weight, and, for
every pair of tenants, the service received while both wait. These variables too
are only assigned and occur in no guard. **Starvation**
restricts Dispatch to an application that follows the documentation and states
its fairness.

### Retention

**Retention** is `EnsureTTLIndex`: the truncation to seconds, the refusal of what
does not fit, the conversion to an int32 that would wrap without it, the server's
answer when the index exists with the same or another value, and lost answers;
then the TTL monitor, which deletes by age, while jobs are claimed, resolved and
canceled and time passes.

Definitions whose comment begins with "Mutation" are plausible mistakes in the
definition that follows. They are used by no specification and show which
property notices them.

## Model checking

| run | configuration | states | instance |
|---|---|---|---|
| `timeline` | `MCTimeline.cfg` | 3.6 k | all five-bit costs, weights and vtimes, scale 3 |
| `leases` | `MCLeases.cfg` | 47 k | 2 jobs, 2 claim ids, 1 canceler, leases of 0, 1 and 3 ns with 2 ns to the millisecond, a clock that does not stop |
| `cache` | `MCCacheHistory.cfg` | 876 k | 3 enqueues, 2 reconciles, 1 timeline |
| `cache_fair` | `CacheFair.cfg` | 84 k | 2 enqueues, 1 reconcile, 1 timeline, frontiers and edges 0 and 1, fairness |
| `fair_queue` | `FairQueue.cfg` | 510 k | 1 enqueue, 1 reconcile, 2 job ids, stamps up to 2, fairness |
| `foreign_inserts` | `ForeignInserts.cfg` | 473 k | 1 enqueue, 1 reconcile, 2 job ids and foreign jobs with any stamp up to 2 |
| `placement` | `MCPlacement.cfg` | 145 k | 2 tenants on one node, 2 job ids, stamps up to 2 |
| `fair_share` | `MCFairShare.cfg` | 549 k | 2 tenants on two nodes, 4 jobs, costs and weights 1 and 2 per enqueue, scale 2, stamps up to 4 |
| `no_starvation` | `Starvation.cfg` | 60 k | 2 tenants on one node, 3 job ids, stamps up to 3, fairness |
| `retention` | `MCRetention.cfg` | 2.6 k | retentions of -3 to 7 ns, 2 ns to the second, at most 2 seconds in an int32 |
| `unknown_insert` | `FairQueueUnknown.cfg` | - | `fair_queue` with unknown outcomes: violated |
| `torn_frontier` | `FrontierHistory.cfg` | - | stored against real frontiers: violated |

What the passing runs show:

- **timeline**: `StrictlyIncreasing`, `ChargesDeclaredCost` (the advance is within
  one weight of the scaled cost) and `RefusalIsDue` hold over all inputs of the
  width, the extremes included.
- **leases**: `LeaseHonoured` (while any of a granted lease is left the job is
  pending under that claim and hidden), `EndedForGood` (a handle that released,
  completed or was told `ErrLeaseLost` never matches again), `PendingMissIsReuse`
  (a canceler that finds a pending job after a miss looks at a new record),
  `ResolvedIsFinal`, `OnlyHolderOrCancelResolves`; `OrphansReturn`, a job with a
  claim nobody holds becomes visible, is canceled or is otherwise no longer
  orphaned; and `ImplementsLifecycle`, every step is a move of JobLifecycle or none.
- **cache**: `OneWriter` (a timeline is never stamped by two goroutines at once),
  `PruneSparesReserves` (no frontier is pruned between its refresh and its use),
  `ReseedAfterWalk` (an enqueue that locked its entry after a reconcile's walk stamps
  only from an entry seeded since that reconcile was done refreshing, whether its
  refreshes succeeded, failed or were cut short).
- **cache_fair**: `IdleIsEvicted`, `WalkNeverBlocks` (a walk ends while an enqueue
  hangs with its entry locked), and `EnqueuesReturn`, on every path and also for an
  enqueue that waits for the lock another holds or for an entry a walk has evicted.
- **fair_queue**: `TimelineOrder`, a new stamp exceeds every pending stamp of its
  timeline, through cancels, collections, failed calls, evictions, stale marks and
  restarts; and `StoredFrontierConverges`, frontiers stored late, out of order, torn
  between two jobs, or before the collection of the top claimed job lowered the real
  one, are replaced once the collection is quiet.
- **foreign_inserts**: `KnownOrder`. `TimelineOrder` cannot hold here. What does
  hold is that each enqueue stamps after every job acknowledged on this node or
  stored before the last completed walk or restart, so a double issue or an
  overtaking lasts no longer than a reconcile interval.
- **placement**: `JoinsAtService`, no job is stamped at or below the lowest frontier
  since its node last re-read it: idle time earns no credit, whether a tenant is
  new, returns, or has a clock the walk marked stale.
- **fair_share**: `FairShares`, of two waiting tenants one gets ahead, in cost over
  weight, by no more than its lead at the start and the job the other is to get next.
  With costs that differ from job to job that job cannot be left out: a tenant of
  small jobs passes all of them while the other waits for one large one.
- **no_starvation**: `NoStarvation`, every waiting job is claimed or resolved.
- **retention**: `KeptAsAsked`.

### Bounds

- `MaxInt` stands for `math.MaxInt64`. Nothing depends on its value but the
  overflow guards, so a small one brings both ends of the range into reach.
- `NsPerMs` is 2 in `leases` so that 1 and 3 round up and 0 does not.
- `MaxAttempts` saturates `attempts`, which the library writes and never reads.
- Two jobs give a claim order, a tie and an id reused beside another job. Two claim
  ids give a stale handle beside the present holder; a lost claim and a stale
  handle beside both need a third, which passes for the safety properties (198 k
  states) and is covered by the proofs, for any number.
- Three enqueues in `cache`: one on the evicted entry, one on its replacement and
  one more to create it; three addresses are enough for them. Two reconciles: a walk
  that undoes or overtakes another's marks. Goroutines of a kind are symmetric.
- In `cache_fair` the database's answers are arbitrary, so every path of an enqueue
  is there, with another enqueue at each step of its own. Restarts are not: one puts
  the cache back where it starts, without any goroutine.
- In `fair_queue` two job ids and stamps up to 2 allow a pending predecessor, a
  collected and a reused id, an overflow, and a stamp issued again after a cancel or
  a collection. They also allow what `StoredFrontierConverges` is about: the torn read is of a
  fenced job and another pending one, and the dip of a collected job leaves a fenced
  one below it. Costs 1 and 2 (763 k states), stamps up to 3 (1.8 M) and two
  concurrent enqueues (5.1 M) also pass for `TimelineOrder`; they are left out only
  for the time they take.
- `foreign_inserts` has `Duration = {0}`, so no claims: the frontier is the
  fallback's, and only the trailing edge, which the property is about, moves.
- `placement` has one node: a node reads nothing of another but its jobs, and the
  other tenant's jobs already come at any moment. Cost and weight are 1, so every
  stride is one stamp; `JoinsAtService` speaks of where a stride starts and not of
  its length. The theorem has all costs and weights.
- `fair_share` leaves out what the documentation says shifts shares: cancels,
  releases, lapsed leases and delays; failed enqueues, which charge nothing; and
  collection. Costs and weights 1 and 2 at scale 2 give jobs worth one, two and four
  stamps, mixed within a tenant as each enqueue chooses. Four jobs and stamps up to
  4 are a job worth four against three worth one, with jobs served before and after
  a re-seed. The tenants are symmetric together with their nodes.
- `retention`: ages are counted up to `MaxAge`, past the longest index. One second
  is two nanoseconds, so half of the retentions have a fraction.

### Fairness

- `FairSpec` (Leases): weak fairness of `Tick`. The server's clock runs. Nothing
  is assumed of workers, cancelers or the TTL monitor.
- `CacheFairSpec` (VTimeCache): Reconcile is called again and again
  (`queue.go:346`), its refreshes are answered, well or not, and its walk does no I/O
  under `mu`. Nothing is assumed of enqueues.
- `ReconcileFairSpec` (FairQueue): the same over the real queries, and none of them
  fails for ever (`queue.go:372-374`), which a frontier needs to be read at all.
- `EnqueuesProceed` (VTimeCache) is the premise of `EnqueuesReturn`: goroutines are
  scheduled; the database answers or the caller's deadline ends the call
  (`enqueue.go:116-118`); `mu` and entry locks do not starve a waiter (Go's mutex
  hands over to a waiter after a millisecond), hence strong fairness of `Lookup` and
  `Lock`. It is a premise and not part of the specification so that the other
  properties are checked without it. `EnqueueReturns` leaves out an enqueue whose
  entry walk after walk evicts in the moment between lookup and lock: the retry
  loop of `lockTimeline` has no bound.
- `ServiceFairSpec` (Starvation): a worker comes back to every partition, and
  `Reconcile(n, {})`, one with no failed refresh, happens again and again. The second
  is needed: reconciles whose refreshes always fail still mark clocks stale, and a
  tenant re-seeding from the old stored frontier keeps stamping there; TLC finds the other
  tenant starved without it. The module also takes the retention to be longer than the time
  between claims (`Outlived`), as the design asks.

### Where documents and code disagree

1. *Unknown inserts* (`unknown_insert`). `enqueue` aborts on any error of
   `InsertOne`. If the server applied the insert, vtime stays behind a pending job
   and the next job of the tenant gets the same stamp until a re-seed.
   `docs/fair-job-queue-design.md:590` and `:788` exclude that.
2. *Two queries* (`torn_frontier`). The fallback of `computeLWM` can run when a
   fenced job exists, if the claim came after the first query. With that job also
   resolved, the frontier stored is one the partition never had, one job too high.
   `docs/fair-job-queue-design.md:238` and `:250` allow neither.

Both are small and pass at the next reconcile or claim (`KnownOrder` and
`StoredFrontierConverges` are the bounds); the code comments at the same places
claim less than the design document.

One more sentence of the design document, `docs/fair-job-queue-design.md:262-263`,
says that collection lowers the clock only once the partition's claimed history is
gone. The frontier is the highest stamp among the jobs fenced now, and jobs resolve in
any order: the top one may be collected while a job below it still carries a
claim, and the clock dips to that one. The comment of `computeLWM` says so
(`queue.go:141-142`), and so do the models. The nodes follow the dip at their next
refresh (`StoredFrontierConverges`). `JoinsAtService` speaks of the lowest frontier
since the last re-read because of it.

## Proofs

All theorems are for any sets of jobs, timelines, goroutines and so on,
finite or not, and any value of the numeric constants the named assumptions allow.
Each inductive invariant was first checked by TLC on the instance of the run.

### Arithmetic and store

**VTime_proofs**: `WrapExact` (Wrap is the identity on machine integers) and
`StampExact` (under the guards of `nextVStamp` nothing wraps, so `Wrap`
disappears), from the bounds of integer division, and that a nonempty set of
stamps has a maximum and a minimum (`ExtremesExist`, from the library's theorem on
well-founded relations). **JobStore_proofs**: rounding up
covers a duration (`MillisCover`), and each command leaves a well-formed store.

**Timeline_proofs**, for every `MaxInt`, `Scale`, cost and weight. `TypeOK` is
inductive, and `StepExact` describes every step without wrapping. From it follow
`TypeCorrect`, `StampsIncrease`, `CostIsCharged` and `RefusalsAreDue`. Assumed:
`VTimeAssumption` (a positive scale that fits the range) and `TimelineAssumption`
(callers pass machine integers).

### Leases

**Leases_proofs**, for any jobs, claims, tenants, resolutions, cancelers and
durations and any `NsPerMs`. `LeaseHonoured` is not inductive: that a job is
hidden now says nothing of the next tick. The invariant `IInv` replaces it by
`LeaseCovered`, which bounds what is left of the promise by what is left of
`visible_in`: rounding up establishes it, ticks lower both sides
in step, and every write that shortens `visible_in` carries the claim's end with
it. With `TypeOK`, `EndedForGood` and `PendingMissIsReuse` it is inductive; there
is one lemma per action. `LeasesHonoured`, `EndedHandlesStayEnded` and
`PendingMissesAreReuse` are read off it. `TerminalWriteIsFinal` and `JobsAreKept`
use it for one step. Assumed: `StoreAssumption`, `AbsentAssumption` and
`IdleAssumption`, all about distinct sentinels and natural numbers.

Its second half proves `Implementation`, Leases implements JobLifecycle, from
the same assumptions. The hard step is a claim: that a claimable job has no live
lease. `LeaseCovered` says that some record covers the promise of the claim it
carries; that it is this very record, whose `visible_in` is 0, needs `ClaimsDiffer`,
no claim id on two records, which is inductive because `Claim` mints a new one.
`MoveOne` is the frame argument: a write to one record that touches the promise of
no claim another record carries moves one job only. Then each action has a lemma
that names the move it is (`ClaimIsLease`, `HeartbeatIsRenew`, `TickIsLapse`, ...).

### Cache

**VTimeCache_proofs**, for any goroutines, timelines and addresses.
`OneWriter` speaks of goroutines past the recheck and is not inductive: it needs
that they hold the lock of an entry that is still the one under their key. The
invariant `CacheInv` says

- `HoldsItsEntry`: past the recheck, a goroutine holds the lock of the entry in the
  map under its key. `TryLock` makes the walk pass over such an entry.
- `FindsItsEntry`: before it, its pointer is to that entry or to an evicted one.
  This is what the recheck of `evicted` under the lock relies on.
- `EntriesDiffer`: no entry is under two keys, so one lock does not serve two
  timelines; `Lookup` takes an address only if nobody points at it.
- `WalkHoldsMu`, and the type invariant.

The first two are not inductive without the rest. `EnqueueEffect` and `ReconcileEffect` say what
one step leaves of the entries, and are what the rest builds upon.
Theorems: `CacheTypeCorrect`, `OneWriterAtATime`, `ReservesAreSpared`. Assumed:
`CacheAssumption` (sentinels are not members, there is a timeline, hooks return
machine integers that are not negative) and `VTimeAssumption`.

Its last section is about CacheHistory: `NoClockOutlivesAWalk`. `ReseedAfterWalk`
speaks of the moment a stamp is taken. `HistoryInv` follows the clock there:
`ClocksAccounted`, a seeded entry was read again since the refreshes, or is marked,
or a walk will still come to it; `EarlyAccounted`, the same of the entry of a
reserve that read its edge before that and may yet store it. Two places carry
it: the walk marks an entry before it tries the lock, so also one it cannot lock,
and `Swap` clears a mark before the new edge is read.

### Queue

**FairQueue_proofs**, for any jobs, timelines and goroutines, over the real
queries and through every move of the store. `StampsGrow` is `TimelineOrder`. That a new stamp exceeds
every pending one rests on where the newest stamp is known, place by place
(`QueueInv`): `EdgeHeld`, the edge a seed has read is still the edge; `StampAhead`,
a computed stamp is beyond the clock it was computed from; `StampIsNewest`, once
inserted it is the newest; `ClockIsNewest`, a seeded clock in the map is the newest,
except while its holder has yet to commit. Each place hands over to the next, and
`CacheInv` ensures that nobody else stamps the timeline in between. `StoreSpares` is the
store's part: no command makes a job pending, moves it to another timeline or
changes its stamp. `QueueTypeCorrect` and `QueueHasOneWriter`
carry the cache's results over to the answers the queries give and to restarts.

With other writers (ForeignInserts) `ClockIsNewest` is false. `KnownInv` replaces
the pending jobs by the known ones, and a clock is `Fresh` if it is marked, or
covers what is known and also what the walk under way will make known, unless the
walk has yet to come to its entry. Two hand-overs are new: a walk that ends turns `seen`
into `known`, which is why `Fresh` looks ahead to `seen`; and a job acknowledged here
is known from its insert on, while the clock only follows at the commit. `KnownJobsPrecede` is `KnownOrder`, for any number of
foreign jobs with any stamps at any moment; `ForeignHasOneWriter` is `OneWriter` there.

Assumed besides those of the cache: `QueueAssumption` (sentinels, durations and
natural numbers).

### Dispatch

**Dispatch_proofs**, for any nodes, tenants and partitions, homes, costs and weights.
`DispatchTypeCorrect` needs one thing beyond arithmetic: each edge and frontier
that is read is a stamp, so no reserve starts out of range.

`TenantsJoinAtService` is `JoinsAtService`: a job is stamped above the lowest
frontier since its node last re-read it. A frontier can recede (a job that is
released or collected stops counting), so the stored one may differ either way from the one
in the collection. What is true of every place a clock can start from is that it
is not below that lowest frontier (`PlacementInv`):

- `LowIsLow`: the history is at or below the frontier of this moment. A cold entry
  reads it now, or keeps what is stored when it cannot.
- `FrontiersRead`: for a timeline seeded before, the frontier a warm re-seed would
  use. A walk that fails to refresh a partition may leave it there, and the history
  then goes on from where it was; a walk that prunes it has evicted every entry of
  the partition.
- `ClocksRead`: a seeded clock that is not marked. A reconcile may raise the history
  above the clocks of an idle tenant; it also marks every clock it keeps, so such a
  clock is never stamped from again.

Neither of the last two is inductive alone. `ReserveIsAbove` then covers the four paths of `reserve` at once.

`FairShared` is `FairShares`: of two tenants in line, one is served more than
the other only by its lead at the start and the job the other is to get next, in
cost over weight. Every enqueue has a cost and a weight of its own; `worth` keeps what
each job came to. What a tenant has received shows in where its line starts, its head's
stamp less the head's worth: each job served moves that by the job's worth
(`HeadMoves`; `NoHeadMoves` for all other steps), and the heads of a partition are
served in order (`ServedIsFirst`), so `ahead` follows the distance of the two
starts, and a tenant that is ahead starts within the other's head (`WindowsBound`). What the step
serves keeps it there (`ServedWithin`, `StepIsFair`). That each job begins where the
one before it ends is the hard part: stamps are computed from clocks, and clocks are
lost, marked and re-seeded between two of them. `SpacingInv` says where every waiting
job stands:

- `BackToBack`: beyond the frontier, each of a tenant's waiting jobs but the first
  begins at the stamp of another. Before it there may be a gap, where a re-seed was
  floored.
- `WorthTyped`: the worth of a job is at least one stamp.
- `ClocksLast`: a clock stands at the stamp of its timeline's latest job, which a
  warm reserve continues from.
- `StoredBehind`: no stored frontier is above the one in the collection, so that a
  re-seed is floored beyond the last waiting job only if that one is behind the
  frontier (`BaseIsLast`). This needs that the frontier never recedes
  (`FrontierAdvances`).
- `ClaimedOnce` and `StampsDiffer`: a job is served once, and no two pending jobs of
  a timeline have one stamp.

The restrictions of FairShare are used here: a release or a collection makes the
frontier recede, a cancel leaves a gap beyond it, a failed enqueue may raise a clock
above the last job, a delayed job is passed over and a lapsed lease serves a job
twice. `Worth` is a job's cost over its weight, but one stamp at least: a stride is
floored there (`vtime.go:29-37`), so a tenant whose weight exceeds its scaled cost is
charged more than it declares, and without the same floor in `Worth` the bound is
false.

Assumed for all of Dispatch: `DispatchAssumption` (homes, costs and weights as the
normalizations deliver them), `CollectionAssumption` (that of the store) and
`VTimeAssumption`.

### Retention

**Retention_proofs**: `JobsKeptAsAsked`, for any retentions asked for, of any sign
and size, any width of the index and any number of jobs. `IndexInv` states what
the index guarantees for every retention granted so far; `SecondsExact` shows that
an accepted retention survives the truncation and the conversion. Assumed besides
`StoreAssumption`: `RetentionAssumption`.

### Only model-checked

- Liveness, which the prover does not handle under fairness: `OrphansReturn`,
  `StoredFrontierConverges`, `IdleIsEvicted`, `WalkNeverBlocks`, `EnqueuesReturn`,
  `NoStarvation`.
- The two violations, `unknown_insert` and `torn_frontier`, which are
  counterexamples and need an instance only.

## Not modelled

- *Two caches at the grain of locks over one store*: 5 M states with one node and
  two enqueues already. What one cache can see of another is in ForeignInserts,
  what tenants of two nodes do to each other is in Dispatch.
- *Failover*: rolled-back writes under `w: 1` and stale read concerns are excluded
  by the requirements in the comment of `New`.
- *EnsureIndexes*: one constant command. The indexes change what a read costs and
  never what it answers.
- *The Kind facade, node id, test harness*: no state to interleave.
- *Context cancellation* appears as the failure of the call it cuts short and as
  the early end of Reconcile's refreshes.

## Plan

Done: arithmetic, store and leases with their proofs; the lifecycle and the proof
that it is implemented; the cache, its composition with the store and foreign jobs,
each with its proof; their liveness; dispatch across tenants, with the proofs that
idle time earns no credit and that shares follow the weights; retention with its
proof. Every safety and action property a passing run checks is also a theorem.

Left: nothing of what the runs check is in reach of the prover and unproved. A
refinement of Dispatch by FairQueue is not claimed: there an enqueue reads edge and
frontier at two moments, and a torn frontier can be stored (finding 2), which no
single step of Dispatch does.
