# idemio: verification of the service and its upkeep

idemio sits between agents and a business API (the *downstream*). A write
carries an `Idempotency-Key`. The service claims the key in Postgres, compares
the write with recent writes to the same resource, sends it downstream, and
stores the outcome for replays. A relay publishes the write intents,
maintenance retires old rows, and operators read the intents and conflicts page
by page. This directory holds TLA+ modules of these parts, TLC runs on small
instances, and TLAPS proofs for every size.

## The system

| Part | Source | Status |
|---|---|---|
| claim transaction | `internal/claim` | modelled |
| write handler | `internal/api/api.go` | modelled (`POST /v1/writes`) |
| conflict matrix | `internal/conflict`, `internal/manifest/manifest.go` | modelled |
| downstream client | `internal/downstream` | modelled |
| downstream and probe | `cmd/fakedownstream`, `internal/probe` | modelled |
| reconciler | `internal/reconcile` | modelled |
| configuration | `internal/config` | only the timing it imposes |
| outbox relay | `internal/relay`, `cmd/relay` | modelled |
| retention and partitions | `internal/maintenance`, `cmd/reconciler` | modelled, without the rate limit of the expiry |
| archive | `internal/archive` | export modelled; `Restore` and the encoding are not |
| result offload | `internal/resultstore`, `internal/objectstore` | modelled |
| manifest registry | `internal/manifest/load.go`, `activation.go` | modelled |
| read API and its audit | `internal/api/reads.go`, `audit.go` | modelled |
| latency advice | `internal/latency` | modelled |
| schema migration | `internal/store` | modelled, without the bodies of the migrations |
| process wiring | `cmd/idemio`, `cmd/reconciler` | boot, reload and end of a process; not the drain |
| request canonicalisation | `internal/canonical` | modelled, without the text of the canonical form |
| identity | `internal/api/identity.go` | not modelled: stateless checks of headers |
| telemetry, alert sink, web site, test support | `internal/telemetry`, `cmd/alertsink`, `web`, `internal/testdb` ... | not modelled: no decision depends on them |

Handlers on any number of replicas and the reconciler never talk to each other.
They meet in three tables (`idempotency_keys`, `write_intents`, `conflicts`)
and at the downstream, which is asked either to execute or, by a read-only
probe, what it has executed. The relay reads `write_intents` and marks what it
has published. The reconciler's process also creates and retires partitions and
expires keys together with their result objects. At boot a server migrates the
schema and insists on partitions for the next two weeks; a reconciler insists on
the key table. Every process reads the manifest directory at an interval.

## Modules

```
Conflict          KeyStore
    \            /
     \      Downstream
      \     /        \
   WriteHandler    Reconciler              IdempotentKey
            \      /                             |  (INSTANCE)
           WritePath --------------- WritePathRefinement
               |                          /
          WritePathInv -------- MCWritePath
               |
          ClaimProofs -- WritePathProofs (with WritePathRefinement)

Conflict, Latency, Recording, Sweep, Canonical -- Algorithms
Algorithms -- AlgorithmProofs, MCAlgorithms
Migration, Registry -- Fleet -- FleetProofs, MCFleet
Relay -- RelayProofs          Partitions -- PartitionsProofs, MCPartitions
ResultStore -- ResultProofs, MCResultStore
ReadAPI -- ReadProofs, MCReadAPI
```

* **Conflict**: `Compatible`, `ScopesDisjoint`, `overlaps`. A field path is a
  sequence of segments.
* **KeyStore**: the rows, `Complete` (with `voidLatestIntent`) and the effect of
  a committed claim.
* **Downstream**: each call and the execution ledger. A call that was sent may
  execute at any later time; the caller's timeout or crash does not recall it.
* **WriteHandler**: `handleWrite` as a program counter per request.

  | `pc` | where the code is |
  |---|---|
  | received | before the claim |
  | locking, locked, resolving | in `Claim`: begun, lock held, window read |
  | waiting | `waitForTerminal`, outside any transaction |
  | polling | `awaitCompletion` |
  | calling, persisting | `execute`, `persistOutcome` |
  | answered, crashed | the end |

* **Reconciler**: `Sweep` as select, probe and write, with failures and restarts
  between them.
* **WritePath**: the composition, the passage of time, fairness and properties.
* **IdempotentKey**: what a key promises, without rows, handlers or sweeps. It is
  free, owned, done, indeterminate or rejected. It takes effect at most once, and
  only while it is owned or given up on; it is free or rejected only without an
  effect; done, indeterminate and rejected are for good.
  **WritePathRefinement** maps a row's status and the calls that executed to it
  (`failed` and no row are both *free*).
* **Latency**, **Recording**, **Sweep**, **Canonical**: the ring of latency
  samples, what `resolveConflicts` records of a window in its order, the queue of
  stale keys by `claimed_at`, and the request hash. Ring and queue are state; the
  others are operators. **Algorithms** feeds each of them, and the conflict
  matrix, with calls, candidates, sweeps and payloads, and says what each is to
  compute. A behaviour exercises one of them.
* **ReadAPI**: both read endpoints. A client walks a window with the cursor it
  was given last; a page is admission, scan, audit, commit and response, and each
  may fail.
* **Migration**, **Registry**: `Migrate` under its session lock, and the manifest
  store. **Fleet** composes them with the boot order of the two programs, the
  activation log and the partition headroom.
* **Relay**: the outbox rows (open, live, voided, retired), the topic, and `Publish` of each relay as select, publish and mark.
* **Partitions**: one range-partitioned table. `EnsurePartitions` is one step;
  `RetireExpired` is a list, then detach, archive and drop of each entry.
* **ResultStore**: a key's row and its result object, the handlers and reconcilers
  that place a result before they write the row (a handler more than once, when
  an acknowledgement is lost), and the expiry that deletes row, then object.

Relay, Partitions, ResultStore and ReadAPI are separate from WritePath. Each
takes from the write path only what touches its own state: an intent's insert and
voiding, a row's insert, a key's claim and outcome.

### Abstractions

* A request commits at most one claim and makes at most one call, so its intent
  and its call carry its name. `request_hash` is taken to be injective, and
  advisory lock keys not to collide.
* Nothing in a transaction is visible before its commit. So insert, read,
  re-claim, intent insert and window query are one step (`ClaimFresh`), and the
  status query with the commit is another. `now()` is fixed at the beginning of
  the transaction: `behind` remembers which intents had left the window by then.
  The window has one length for all requests.
* A second insert of a key waits for the first one's transaction, whatever
  resource lock each holds (`RivalInsert`). The branch of `claimKey` for a lost
  re-claim is not modelled: deliveries with the same body share a resource lock,
  so it is not reached.
* An enforced and a shadow-mode request can be in flight together (`Enforced`
  is per request). The declared class and selector of a body do not change.
* A reconciler's manifest can lose a type at any time, so `Escalate` is always
  possible. `ORDER BY claimed_at LIMIT n` is any `n` of the stale keys.
* The manifest's `not_executed` statuses are taken to be honest; a `definitive`
  status may come without an execution. The downstream does not redirect.
* A lost call is a declined call whose response never arrives.
* A crash of one handler is more general than a crash of its process.
* **Timing.** A key becomes stale only when no handler works on it and no call
  of it is on its way (`StaleDue`). `Config.Validate` asks for `stale_after` of
  at least three call budgets, but counts neither the lock wait before the call
  nor the outcome writes after it, and cannot bound a paused process or a slow
  downstream. The defaults (5 minutes against an 11 second budget) leave room.
  This is an assumption of every run and every theorem of the write path.
* **Relay.** `emitted_at` is fixed when a claim's transaction begins. Intents are
  numbered by it and become visible in any order. A transaction that rolls back
  stays open. A failed publication may have stored any part of its batch. The
  topic is a set: repetitions and order on it are not told apart.
* **Partitions.** Time counts partitions. The three tables run the same code, so
  one stands for each. Time does not wait for maintenance, and `supply` records
  whether a period ever began without a partition. `RowsKept` speaks of tables
  for which it did not. Afterwards it can fail: when the table has had no current
  partition for longer than its hot window, its newest partition is archived and
  dropped while an older one is left; the next extension creates it again, empty,
  and its second archive overwrites the first. `IDEMIO_PARTITION_AHEAD`, at least
  four weeks, is what keeps a table from running out.
* **Results.** An object's name depends on the agent and the key alone. Keys share
  nothing but the batches of the expiry. Any number of sweeps may overlap, and
  `refs` is what they have left to delete. A handler may repeat a write that
  landed any number of times, which covers every `OutcomeWriteAttempts` above
  one. A reconciler's result is that of the claim it found stale. Two histories
  speak of the last claim of a key. `raced`: its row was inserted while a sweep
  still had the object of the expired row to delete. `overtaken`: a writer of an
  earlier claim was still at work. That takes a repeated `failed` write, a second
  reconciler, or an expired row that was old when it was re-claimed or taken up.
  `PromiseKept` lets a raced key lose its object, and excepts overtaken ones:
  `completeKey` asks for a pending row and not for the claim, so the writer ends
  the claim with an older result. TLC finds both when `raced` or `overtaken` is
  left out of `PromiseKept`.
* **Recording and order.** WriteHandler records every conflicting pair and
  Reconciler takes any batch. What order and cap do is in Recording and Sweep.
* **Hashes.** A payload is an object of arrays of numbers, written in some order
  and notation. With doubles of 3 bits the largest exact integer is 7 instead of
  2^53 - 1; the payloads have numbers on both sides of it. A repeated member name
  is not modelled.
* **Reads.** A row is its sort key. A client keeps its parameters for the whole
  walk. The clock counts microseconds; the cursor has nanoseconds, and Postgres
  reads it at the column's resolution. A page is one snapshot.
* **Fleet.** A manifest file is one content, valid or not, and a version is what
  was read (the hash is taken to be injective). An edit replaces any files at
  once, while a reader is between two of them. Migrations are numbered in name
  order; the first creates the tables with their partitions. Headroom runs low
  only while no reconciler serves, since maintenance looks months ahead. A failed
  `Exec` or a crash anywhere in a boot is `Stop`.

## Runs

`tlc -workers 2 -config <cfg> <module>`, with the modules that PROJECT.json names.

| Run | Instance | Shows |
|---|---|---|
| retry | 3 deliveries of a key, 1 reconciler, 2 outcome writes | `AtMostOnce`, `FailedNeverExecuted`, `LiveIntentPerKey`, `WriterInv`, `TypeOK`, `ImplementsKey` |
| mismatch | the third delivery has another body and resource; fair | `AtMostOnce`, `OnlyTheClaimedBody`, `SuccessIsTrue`, `ClaimInv`, `PendingSettles`, `EveryRequestEnds` |
| conflict | 2 writes of one agent, 1 of another, one resource, no reconciler | `ConflictsExcluded`, `LiveIntentPerKey`, `NotExecutedIsTrue` |
| reclaim | a shadow write, its enforced retry, another agent, 1 reconciler | `ConflictsExcluded`, `ImplementsKey` |
| algorithms | selectors of up to 3 paths of up to 2 segments; 5 calls and a ring of 3; windows of 5 and a cap of 3; 3 keys stale at first, 5 in all, any batch; payloads of 2 numbers and doubles of 3 bits | `MatrixSymmetric`, `DisjointMeansNoCommonField`, `RingIsRecent`, `AdviceIsP95`, `RejectionExplained`, `BacklogDrains`, `HashIsMeaning` |
| relay | 3 intents, 2 relays, batches of 1, fair | `MarkedOnTopic`, `EveryIntentPublished` |
| partitions | 2 rows, 2 maintainers, 4 periods, hot window of 1 | `RowsKept`, `HotRowsAttached`, `HorizonCovered` |
| results | 1 key, up to 4 claims, 2 reconcilers, lost acknowledgements | `PromiseKept` |
| reads | 5 rows at 3 times, pages of 1 or 2, with and without payloads, one client; fair | `WalkDescends`, `WalkComplete`, `PayloadsAudited`, `WalkEnds` |
| fleet | 2 servers that carry 1 and 2 migrations, 1 reconciler, 2 manifest files, 1 edit, 1 fault; fair | `TypeOK`, `SchemaInOrder`, `PendingIsPending`, `ActivationTrail`, `FleetComesUp`, `ManifestConverges` |

Three requests are what the hazards need: one to claim, one to re-claim after a
failure, one more to be let in wrongly. Two outcome writes are enough for one
repetition; runs that ask nothing about repetition use one. Requests are finite,
so a run may end with everything answered: deadlock is not checked there. It is
checked in `fleet`, where a process always has something to do.
`reclaim` tells states apart by `ReclaimView`, which leaves out `answer`, `result`,
`attempt` and `conflicts`: no guard reads them and none of its properties mentions
them. `ImplementsKey` covers `FailedNeverExecuted` there: a call still on its way to a
failed key could execute, and a free key takes no effect.

A third intent lets one commit late, behind one that is marked and one that is
selected; a batch of one makes the limit bind, and the theorem about marking
covers every other size. Four periods are enough for a table to run out, to be
emptied by retention and to be extended again. Four claims of a key allow an
orphaned object, an overwritten one and a current one, and after them a claim that
overtakes nobody and has to be right again.

Five rows in three times have ties on both sides of a page boundary, a row that
commits behind the cursor and one ahead of it. Clients share nothing but the
rows, so one is enough. Windows with an explicit end and within the largest span
are walked with payloads and without, and every request that is refused is refused
for one reason. Two servers of different releases with one crash give a
half-applied ledger that another release finishes; two files and one edit give a
load that mixes two deployments. Calls, windows and backlogs are longer than the
ring, the cap and the smallest batches, so each limit binds.

Two more runs each check a sentence of the documentation that the code does not
keep, and end in a counterexample.

| Run | The document | The code |
|---|---|---|
| lost_ack | `API_REFERENCE.md:384`, at most once | `persistOutcome` repeats a `failed` write whose commit had landed; `completeKey` names no attempt, so it fails a later claim and a third delivery executes again |
| no_archive | `DEPLOYMENT_CHECKLIST.md:33`, "partitions past retention are left attached" | a nil `*archive.Archive` becomes a non-nil interface (`cmd/reconciler/main.go:107`), so the guards do not hold: the partition is detached and the export panics |

Other disagreements that these models reach have no run of their own:

* `Sweep` takes no lock, where ADR-0006, line 84, has "an advisory lock for mutual
  exclusion". With two reconcilers the slower one writes its old answer onto a
  later claim, and `AtMostOnce` fails (`MCRetry.cfg` with two reconcilers and one
  outcome write);
* a key claimed again between the deletion of its row and of its object loses its
  new object (ADR-0018, line 52, "The row is deleted first"). `PromiseKept` allows
  the loss for such keys, but no other claim's result in its place; without `raced`
  in it TLC shows the loss;
* a 503 with `resource_busy` or `serialization_wait_expired` is documented as "no
  key row exists at all" (`API_REFERENCE.md:185`; line 366 has "`failed`, or no row
  at all"). `Claim` takes the resource lock before it looks the key up, so a
  redelivery of a key that is done can get the first; and another delivery may
  claim the key while a request waits outside any transaction and gets the second.
  `NotExecutedIsTrue` speaks of the request's own call, and not of what another
  delivery did;
* a 409 may name in `conflict_id` a pair of the writer's own agent, and at most ten
  pairs are recorded (`API_REFERENCE.md:145`, "one `conflicts` row is written per
  pair and the body names the most recent"). `RejectionExplained` states when the
  two names agree and when the pair is recorded;
* a batch full of keys whose probes always fail keeps every younger key from being
  probed. `BacklogDrains` holds for fewer of them;
* numbers beyond the exact range are accepted when they are written
  with a point or an exponent, and two of them may hash alike (ADR-0003, line 46,
  has integers outside the range rejected). `HashIsMeaning` tells integers apart;
* a read without `until` ends at a new now on every page, so a walk close to the
  largest span is refused half way. `WalkEnds` speaks of an explicit `until`;
* a re-claim that conflicts makes a failed key `rejected`, where
  `DATA_MODEL.md:53` lists `failed -> pending` only (`ImplementsKey` lets a free key
  be rejected);
* a write recorded as serialized may execute while the call it waited for is
  still on its way, since `indeterminate` ends the wait (ADR-0015, line 79, "after
  the first one finished");
* a 201 whose outcome write failed is replayed with the probe's record
  (`API_REFERENCE.md:97`, "Identical body"). `SuccessIsTrue` says that a replay is
  of a settled call with the same body, not that its result is the same;
* `RetireExpired` does not look at `published_at`, and the relay reads attached
  partitions only, so an intent can be retired unpublished (ADR-0001, line 33,
  "at-least-once"). `EveryIntentPublished` excepts such intents.

`lost_ack` switches on lost acknowledgements of outcome commits (`LostAcks`);
of the passing runs only `results` does. Lost acknowledgements of claim commits are
always on.

## Fairness

`mismatch`, `relay`, `reads` and `fleet` use it. A handler past admission
keeps stepping (weak fairness), since every wait in it has a deadline; a request
need never arrive, and errors and crashes are never required. Calls settle, claims age and a reconciler's
ticker fires (weak). A probe (or escalation) and an outcome write that are
possible again and again succeed at last (strong): the code retries both on
every sweep for ever, and a downstream or database that never recovers leaves a
key pending by design. In `relay` a relay's ticker fires (weak), and a
publication or a mark that is possible again and again succeeds at last (strong):
`Run` logs an error and tries the same rows again at the next tick.

In `reads` a server goes on with a request (weak), and a page that is asked for
again and again is audited, committed and answered at last (strong, for each of
the three): the handler does the same on every request, a database or connection
that never recovers ends no walk, and a client that gives up has none to end. In `fleet` a supervisor restarts a process that ended and
every step of a boot, of a watch and of maintenance goes on (weak). The migration
lock is taken at last (strong), since Postgres grants it in the order of the
requests. Edits, crashes and failed inserts are finite in number, and
`ManifestConverges` and `FleetComesUp` ask for a valid directory in the end.

## Proofs

For all values of the constants that satisfy the named assumptions of the
modules. `tlapm` checks one file at a time. `WritePathProofs` extends
`ClaimProofs`; the others stand alone. The invariants are in `WritePathInv`, and
for the other components in the modules of their proofs.

| Module | Theorem | States |
|---|---|---|
| ClaimProofs | `TypeCorrect`, `ClaimInvariant` | `[]TypeOK`, `[]ClaimInv` |
| ClaimProofs | `OnlyTheClaimedBodyCorrect`, `NotExecutedIsTrueCorrect`, `SuccessIsTrueCorrect`, `LiveIntentPerKeyCorrect`, `ConflictsExcludedCorrect` | the properties of these names |
| ClaimProofs | `ScopesDisjointCorrect` | `ScopesDisjoint(a, b)` exactly when no field, at any depth, is written by both |
| WritePathProofs | `OneWriter`, `AtMostOnceCorrect`, `FailedNeverExecutedCorrect` | `[]WriterInv` and what follows from it |
| WritePathProofs | `ImplementsKeyCorrect` | `ImplementsKey`, the refinement of IdempotentKey |
| AlgorithmProofs | `MatrixSymmetricCorrect`, `DisjointMeansNoCommonFieldCorrect`, `RejectionExplainedCorrect`, `BacklogDrainsCorrect`, `RingIsRecentCorrect`, `AdviceIsP95Correct`, `HashIsMeaningCorrect` | the properties of these names |
| RelayProofs | `MarkedOnTopicCorrect` | `[]MarkedOnTopic` |
| PartitionsProofs | `HorizonCoveredCorrect`, `HotRowsAttachedCorrect`, `RowsKeptCorrect` | the properties of these names |
| FleetProofs | `FleetTypeCorrect`, `MigrationInvariant`, `SchemaInOrderCorrect`, `PendingIsPendingCorrect`, `ActivationTrailCorrect` | types and the properties of these names |
| ResultProofs | `PromiseKeptCorrect` | `[]PromiseKept` |
| ResultProofs | `FailedHasNoWriterCorrect` | `[]FailedHasNoWriter`, with `OneReconciler` and `NoBlindRetry` |
| ReadProofs | `WalkInvariant`, `WalkDescendsCorrect`, `WalkCompleteCorrect`, `PayloadsAuditedCorrect` | the walk's invariant and the properties of these names |

### The write path

The theorems of `WritePathProofs` assume `OneReconciler` (compose.yaml runs one)
and `NoBlindRetry` (no lost acknowledgement, or a single outcome write). The run
`lost_ack`, and `retry` with two reconcilers, show that neither can be dropped.
Those of `ClaimProofs` assume neither: they hold with any
number of reconcilers and whatever acknowledgements are lost. All of them rest on
`StaleDue` (see Timing).

`AtMostOnce` is not inductive: nothing in it keeps a row from being failed while
its call is on the way. `Complete` checks only that the row is pending, not
whose claim it ends, so safety rests on who *can* be there. `ClaimInv` says that
a claim transaction is alone with its row. `WriterInv` says that a claimed row
has one writer (`ExclusiveWriter`), that a claimable key has no call with an
effect (`EffectsAccounted`), that a handler writes `failed` only when nothing
can have arrived (`HonestFailure`), and that a sweep's answer is still true when
it is written (`SweepUndisturbed`). The proof takes one lemma per group of
actions and combines them in `WriterStep`.

`ImplementsKey` also needs `SettledQuiet`: a done key has no call on its way, or
the abstract key would take effect after it is done. With it, `RowRefines` maps
every change of a row, and `EffectRefines` every execution, to a step of the
abstract key; all other actions map to none.

* `OnlyTheClaimedBody` follows from `BodyFixed`: from the commit of a claim to the
  end of its handler, and from the first call on, the row has that request's
  hash. `ClaimInv` is what lets the mismatch check before the commit stand for
  the commit.
* `NotExecutedIsTrue` needs that an answer is the handler's last act
  (`AnswersTrue`), since a handler that answers and goes on could still call.
* `SuccessIsTrue` needs `SuccessBacked`: wherever a success is on its way to a row
  or a client (a handler that persists `done`, a probe that found an execution, a
  row that says `done`), there is a settled call of that key behind it. By
  `BodyFixed` that call had the body of the row's hash. A settled call stays
  settled (`SettledForGood`), and a key in use keeps its hash (`HashForGood`). So the write of one sweep
  onto the claim of another, which breaks `AtMostOnce` without `OneReconciler`,
  still tells no client of a success that nothing backs.
* `ConflictsExcluded` rests on `WindowComplete`: while a claim resolves its
  conflicts under the lock, any intent that conflicts with it and counts is in
  the window it has read. Two facts carry it. An intent becomes live only by a
  claim's commit, under the same lock (`LiveOnlyByClaim`); and `now()` of a
  transaction is not ahead of the clock, so what the query takes for too old is
  too old (`WindowClock`). The last step needs `Compatible` to be symmetric,
  which is proved too (`CompatibleSymmetric`): the query compares in one order
  only.

One consequence: under the two conditions the guard `status = 'pending'` of
`completeKey` does not carry `AtMostOnce`. TLC finds no violation in the retry
instance when the guard is dropped, because a key's one writer always finds its
row pending. The guard matters when the conditions fail, and then it is not
enough, since it cannot tell one claim of a key from the next.

### The other components

* **Relay.** The invariant adds that what a relay is about to mark is on the topic.
* **Partitions.** Only expired partitions are listed or detached, and from now on
  the table has no gap. `RowsKept` holds while `supply` is unbroken: one maintainer
  at a time retires a partition, its object is complete before the drop, and no
  partition of the past returns.
* **Fleet.** `MigrationInv`: who migrates holds the session lock, what it has left
  to do is exactly what the ledger lacks of its own migrations, and whoever came
  past `Migrate` has all it carries. `ActivationTrail` is inductive once the
  snapshot a process serves is known to be a validated one.
* **Results.** For a key whose last claim overtook nobody: whoever is at work is at
  work for that claim (`LastClaimOnly`); while the row is pending, an object that
  was placed is that claim's (`ObjectIsPlaced`); and so is what a done row has
  (`ResultKept`). A sweep deletes objects only of keys without a row or of raced
  ones, so nobody else touches the object between upload and row. This needs no
  condition on reconcilers or acknowledgements. `FailedHasNoWriter` does: with one
  reconciler and no blind repetition a key has one writer at a time and none once
  it is settled (`LoneWriter`), so a re-claim overtakes nobody, and only expiry is
  left as a way to be overtaken. TLC finds it violated with two reconcilers, or
  with lost acknowledgements and two outcome writes.
* **Reads.** The rows a walk *owes* are those of its first window that retention has
  left. They are still visible and still in the window (`WindowInv`), and each one
  is on a page sent, on the page read, or strictly below the oldest row of these
  (`CursorInv`, `PageInv`). The proof shows that the sorted result has every
  matching row once, by counting newer rows (`NewestFirst`), that `LIMIT limit + 1`
  and `paginate` report more exactly when older rows are left (`PageRead`), and
  that the cursor's text gives its row back (`CursorRoundTrip`). For
  `PayloadsAudited`, a page about to be answered with payloads is in the audit
  already.

### The algorithms

Calls, candidates and sweeps arrive one at a time, so an invariant of the steps
takes the place of an induction over data.

* **Matrix.** `overlaps` is symmetric. Two paths overlap exactly when some full
  path extends both; `MaxDepth + 1` segments are enough to write it down.
* **Ring.** `RingInv`: the samples are the last `Window` of the calls that counted,
  the i-th oldest in the slot that is i after `next` (`RingOf`). Replacing the
  sample at `next` and moving `next` by one shifts every rank by one
  (`ObserveStep`).
* **Advice.** A sorted sequence has an element at the index (`SortedAtExists`): the
  least value with enough samples at or below it. `Slot` is injective
  (`SlotInjective`), so counting in the ring and counting in the recent calls is
  the same (`RecentCounts`), whatever the rotation.
* **Recorded pairs.** The candidates before the first one of another agent are all
  the writer's own, so its position is within the cap unless they fill it.
* **Backlog.** `SweepInv`: after n sweeps, at most `keys - n` keys that can be
  settled are left of the first ones. The oldest of them is in the batch, since
  only keys with failing probes are ahead of it and they are fewer than the batch;
  keys that go stale later are behind it.
* **Hash.** Whatever rounds to the exact range is exact: an integer up to
  `maxSafeInteger` is a double (`IntegersAreDoubles`) and its own nearest one
  (`NearestExact`), and one beyond it rounds to something beyond it
  (`LargeStaysLarge`), so it is refused. Accepted integers can be read back from
  the hash (`AcceptedIsExact`).

### Model-checked only

The liveness properties (`PendingSettles`, `EveryRequestEnds`,
`EveryIntentPublished`, `WalkEnds`, `FleetComesUp`, `ManifestConverges`): fairness
is beyond the prover. Every safety property that a run checks and finds to hold
has a theorem.

## Not modelled

* The text of the canonical form, the identity headers, validation of a manifest's text and the
  archive's encoding: conversions and checks character by character, of which the
  models keep the outcome (same body, refused, valid, complete).
* `archive.Restore`: fills a table outside the service from one object.
* Telemetry and the alert sink: read by no decision.
* Durations. The stale threshold is the guard `StaleDue`; the drain grace, the
  rate limit of the expiry and the lock timeout are choices that may fall either
  way.
* Expiry of keys in the write path: `ResultStore` has it, with the claims of a key
  but without the executions, so executing again after expiry is not asked about there.
* A reload that changes a type's class, selector or window between two writes:
  `Fleet` has the reload and `WritePath` the mixture of enforced and shadow
  writes.
