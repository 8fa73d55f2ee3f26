# Kirby2: specifications, model checking and proofs

Kirby2 is a deterministic market-execution training sandbox. This directory
holds TLA+ specifications of its stateful parts, TLC configurations that check
them on small instances, and theorems about them that TLAPS proves for every
value of the constants. `PROJECT.json` ties every definition to the source lines
it stands for, lists the runs, the properties with a faulty variant of the code
that breaks each of them, the hazards the properties are for, and the theorems.

## The system

Dependencies run from the outside to the exchange core: stores, packs,
orchestration and release use the domains, never the other way.

| Part (`kirby2/...`) | State it keeps | Operations | What makes it correct |
| --- | --- | --- | --- |
| `exchange/book.py`, `models.py` | price levels, FIFO queues, live orders, position, journal | submit, cancel, replace, reduce | never crossed; price-time priority; quantity is conserved; a refused command changes nothing |
| `exchange/auction*`, `mechanics*`, sessions | auction orders, halts, phases | uncross, halt, resume, advanced order types | one clearing price, no fill outside the phase that allows it |
| `player` | position and cash | reconcile with fills | position = sum of the player's fills |
| `simulation`, `scenarios`, `agents` | clock, RNG streams, pending flow | draw and schedule the next event | the same seed gives the same events |
| `session`, `features`, `strategy`, `ui` | journal, live session, windows, traffic light | player commands, bar updates | replay of the journal gives the same session |
| `latency`, `multivenue`, `observability`, `algorithms` | in-flight requests, per-venue orders, beliefs | submit, acknowledge, cancel, route | every request is answered once; cancel and fill races end in one state on both sides |
| `full_day`, `counterfactual`, `experiments` | scheduler queue, components, checkpoints | advance, roll back, checkpoint, restore | a restored day continues as the original |
| `research`, `marketdata`, `historical`, `calibration` | run ledger, governed data areas | register, query | immutable runs, honest labels |
| `packs` | staging, registry, object store | preflight, install, remove | a pack is installed completely or not at all |
| `orchestration/recovery.py` | checkpoint file of each plan | submit, resume, cancel, record a result, clean up | one result per unit or a recorded conflict, whatever crashes and races |
| `orchestration/content_store.py` | private stages, objects, manifests | begin, stage, register, discard, read | a manifest that can be read is complete and never changes |
| `orchestration/leases.py`, `lan.py` | live leases, two ends of a TLS stream | grant, heartbeat, complete, expire; claim, admit, execute, release | one live lease per attempt, every attempt ends |
| `orchestration/planner.py`, `aggregation.py`, `models.py`, `seeds.py` | none | expand a plan, reduce results | the result does not depend on the order of arrival |
| `curriculum`, `mining`, `discovery`, `microscope`, `scenario_lang` | append-only records | select, rank, compile, report | pure functions of recorded data |
| `instructor` | consents, assignments, deletions | grant, revoke, export, delete | no export after revocation |
| `release` | installation, migrations, backups | migrate, back up, restore | an interrupted migration can be resumed or undone |
| `audit`, `auditlab` | evidence packets | check | the repository's own acceptance tests |

The parts meet in three ways. Inside one process they call one another and
nothing runs concurrently, except the thread pool of `lan.py`. Between
processes they meet in files: the checkpoint of a plan is replaced under a lock
by compare-and-swap, content is addressed by its hash and published by a
rename. Between machines they meet on one ordered stream for each worker.

The hard behaviours are therefore: several coordinator processes on one plan,
crashes between two durable writes, results that arrive late, twice or in
contradiction (recovery); registration of content as a sequence of system calls
(content store); leases against clocks (LAN); long sequences of commands on
one book, where an error shows only in a later command (exchange); and restore
from a checkpoint (full day). `PROJECT.json` lists each hazard at its line.

## Plan

The order follows what a test can least reach.

1. `RecoveryCheckpoint`, `RecoveryCoordinator`: the durable record and the
   processes that race on it. Abstract specification `ExperimentOutcome`. Done,
   with proofs.
2. `ResultStore`: registration, by system calls, with crashes. Abstract
   specification `ResultRegistry`, which is what `RecoveryCoordinator` assumes
   of the store. Done, with proofs.
3. `OrderBook`: matching, cancel, replace, reduce, one trade at a time.
   Abstract specification `PriceTimeMarket`, over the closed form `PriceTime`,
   and the rules of a checkpoint in `BookCheckpoint`. Done, with proofs.
4. `LanExecution`: leases and the LAN protocol, on a clock; `ResourceAdmission`:
   the controller a worker asks. Abstract specification `ExecutionBackend`, which
   is what `RecoveryCoordinator` assumes of a backend. Done, with proofs
   of both; left: the TLS handshake, and one model of coordinator and backend
   together, with the coordinator's own attempt numbers.
5. `MarketMechanics`: sessions, instructions, self-trade prevention,
   protections and auctions around the book. `LatencySession`: a client whose
   orders, cancellations and market data cross on the way. Both stand on
   `PriceTime`, the closed form `OrderBook` implements. Done, with proofs of
   every safety property of both.
6. The venues: child orders over several venues of the latency engine.
7. The full-day scheduler with rollback, checkpoint and restore.
8. Pack installation and registry; release migrations; instructor consent and
   deletion; the strategy state machine.

How the modules compose:

    ExperimentOutcome <= RecoveryCoordinator --assumes--> ResultRegistry   <= ResultStore
                                             --assumes--> ExecutionBackend <= LanExecution
    PriceTimeMarket   <= OrderBook
      built from PriceTime; MarketMechanics and LatencySession use PriceTime as their book
    Sums --> PriceTimeProofs --> LatencyProofs, MechanicsProofs, OrderBookProofs
    Sums --> OrderBookProofs

`A <= B`: `B` is shown to implement `A`. `A --> B`: the proofs of `B` use the lemmas
of `A`.

### Sums and lists in the proofs

Half of what these engines promise is about sums: what an order has traded, what a
price would let trade, what the player holds. The library's induction theorems are
out of reach here, so `Sums` proves its induction as a smallest counterexample: among
the subsets of a finite set of which a statement fails there is one that is smallest
(`SmallestSubset`), and taking an element out of it gives the contradiction. With that
it unfolds the recursive function behind `MapThenSumSet` (`TotalStep`), shows that a
sum does not depend on the order in which it is taken (`TotalRemove`) and from it the
sums of unions, of images and of sums. An operator cannot be a parameter of a lemma,
but it can be the parameter of a module: `INSTANCE Sums WITH Weight <- ...` makes the
lemmas about the quantities of a book, of trades or of fills.

`PriceTimeProofs` has the facts about the closed form of price-time priority that all
engines share: the orders an incoming order may trade with are a queue, it serves a
front of that queue, and what it executes is what the book has less afterwards
(`Conservation`). An incoming order that goes from one resting order to the next takes
from the first that is not used up (`NextServed`), and where all are used up it has
executed all it can (`AllTaken`).

## Recovery of an experiment

Modules: `RecoveryCheckpoint` (data), `RecoveryCoordinator` (behaviour),
`MCRecoveryCoordinator` (symmetry), `RecoveryProgress` (liveness),
`ExperimentOutcome` (what is promised), `RecoveryProofs`.

`RecoveryCheckpoint` has the record types, the shapes that the constructors of
`RecoveryWorkRecordV1` and `RecoveryCheckpointV1` accept (`RecordShape`,
`StatusShape`, `WellFormed`), and one operator for each checkpoint the
coordinator derives from its predecessor (`Submitted`, `Cancelled`, `Expired`,
`Started`, `BackendFailed`, `Reconciled`, `WrittenAhead`, `Conflicted`,
`Confirmed`, `Completed`, `Touched`).

`RecoveryCoordinator` has three variables: `ckpt`, the checkpoint file;
`published`, the manifests of the content store; `proc`, what each process holds
in memory. A process loads the checkpoint, works on its copy without a lock and
saves. Each load, each save, each read or publication in the content store and
the answer of the execution backend are steps of their own, so that other
processes and crashes come between. `Save` is `RecoveryCheckpointStoreV1.save`:
it succeeds only if the stored checkpoint is the one the update extends and the
update could be constructed; otherwise the operation raises. `Accept` is
`_accept_success` with its five outcomes, `Publish` the registration of the
manifest, `Commit` the save that acknowledges it. `Crash` stands for a killed
process and for an exception out of any I/O: both lose only what the process
holds.

Abstractions: a result is its digest, and its manifest is a function of unit and
digest. The event log, failure codes and the cancellation reason are left out;
an update that only appends an event is a new revision with the same data. The
revision and the hash of the previous checkpoint, compared in `save`, are one
comparison of checkpoints. A backend's results are accepted in any order, where
the code uses the order of the plan; reconciliation reads manifests in any
order. Corruption of stored bytes is not modelled.

### Runs

- `recovery`: two units, two digests, two processes, two attempts, seven
  revisions; 1.6 million states. Two digests are what a conflict needs, two
  processes what a race needs, two attempts what a late result of an expired
  attempt needs, two units what a plan needs whose units are in different states;
  and seven revisions reach submission, two reissues, a write-ahead, a conflict
  and its acknowledgement with a stale save between.
- `recovery_progress`: after any race up to the fourth revision one process is
  left alone and resumes. `ResumeDecides`: if attempts and revisions are left, it
  decides the experiment. The fairness is weak fairness of that process's steps:
  it is a running program and the operator repeats `resume` while the plan is
  open. That its backend returns results is a premise, not a fairness of the
  code. No fairness is assumed of the races.

The properties: `RegisteredIsPublished` and `PublishedWasWrittenAhead` relate
checkpoint and content store in both directions; `CompletedIsExact` says that a
completed plan's published results are exactly its aggregate's members;
`AttemptHasOneOwner` that no two processes execute the same attempt;
`ShapesRefuseOnlyTwice` that the constructors refuse derived checkpoints in two
known situations only (cancelling a plan whose units are all registered while
its aggregate is missing; a first result for a unit of a plan another unit of
which is quarantined: both end in a `ValueError` and not in a refusal code);
`EvidenceSurvives` and `SelectionNeverSwitches` are about what no step may do;
`ImplementsOutcome` is the refinement of `ExperimentOutcome`, in which a cancelled
or completed experiment stays as it is. The record's constructor refuses an attempt
number past the limit, so a reissue that did not count attempts first shows in
`ShapesRefuseOnlyTwice`.

### Proofs

`RecoveryProofs` proves, for any units, digests, processes and bounds, that
`IInv` is inductive, and from it `TypeOK`, `RegisteredIsPublished`,
`PublishedWasWrittenAhead`, `CompletedIsExact`, `EvidenceSurvives` and
`ImplementsOutcome`. The assumptions are those `RecoveryCheckpoint` names: there
is a unit, `None` is no digest, the bounds are natural numbers.

The properties are not inductive because a process saves from a copy it loaded
long before. What makes the save harmless is that it succeeds only when the copy
is still the stored checkpoint; what makes the publication between two saves
harmless is different, since no comparison guards it. `IInv` therefore says of
every process (`Holds`) that each success in its copy is still accounted for by
the stored checkpoint: it is among the recorded successes or its unit was
cancelled. Every save preserves this for the others because the stored
successes only grow, except by cancellation (`Grows`); this is the second half
of what each step is shown to preserve.

`OneOwner` proves `AttemptHasOneOwner` with a second invariant on top, `OwnerInv`: no
process knows of an attempt later than the stored one (`NoLaterAttempt`), a process
that reissues work has nothing in flight, one that executes is done with every unit
that is not on its list, and one that completes has all results (`Ready`). The property
alone is not inductive: a process that takes attempts could take one that another
process has in memory. It cannot, because it takes the number after the stored one,
which no copy has reached. `Follows` says what a save may change
of attempt numbers, of selections and of the status; `SelectionIsFinal`
(`SelectionNeverSwitches`) and `DecisionIsFinal` are two parts of it, the second one
being that a cancelled experiment keeps its records, a quarantined one its status, and
a completed one is at most quarantined. `RefusedOnlyTwice`
(`ShapesRefuseOnlyTwice`) goes through the derived checkpoints one by one; what it
needs of the processes' copies is `Ready`, without which a completion of an incomplete
plan would be a third case.

## Registration of a result

Modules: `ResultStore`, `MCResultStore`, `ResultRegistry`, `ResultStoreProofs`.

`ResultStore` is one `_register_idempotently` after another, by one process or by
several: `begin_result_attempt`, `stage_result_artifact`,
`register_result_bundle`, `discard_result_attempt`, as the system calls whose
effect another process or a crash can meet. Variables: `objects` and `manifests`
(the two content-addressed stores), `temps` (temporary manifests), `stages` and
`files` (each call's private stage), `lock` (the flock of the runs area) and
`proc`. A failure may strike at every step (`Fails`, `BeginFails`,
`DiscardFails`), a crash too (`Crash`); a crash undoes nothing and releases the
flock.

Abstractions: a content address is its content, so stored bytes are never wrong.
A stage is named by a fresh nonce, so each call has its own; a retry is another
call. Artifacts are staged and moved in any order. The lock of the staging area,
held while one file of a private stage is written, is left out, since no other
process uses that stage. Durability (fsync) is not distinguished from
visibility.

### Runs

- `result_store`: two calls and two bundles that share an artifact, 29,000 states.
  Two calls are a writer and its competitor or its retry, which is enough for
  TLC because the proofs hold for any number of calls; the shared artifact makes
  the object a registration needs come from another one. `EveryCallEnds` assumes
  weak fairness of each call's steps: a call is a running program; only `Lock` can
  be disabled at its turn, and the lock is always released, by its holder or by the
  system when the holder dies. `CHECK_DEADLOCK FALSE`: all calls end.
- `result_store_leak`: violated. See below.

`ManifestsAreComplete`: a manifest that can be read has all its artifacts.
`ManifestsAreWrittenOnce`: no rename replaces a manifest. `RegisteredHasNoStage`:
a call that answers left nothing private behind. `ImplementsRegistry`: to the
coordinator, registration is one atomic insertion (`ResultRegistry`); this
justifies that `Publish` is one step in `RecoveryCoordinator`.

### Proofs

`ResultStoreProofs` proves `IInv` inductive for any calls, bundles and artifacts,
and from it the three safety properties, the action property and the
refinement. The strengthening says of each call what its stage, the lock and the
stores are at each point of the program (`Consistent`): the lock is held exactly
in the critical section; while it is held before the rename the manifest is not
there; what is no longer left to move is among the objects.

### A finding

`register_result_bundle` removes a stage by two `rmdir` calls. When the second
fails, `discard_result_attempt` meets the missing `objects` directory and refuses
with `ATTEMPT_NOT_FOUND`, "unregistered result attempt does not exist", although
the stage directory exists; `_discard_failed_stage` takes that as success and the
`STAGING_CLEANUP_FAILED` report is not made. Every later discard of the stage is
refused the same way. `result_store_leak` shows it with one call.

## The order book

Modules: `OrderBook` (behaviour), `BookCheckpoint` (what `restore` demands),
`PriceTimeMarket` (what is promised), `MCOrderBook` (symmetry),
`OrderBookProofs`.

`OrderBook` is `book.py` with the parts of `models.py` and of the player's ledger
it calls. `orders`, `active`, `queue`, `prices`, `restingSequence`, `trades`,
`fills` and `position` are the fields of `OrderBook` and `PlayerPosition`; `taker`
is the local variable of the matching loop. The engine is single threaded, so a
call is not interleaved with another one; its loop is nevertheless modelled trade
by trade (`Match`), because the errors this code could make are made between two
trades: a level that is empty and still indexed, a maker filled out of turn, a
book crossed for a moment. `Rest`, `Expire` and `Filled` are the three ways the
loop ends. `Cancel`, `Replace` and `Reduce` are the other calls; `Replace` includes
the case in which the cancel command has the ID of the new order, where the old
order is gone when registering the new one raises.

Abstractions: a set of indexed prices stands for the sorted list, and its best
element for the first. Prices, quantities and IDs are small sets. A call that is
refused before it changes anything is no step. The event journal and the names of
trades are left out. The book has no capacity and no overflow: Python's integers
are unbounded, and so are those of the model.

### Runs

- `order_book`: four IDs, two prices, quantities 1 and 3, both owners; 570,000
  states. Every ID is an order or a command, so four of them are a resting order
  or two, a taker that sweeps them, and a cancel, a replacement or a reduction
  between; 3 against 1 gives partial fills on either side, sweeps over both prices
  and a sweep that has quantity left. `CHECK_DEADLOCK FALSE`: IDs are never used
  again, so a book runs out of them.

`BookSound` is what `assert_order_book_invariants` requires of the queues, at
every turn of the loop and not only after the call, and is the inductive
invariant of the proofs. `Restorable` is the conjunction of the rules by which
`_decode_order`, `_decode_levels`, `_validate_trade_and_fill_history` and
`_decode_order_book_state` refuse a checkpoint: no sequence of legal calls makes a
book that cannot be restored. `PriceTimePriority` is about each trade.
`ImplementsMarket` is the refinement of `PriceTimeMarket`, which has neither queues
nor a loop: each resting order gets what the incoming quantity leaves after all
those served before it, in one step (`PriceTime`). It subsumes that a closed order
never comes back and that two live orders never swap places, which are proved as
`Finality` and `Places`. The refinement mapping puts a call's trades back until its
loop has ended.

### Proofs

`OrderBookProofs` proves, for any IDs, owners and quantities and any set of
positive prices, that `BookSound` is inductive, and from it `PriceTimePriority`,
`ClosedIsFinal` and `PlacesAreKept`. The assumption on prices says that every set
of them has a least and a greatest element; a book indexes finitely many. The
parts of `BookSound` need each other: the head of the best level is the right
maker because queues are in order of arrival (`FirstInFirst`) and every live order
of the level is in them (`ActiveAreQueued`); resting crosses nothing because the
loop ended where the order is not marketable, and the loop itself only removes
opposite orders (`NotCrossed`, `TakerIsIncoming`). `GoodStep` states what every
action is shown to keep, and there is one lemma for each action.

`AlwaysRestorable` proves `Restorable`, with the larger invariant `CheckpointSound`.
What restoring checks of a closed order (its status, that something of it was
cancelled or filled) must hold of every order from the moment it closes (`Shapes`);
that the arrival numbers are exactly `1 .. restingSequence` needs that each was given
once (`Arrivals`); and that the history is consistent needs that no later call changes
what a trade has recorded of its orders (`Recorded`). The two sums, an order's fills
and the player's position, are invariants of their own (`FilledAsTraded`,
`LedgerAsFilled`), by the lemmas of `Sums`.

`Refinement` proves `ImplementsMarket`, that the book implements `PriceTimeMarket`. The
market takes an order in one step and the loop in many, so the proof needs an
invariant of the loop: `MarketSound` says that what every resting order has given so
far is what the closed form allots of the quantity filled so far, and that while the
order wants more no live order has been touched (`AsAllotted`). A turn of the loop
keeps it because the head of the best level is served after nobody who is live and
those before it are all taken up, so the closed form gives the next quantity to the
head (`NextServed`, `MatchRefines`). The loop ends with the order filled or with
nobody live within its limit (`Exhausted`); either way what it has filled is all that
the closed form allots (`AllotmentMet`), its trades are the market's
(`TradesAreMade`) and the live orders are the book the market is left with
(`LeftIsLive`). Cancelling, replacing and reducing are `Leave` and `Shrink`, and the
registration of an order or a command is no step of the market's.

## The LAN execution backend

Modules: `LanExecution`, `MCLanExecution` (clock skews), `ExecutionBackend` (what
is promised), `LanProofs`; `ResourceAdmission`, `MCResourceAdmission`.

`LanExecution` is one call of `LanCoordinatorBackendV1.execute_many` after another.
`coord` is the thread of `_execute_peer_batch` for each connected worker, `worker`
is `LanWorkerServiceV1.run` with `_execute_admitted_attempt`, `claims` the active
claims of the worker's `ResourceControllerV1`, `leases` and `sequence` the
`LeaseBookV1` that all threads share, `up` and `down` the streams of each
connection, `link` whether it is up, `now` the coordinator's clock and `skew` the
error of each worker's. Two variables only record the past: `expired` the attempts
whose lease ran out, and `late` whether the clock ever moved while a message was in
flight, a send was due or a heartbeat was due (`Settled`). A step is what a thread or a service does between two
operations on a stream: `ClaimUnit`, `Admitted` (grant a lease, send it and the
request), `Heartbeat`, `Result`, `Released` and so on for the coordinator;
`TakeClaim`, `TakeLease`, `TakeRequest`, `Beat`, `Done`, `Over` (a limit was
exceeded), `Close` for the worker. `ReceiveFails`, `SendFails` and
`ServiceReceiveFails` are the `OSError`s of a stream, the timeout of a receive
among them; `Fails` is a thread that raises. The environment breaks a connection
(`Break`), which loses a suffix of each stream, and kills a worker (`Dies`).
`Finish` waits for every thread, then returns all results or raises; `Again` is
the next call, with a new lease book and new sessions.

Abstractions: a session starts after the handshake. A message is a record of the
fields that the receiver checks; frames, nonces and signatures are left out, since
the streams neither duplicate nor reorder. A receive may time out whenever nothing
is there to be read, however little time has passed. A break loses what was last
sent at once. What a unit computes is left out: its result is the unit.

`ResourceAdmission` is `ResourceControllerV1`: `active`, `queue` and `cancelled` are
its fields, `told` is the last decision each claim was sent. It is modelled apart
because a LAN worker serves one session and so never has two claims; the controller
promises more than that caller uses. A claim's resources are one unit of a single
kind. `Others` is the list that `cancel_experiment` leaves of the queue, written by
places so that proofs can follow a claim from one line to the next.

### Runs

Heartbeat interval 1, two missed heartbeats allowed, one run at a time on a
worker throughout. Every `lan` run says `CHECK_DEADLOCK FALSE`: the calls and the clock
are bounded.

- `lan_races`: two workers, two units, terms of 2 and a clock up to 2, one call;
  571,000 states. Two threads are what sharing a lease book and a call needs; a clock
  up to 2 lets a lease expire, since the deadline is two intervals away, and is the
  end of a term. `ImplementsBackend` and the two invariants are safety properties.
- `lan_session`: one worker, three units, clock up to 5, two calls, a worker clock
  that agrees or is two behind; 222,000 states. Three units make a session come back
  to its start; a clock of 5 is past the term of the first lease (3) and reaches
  that of a second; two calls show that nothing is left of the first.
  `HeartbeatsKeepLease` says that a lease of a worker that is alive ends at the end
  of its term and not before; it can hold only as long as nothing is held up, so it
  speaks of the steps before `late` becomes true. After that, and in every other
  property, delays are arbitrary.
  `CallEnds` assumes `FairSpec`: weak fairness of each thread and each service, which
  are running programs and whose receives all have timeouts; of the end of the call;
  and of the clock. A thread's receive may fail at any time, but it is not relied on
  while the peer is at work over a connection that is up (`AtWork`), since heartbeats
  come more often than `connection_timeout_seconds`. Nothing is assumed of breaks,
  deaths and later calls, nor of executions: a unit that sends heartbeats for ever is
  cut off by the term of its lease, by the first heartbeat the worker sends when the
  term is over. The clock goes on to 5, past the term of a lease granted at 0, 1
  or 2; a lease granted later outlives the bounded clock, and `ClockStops` names just
  that case: the last heartbeat before the clock stops was sent within the term. A
  deadline that heartbeats extend without end (`ExtendedForEver`) breaks the property,
  as does a call that waits for the threads that have raised (`FinishWhenDone`).
  `WorkersLeave` has one premise beyond `FairSpec`, that executions end: a worker
  cannot leave while its unit runs.
- `lan_reissue`: violated. See below.
- `resource_admission`: six claims of two experiments, one of them beyond the limits
  of a run, two runs, a queue of two; 15,300 states, which is the whole controller at
  this size: the five claims that fit are one more than runs and queue can hold, so
  that claims are admitted, queued, and refused for a full queue. `QueueSound` has
  three parts: claims wait only while every run is taken, a cancelled experiment holds
  and awaits nothing, and what each claim was told last is what the controller holds.
  `WaitingEnds` assumes that a run that was admitted ends.

`InOrder` says that neither end is ever sent a message it does not expect, with the
checks it makes on the contents; `HeartbeatsAreNext` that a heartbeat names the live
lease with the next number; `NeverQueued` that a worker waiting for a claim holds
none; `RunsUnderItsLease` that no unit runs but for the thread that awaits it or
one that has raised; `TakenInTerm` that a result counts only within
`lease_seconds`. `ImplementsBackend` is the refinement of `ExecutionBackend`: in one
call a unit is executed at most once and the answer is all results or none. This
justifies that a backend's answer is one step of `RecoveryCoordinator`
(`BackendReturns`, `BackendFails`).

### Proofs

`LanProofs` proves `IInv` inductive for any number of workers and units, any lease
policy the code accepts and any skews, and from it `InOrder`, `RunsUnderItsLease`,
`HeartbeatsAreNext`, `NeverQueued` and `TakenInTerm`. The assumptions are the
positive sizes, `Interval * Missed <= LeaseSeconds` (which `LeasePolicyV1` checks)
and integer skews. None of these properties is inductive: what may be read next
depends on everything in flight. `IInv` therefore says for each point of a thread
where its worker can be and what each stream holds (`Session`, `DownInStep`), and for
a thread that awaits a result that its stream is heartbeats in sequence, then perhaps
a result and a release, or an abort (`Awaits`, `Item`). A broken connection leaves a
prefix of each stream, and every prefix of a legal stream is legal (`BrokenKeeps`);
that is why losing messages disturbs nothing. Connections meet only in the lease
book: a step at one leaves another's lease alone because identities are never given
twice (`BookInStep`, `OthersStay`).

`KeepsPromise` proves the refinement, `ImplementsBackend`, for any number of workers
and units. That a unit is executed at most once is a fact about all workers together;
it is proved from what each connection can know. A unit is dealt to one peer
(`Deals`, `DealtApart`), and `Deal` says of a connection that its worker started
units dealt to it, in increasing order; that whatever is about to be started, or
claimed on the stream, is beyond all of them; and that the thread holds exactly the
results of the units dealt to it before the one in hand, each of which was started.
A message carries this over from one end to the other, so a claim that was sent
before a break starts nothing twice. When every thread is done, the unit each has in
hand is none, so the results are those of all units (`DealtOut`, `AllAnswered`);
`Ended` adds that a call that is over has no thread at work, so that an execution
that a worker still starts after a raise is never one of a call that returned.
`OnePlace` turns the ordered histories into a count of one.

`BeatsKeepLease` proves `HeartbeatsKeepLease` for any policy with `Missed >= 2`. The
invariant is `OnTime`: unless something was held up (`late`), the lease of a thread that
awaits a result is `Timely`. As the clock waits for what is due, whatever is on its
way was sent at the present time; so it is enough that a lease outlasts what its
worker has sent and is still to send. A grant or a heartbeat sets the deadline two
intervals or more ahead (`GrantedLasts`, `ExtendedLasts`), and a running worker's next
heartbeat is due within one (`TickInTime`). A thread that finds its lease expired
before its term therefore contradicts `OnTime` (`ExpiresAtTerm`). The hypothesis is
needed, though `LeasePolicyV1` accepts `maximum_missed_heartbeats = 1`: the deadline is then
the very time the next heartbeat is due, and a lease is lost at its deadline
(`now >= deadline`). With `Missed = 1` on the instance of `lan_session` TLC finds that a
worker that is held up by nothing loses its lease.

The last part of the module proves `QueueSound` (`QueueHolds`) and `NotOvertaken`
(`LineIsKept`) of `ResourceAdmission`, for any claims, experiments and limits.
`ControllerInv` is `QueueSound` and what it needs: no claim is twice in the line,
nothing in the line runs, and the running claims are finitely many. `PromoteKeeps` does release, abort and
cancellation at once: with nothing cancelled in line, `_promote_waiting` takes the
first `k` claims and drops none (`FirstInLine`), and `k` is all of the line or fills
every run. That no claim in line is cancelled when the promotion starts is what
makes this true, and is why `cancel_experiment` must clear the queue before it
promotes. `Ranking` and `OthersStayInLine` show that a cancellation leaves all the
others, each once and in the order they had; with that, no step overtakes a claim
that goes on waiting (`PromotedInOrder`).

### A finding

`_execute_peer_batch` grants every lease for attempt 1. When a lease expires the
thread raises, the call raises, and the next call leases the unit again as attempt
1, where `KIRBY2_WORK_ORDERS_31_40_GOAL.md` says that "Lease expiry reissues the same
logical unit with a new attempt." The recovery coordinator does number its attempts;
the backend does not see the number. `lan_reissue` shows the second lease.

## Sessions, auctions and instructions

Modules: `MarketMechanics`, `MCMarketMechanics` (rules and orders),
`MechanicsProofs`, over `PriceTime` and `PriceTimeProofs`.

`MarketMechanics` is `mechanics_engine.py` with `auction.py`. `session`, `now` and
`cursor` are the session state, the clock and the position in the schedule;
`orders` the engine's account of every order (`ManagedOrder`), `ledger` what the
FIFO book has recorded of the same order, `book` what rests in it, `lastPrice` and
`position` the last trade and the player's net quantity over book and auctions.
The engine keeps two accounts of one order, because the book knows no expiry: what
expires is cancelled in the book, copied by `_sync_continuous_orders` (`Synced`)
and reclassified afterwards (`ExpiredOrder`). A submission is one of five actions,
by where it ends: `SubmitInvalid`, `SubmitToAuction`, `SubmitRefused` (after
self-trade prevention has cancelled what it cancels), `SubmitInterrupted` (the
volatility interruption halts the session) and `SubmitExecuted`. Two calls take
several steps and keep what they have under way in `call`: a replacement that loses
its place (`CancelLeg`, `SecondLeg`), and the uncross, whose allocation loop goes
trade by trade (`Uncross`, `CrossPrevents`, `CrossTrades`, `CrossEnds`).

Abstractions: the book is the closed form of `PriceTime`, one step for a call; that
the loop in `book.py` computes it is what `OrderBook` shows. Lot size, price band,
maximum size and the fat-finger limit are constants of the order compared with
constants of the rules and are left out beside the collar and the minimum size,
which have the same form. An order's owner follows from its account. IDs are never
used again. The event list is left out, and with it the replay that re-derives the
engine's state from it after every call. So the model allows one thing more than the
code: a second leg that sets off the volatility interruption while SESSION orders rest
makes that replay raise, and the engine with it, since it asks for the halt right
after the refusal (`mechanics_engine.py:3098-3106`) and those orders end in between;
`SecondLeg` goes on.

### Runs

- `mechanics`: three orders in one of ten markets, 1.07 million states. Four markets
  trade continuously and four only in auctions, one for each self-trade prevention
  mode; two have a schedule, a minimum size, and a collar and a volatility limit of
  which either is the tighter one. The five or six requests of each are chosen so
  that every instruction and every time in force meets an order that fills it, fills
  it in part or does not. Three orders are what the deepest case needs: an arriving
  order, one it may not trade with and one behind that. `CHECK_DEADLOCK FALSE`: the
  orders and the schedule are bounded.
- `mechanics_self_trade`: violated. See below.

The orders that turn up in an uncross are listed as the code lists them, sorted by
`_buy_priority` or `_sell_priority`; `InTurn` says which list that is, and the proofs
show that there is one and that it holds every order (`ListExists`, `InTurnIs`).

`LedgersAgree`: no quantity is lost or made, the two accounts agree, the book holds
exactly what is left and the position is what the player's orders have filled.
`LivesInItsPhase`: each live order is in a phase its instruction is for.
`LeavesForAReason`: an order expires at the very end its own instruction names and
is cancelled for another order only by the prevention of its own account.
`NoSelfTrade` and `InstructionsKept`: what was decided on the book before
prevention changed it holds for the trades that follow. `UncrossIsBest`: the
clearing price is at least as good as every price, not only every candidate, and
the loop executes exactly the announced quantity as long as prevention cancels
nothing.

### A finding

In mode `CANCEL_RESTING` the own orders are collected once, among the makers a scan
of the book reaches, and cancelled. The scan stops where the incoming quantity is
covered and counts the orders that are about to be cancelled; when they are gone,
the incoming order reaches further, and trades with an own order there.
`MECHANICS.md` promises prevention for each account and names the mode as
supported. `mechanics_self_trade` shows two sell orders and a buy order of one
account: the first is cancelled, the second is filled.

Other things the model shows, which no document contradicts: a replacement that
loses its place is gone when its second leg is refused (the old order has been
cancelled by then); cancelling a continuous order that was rejected, or a scheduled
transition the session graph forbids at its time, makes that call and every later
one raise (`failed`); the tie break by imbalance compares the candidates only, so
that a price between two limits may leave less over.

### Proofs

`MechanicsProofs` proves every property of the `mechanics` run, for any rules that
`InstrumentRules` and `SessionSchedule` accept, any requests that
`AdvancedOrderRequest` accepts (`RulesAssumption`), and any number of orders, limits
and moments.

`MechanicsInv` is inductive. Its core is `Accounts`: the engine's account of each
order and the book's agree field by field, and the book holds one entry for each order
it knows that has quantity left, with what is left, under its own arrival number.
`LedgersAgree` is weaker than that; the arrival numbers, for instance, are what the
closed form of the book needs to be a queue. `CallInv` is what a call of several
steps has in hand: the replacement's second leg and, during an uncross, two lists of
live auction orders in order. `position = Balance(orders)` is a sum that every fill
moves by the same amount on both sides. `LivesInItsPhase` is inductive relative to
that (`Phase`, `InPhase`).

The action properties rest on a classification. Every step reduces one order, lets
orders expire whose own instruction has ended, lets two auction orders trade, or is a
submission (`StepKinds`), and a submission trades with what prevention has left or
waits (`SubmitKinds`); so what a step may do to an order is proved once for each kind
and not for each action. `NoSelfTradeIsMade`, `LeavesOnlyForAReason` and
`InstructionsAreKept` are read off from there, with what the closed form says of the
book after prevention.

`UncrossIsBestMade` has two halves. Among the candidates there is, for every price,
one at which all orders are ready that are ready at that price (`CandidateCovers`);
since volume is a sum over the ready orders, no price beats the best candidate. And
the loop executes the announced quantity because of `BestLeft`: what has been executed
and what the shorter list still holds add up to it, at every turn.

## A client behind a slow line

Modules: `LatencySession`, `MCLatencySession`, `LatencyProofs`, over `PriceTime` and
`PriceTimeProofs`.

`LatencySession` is `AsynchronousExecutionSession` of `latency/engine.py` with the
life cycle of `latency/models.py`. `orders`, `cancels` and `held` are what client and
gateway know (`AsyncOrder`, `_gateway_held_cancels`), `ledger`, `book`, `rested`,
`position` and `version` what the venue knows, `reported` and `display` what has
come back to the client, `wire` the heap of scheduled messages. Commands:
`RequestOrder`, `RequestCancel`, `RequestReplace` (a cancellation and a new order
that know nothing of each other), `ScheduleFlow`. Each other action handles one
message: `NewSent`, `Accept`, `Reject`, `CancelSent`, `CancelGateway`,
`CancelProcess`, `ExternalMarket`, `ExternalReprice`, `FlowRefused` (the venue refuses
a name, or the target of a repricing does not rest), `RepriceHalfway` (the venue
refuses the name of the new order once the target is withdrawn), `FillClient`,
`Answer`, `Render`.

The simulated flow chooses its names and its targets freely, as
`schedule_aggressive_order` and `schedule_liquidity_reprice` let it; two things follow.

- Names may be shared. The session looks a fill up by the name in the event, so the
  fills of a simulated order that bears a name of the client's are booked to the
  client's order. `taken` are the names under which the venue knows simulated orders;
  an order that comes in later under one of them is refused.
- A repricing may withdraw an order of the client's: `_external_reprice` asks whether
  its target rests, and not whose it is (`engine.py:967`). The venue records the order
  as cancelled, and since `_consume_exchange_events` reads nothing but fills
  (`engine.py:993`) the client goes on working it. A cancellation of it finds nothing
  to remove, is answered `TOO_LATE_PENDING_CANCEL` and leaves the order
  `PENDING_CANCEL` for good; `assert_invariants` (`engine.py:452-468`) would raise in
  these states. The model keeps the two causes of a cancelled order apart: the
  venue's status is `"CANCELLED"` after a cancellation of the client's and
  `"WITHDRAWN"` after a repricing, and the properties name the second wherever they
  except it.

Abstractions: a delay is sampled, so any message may come before any other; a
message whose handler only stamps the time and passes it on is part of the delay of
the next one. Prices are few, and a call of the book is one step of the closed form.
The client's orders are named 1, 2, ... in the order it asks for them; a name that is
refused because the venue knows it is not tried again, which loses nothing, since the
names of the simulated flow are the free ones. A replacement whose new order is
refused so has sent its cancellation, and is a `RequestCancel`. The names the session
gives its own cancel commands are assumed not to be borne by a simulated order. When a handler raises the model stops (`failed`), except where the
handler had changed nothing (`FlowRefused`). `RepriceHalfway` stops with the target
withdrawn and nothing published. A transition that the table refuses (`Raises`) stops
it where the handler started: what matters then is that it was reached.

### Runs

- `latency`: two orders, two cancellations, one move of the simulated market; 2.3
  million states. Two orders are what a replacement needs, two cancellations what a
  second one needs that finds the order gone. The one move fills an order the client
  is about to cancel, or withdraws it, or bears its name: `MCNames` and `MCTargets`
  have a name of the flow's own and one of the client's each. Quantities 2 and 3 make
  every fill either partial or complete.
  `CHECK_DEADLOCK FALSE`: a session ends.

`LedgersReconcile`: the account of the client's side and the venue's agree in every
state, whatever crosses, and no crossing asks for a transition the table does not
have. It has two exceptions. `Misled`: a simulated order that bears the name of an
order of the client's has traded; its fills are then booked to the client's order, and
positions do not reconcile. And an order with the status `"WITHDRAWN"`, of which only
the fills, and the position, are still right; its state with the client is one of the
three it can be left in. `NewBeforeCancel`: a cancellation is decided only when its
order has been, and only one of them wins; one that finds its order pending finds an
order withdrawn. `NothingStuck` leaves no order pending but such a one.
`ScreenCatchesUp` and `NothingStuck` are about the end of an exchange: they are stated
of the states in which nothing is on its way, which every session reaches by itself, since each
message has finitely many successors; so they need no fairness.

What the model shows beside its properties: a replacement is refused before the
acknowledgement by the order's state only, and a cancellation that has left the
client changes that state, so that a replacement after it is accepted although the
order has not been acknowledged; a second cancellation overwrites the recorded
outcome of the first; both legs of a replacement may execute.

### Proofs

`LatencyProofs` proves every property of the `latency` run, for any requests, any
simulated flow with any names and targets (`SessionAssumption`) and any bounds.

`ScreenCatchesUp` (`Screen`): the property alone is not inductive, since it says
nothing of the updates on their way; `ScreenInv` adds that no update and no screen is
ahead of the venue, that whatever bears the number of the last market state bears its
touch, and that the last state is on the screen or on its way to it. Every action
either leaves book, version, screen and updates alone (`Quiet`), publishes the book
it leaves under the next number (`Moves`), or is `Render`. That the book changes
only where a state is published is what the proof turns on, at every handler of the
venue; `RepriceHalfway` is the one that does not, and nothing is claimed after it.

The others rest on `SessionInv` (`SessionHolds`), whose parts need each other.
`AccountInv` says of each order how the client's record, the venue's record and what
rests under its name fit together (`Agree`); for an order whose name the flow has used
too (`taken`) it says the little that is left (`Steal`). A withdrawn order rests
nowhere and is never terminal with the client. Since it can stay `PENDING_CANCEL`,
`GatewayInv` also says that a cancellation that has left the client finds its order
terminal or pending (`Asking`): a cancellation is then decided in one of the states
that `NewBeforeCancel` names. A repricing withdraws and then trades: the lemmas about
what a trade does to book and record are stated of any record and of any part of the
book (`Rests`, `Ground`), so that they apply to `ExternalReprice` after its withdrawal
as they do to `Accept`. Whether a handler finds the order in a state it can leave depends on what else is on its way, which is `GatewayInv`: an order
has one message until the venue has decided on it, and none afterwards; an undecided
cancellation has one message or is held back, one of the two, and is held back only
while its order is on its way. `BookInv` makes the book a queue for the closed form,
and `WireInv` says that a message names something that exists. From it follow
`DecidedInOrder` (`NewBeforeCancel`) and `NothingIsStuck` (`NothingStuck`).
`LedgersAreReconciled` (`LedgersReconcile`) adds `PositionInv`: the venue's position
is the reported one plus the sum of the reports on their way, as long as no order has
been misled. `LifecycleIsKept` proves `LifecycleHolds`, that no handler raises, as
long as no simulated order bears a name of the client's (`Undisturbed`).

## What is only model-checked, and what is not modelled

TLAPS does not reach liveness: `ResumeDecides`, `EveryCallEnds`, `CallEnds`,
`WorkersLeave` and `WaitingEnds` are checked by TLC only. Every safety property that a
passing run checks is stated by a theorem, `HeartbeatsKeepLease` for policies that allow
two missed heartbeats or more.

The inductive invariants (`IInv` of three modules, `DealInv`, `OnTime`, `CheckpointSound`,
`MarketSound`, `ControllerInv`, `SessionInv`, `MechanicsInv`) are proved and not part
of a run; each was checked by TLC on the instances above before it was proved. The same holds of `ClosedIsFinal` and
`PlacesAreKept`, which the refinement of `PriceTimeMarket` implies, and of
`TerminalIsFinal`.

Not modelled: the operational event log and its bound of 4,000,000 events;
corruption of stored bytes; the transfer and installation of packs through the
content store; the TLS handshake, message formats and signatures;
`EXPERIMENT_CANCELLATION`, which no coordinator sends; `LeaseBookV1.expire`, which
nothing calls; `CoordinatorStateStoreV1`; checkpoints of the mechanics engine and
the replay it validates itself by; the distributions from which delays are drawn;
and the components that the table lists and the plan has left.
Pure numeric parts (features, calibration, metrics) and presentation have no
state a model checker would explore.
