# Agent-X-OS in TLA+

This directory models Agent-X-OS in TLA+: the kernel (`src/packages/kernel`) and its
Mongo stores, the actuators behind its gateway (`src/packages/syscall`), the two
deterministic mandates (`src/packages/mandate`) and the operator API that drives it all
(`src/api`). TLC checks the models on small instances, and TLAPS proves the central
properties for every value of the constants. Agent-X-OS runs "mandates": agents that make
syscalls through a gateway, park when a syscall is too risky for their ring, wait for a
manager's decision, resume, and settle. Everything of consequence is an event in an append-only journal; the rest
is derived from it.

`PROJECT.json` is the machine-readable index: the components, the runs, which source
lines each definition translates ("map"), the mutants that show every property can
fail, the hazards and the theorems.

Paths below are relative to `src/`; `kernel/` stands for
`packages/kernel/src/agentx_kernel/` and `api/` for `api/src/agentx_api/`.

## 1. The system

One process runs a FastAPI application and, in the same asyncio event loop, one
*operator worker* (`api/operator.py`, `_worker_loop`). Code between two awaits is
atomic; anything can happen at an await. The stores are MongoDB collections (memory
stores in tests), each operation atomic on one document, with no transaction across
documents.

| component | state it keeps | operations | depends on |
|---|---|---|---|
| **Journal** `kernel/stores/mongo.py`, `memory.py`, `ports.py`, `db/indexes.py` | events with `instance_id`, `seq`, optional unique `idempotency_key` | `append`, `read_instance`, `read_run`, `max_seq` | two unique indexes |
| **Scheduler** `kernel/scheduler.py`, stores, `api/operator.py` | work rows: status, `available_at` | `enqueue`, `claim_next`, `complete`, `fail`; `run_once`; start/stop of the loop | run loop |
| **Gateway and receipts** `kernel/gateway.py`, `receipts.py` | receipts by idempotency key; journal events of a syscall | `invoke`, `receipts.save` | journal, registry, vault, adapters |
| **Run loop** `kernel/run_loop.py`, `continuations.py`, `verifier.py` | continuation of a parked run | `invoke`, `resume` | gateway, harness, settlement |
| **Approvals / kernel control** `kernel/control.py`, `api/app.py` | journal events `ManagerAction`, `ApprovalResolved` | inbox, approve, reject, edit, `enqueue_trigger`, `set_ring` | journal, continuations, scheduler |
| **Settlement and projections** `kernel/settlement.py`, `projections.py` | `RunSettled`; heap, resume (trust, ring), bills, threads, watches | `commit`, `apply`, `rebuild` | journal |
| **Watch maturation** `kernel/watch_maturation.py` | watch rows, eval cases, `WatchFired`, `DeferredSettled` | `scan_and_emit`, `mature`, `run_once` | journal, resume, judge |
| **Catalog / registry** `kernel/registry.py`, commands of `api/app.py` | type and instance documents, eval cases | `register_type`, `instantiate`, trigger, swarm, promote | swarm gate |
| **Operator API, read side** `api/state.py`, `app.py` | - | run list, run page, cards, the SSE stream that tails the journal | journal |
| **Hermes harness** `kernel/hermes_runner.py`, `hermes.py` | a conversation and a call counter | `step`, `export_state`, `restore` | model API, gateway |
| **Books-prep mandate** `packages/mandate/.../books_prep_playbook.py`, `packages/syscall/.../books.py` | scratchpad; ledger facts in the heap | ingest, categorise, queue, verify, settle | gateway, heap |
| **Discovery mandate** `mandate_discovery_playbook.py`, `_quality.py`, `discovery_adapters.py` | scratchpad; portfolio facts | three reads, three gates, portfolio | gateway, heap |
| **Syscall adapters** `packages/syscall/.../adapters.py`, `registry`, `email_transports.py` | what an adapter remembers of a key | `resolve`, `execute` | mail and research services |
| **Human task queue** `.../manual_tasks.py` | tasks by key | enqueue, outcome, list | - |
| **Swarm gate** `packages/swarm` | scores | promotion gate | catalog |
| vault, run log, hydration, contracts, dashboard, scripts | look-ups, types, a log, a UI | - | - |

What makes them correct, and where it is hard:

* **Journal.** One gap-free total order per instance, an idempotency key spent once.
  Hard because the seq is read and inserted two awaits later, by API handlers, the
  scheduler worker and the watch worker at once; the loser of a race retries a bounded
  number of times; a caller may be cancelled with its insert in flight.
* **Scheduler.** An item is run by one worker, is not run again once it returned, and
  does not starve behind one that always fails. Hard because the worker may be cancelled
  between any two updates and the update that records a result may itself raise.
* **Gateway.** One key is one request with one answer and one effect, whatever is
  retried. Hard because journaled attempt, effect, receipt and settlement are four
  writes to four places.
* **Run.** A risky effect lands only after a manager saw and approved it; a rejected one
  never lands; a run settles completely. Hard because the worker and any number of HTTP
  requests read and write journal, continuation and queue without a common transaction,
  and a failed work item is run again from the start.
* **Projections and watches.** Rows are the fold of the journal, an update of the resume
  is not lost, a watch matures once. Hard because documents are read, changed and
  written back, and because a failure between two writes is answered by doing both again.
* **Hermes.** The history that is posted must answer every tool call in it exactly once,
  across parks that end the process, and the n-th call of a run must get the n-th key.
* **Adapters.** A receipt tells what happened, a mail leaves once and from its own
  sender. Hard because what an adapter remembers dies with the process and a mail may
  leave while its reply is lost.
* **Mandates.** No row of a statement and no evidence is lost or counted twice. Hard
  because a retry starts over under the same keys while the heap it reads, or the web it
  samples, has changed.
* **Catalog.** A version is one document, nothing but a lost race replaces it, and what
  is promoted was graded. Hard because look-up, grading and registration are separate
  awaits of rival requests, and rivals share their id, their version or both.
* **Read side.** A tail that follows the order of stamps must show events that are
  appended with old stamps.

## 2. Modules

| module | what it models |
|---|---|
| `Ledger` | what `JournalStore.append` promises, and what the in-memory store does: an atomic append |
| `Journal` | `MongoJournalStore.append`, await by await, under the two unique indexes |
| `WorkQueue` | what `SchedulerStore` promises, and what the in-memory store does: a row that one pair of hands may move |
| `Scheduler` | the work rows, `SchedulerWorker.run_once`, `_worker_loop`, its cancellation and restart |
| `Gateway` | `Gateway.invoke` and `receipts.save` for one idempotency key, await by await |
| `RunLifecycle` | composition: one run from trigger to settlement across scheduler worker, run loop, gateway, continuation and manager requests |
| `Watches` | composition: settlement, projections, watch maturation and `set_ring` over one journal and its rows |
| `HermesRun` | composition: a model-driven session, the loop that drives it, the continuation and the gateway's keys |
| `Adapters` | the syscall registry, every adapter, the transports and providers, the human task queue, under a gateway's calls |
| `BooksRun` | composition: the books-prep playbook, its syscalls, the verifier, the heap and a queue of batches |
| `DiscoveryRun` | composition: the discovery playbook, its gates, its three reads and the heap |
| `Catalog` | the registry, the catalog commands of the API and the promotion gate |
| `Console` | the read models of the API and the event stream, over a journal written by worker and managers |
| `MC*` | instances for TLC |
| `*Proofs` | theorems about the module they are named after; `StoresProofs` is about `Journal` and `Scheduler`, `SyscallProofs` about `Gateway` and `Adapters`, `OperatorProofs` about `Catalog` and `Console` (eight modules) |

Common conventions. An actor (a coroutine, a worker, a request) is a record with a
`pc` (or `at`) that names the await it is at. A step is what the code does from one
await to the next. History variables (`head`, `returned`, `lastClaim`, `effects`, `lost`,
`overlaps`, `paid`, `hidden`, `plans`, `shown`) record what properties talk about; no
guard of a step the code takes reads them. Every bound is a CONSTANT named `Max...`. `Bug...` operators are
plausible mistakes that no specification uses; each is the mutant of one property.
`TypeOK` is proved of every module but the abstract `Ledger` and `WorkQueue`, which have none; it is not a listed property. A proof module that is about two modules takes them
both with EXTENDS, so one of each pair names its specification apart: `Scheduler` has
`QueueInit`, `QueueNext`, `QueueSpec`, `QueueTypeOK`; `Adapters` has `AdapterSpec`;
`Console` has `ConsoleSpec` and `ConsoleTypeOK`.

### Journal and Ledger

`docs` is the collection, a *set*: order and uniqueness are results of the protocol.
`BeginAppend` enters `append`; `ReadMaxSeq` is the query; `InsertSucceeds`,
`InsertHitsKey` and `InsertHitsSeq` are the three answers of `insert_one` (both
duplicate answers are possible when both indexes reject, as the server may report
either); `Cancel` and the `cancelled` outcome of `InsertSucceeds` are a caller that
stops before or after the insert took effect. `AppendIsAtomic` instantiates `Ledger`
with the collection read in seq order, and says the racing protocol *is* an atomic
append that happens once, at the insert.

### Scheduler and WorkQueue

`WorkQueue` is the contract between the scheduler store and whoever uses it: items in a
row `absent`, `pending`, `claimed` or `completed`, and the hands of each worker (`holds`).
`Enqueue`, `Claim`, `Complete` and `Fail` are the four operations of the store, each one
atomic; `Drop` is a worker that lets go without an operation, which is what `stop_worker`
and an update that raises come to. Due times, the order of claims and what an invocation
does are not part of it. `Scheduler` implements it step by step from the store's side, and
`RunLifecycle`, `BooksRun` and `DiscoveryRun`, which each have a queue of their own with
only the rows they need, implement it from the user's side (`ImplementsWorkQueue` in all
four): so the small queues of the compositions do nothing the real one would not.

In `Scheduler`, `status` and `availableAt` are the rows. `Claim` is `find_one_and_update`; `Complete`
and `Fail` are the updates; `Cancelled` is `stop_worker`; `UpdateRaises` is an update
that raises into `_worker_loop`, which logs it and polls on. `Fail` makes the item due
at the `now` of its failed claim (`retry_at=now`), which is what `FairTurns` rests on: a
loop sleeps between two polls, so a worker's readings of the clock grow (`lastPoll`).

### Gateway

For one key: `attempted`, `settled`, `parks` (journal), `receipt`, and `effects`
(history). `Call` enters `invoke`; `ReadReceipt` and `ReadEvents` are `_prior_outcome`;
`ReadAttempts` and `LogAttempt` are `_ensure_attempt`; `Disposition` is the ring policy
and the channel rule; `Execute` is vault and adapter (the adapter may answer an error,
with or without an effect); `ReadPriorReceipt` and `ReplaceReceipt` are `receipts.save`;
`Settle` and `Resettle` journal `SyscallSettled`. `Fault` is a store that raises or a
cancellation at any await. `Retry` is the work item failing and being claimed again.

### RunLifecycle

The worker's program counter goes through `SchedulerWorker.run_once`, `RunLoop.invoke` or
`.resume`, `_drive`, `Gateway.invoke`, `_dispose`, `_verify_and_settle` and
`SettlementCommitter.commit`; manager requests go through `_resolve` or `edit` of
`api/app.py` and `KernelControl.resolve_approval`. The harness is the sequence of its
syscalls, each with the ring its policy requires; a re-run makes the same ones. As one
worker runs and only it writes attempts, receipts and call settlements, the gateway's
reads are one step (`Gate`) here; `Gateway` has them apart. A work item that raises goes
back to pending; a cancelled one stays claimed. A step of the harness that crashes the
run (`Crash`) completes its item without an event.

### Watches

One `pump` (the operator's loop) settles runs, scans and matures; `request` are
`set_ring` calls that interleave with it. `AppendSettled`, `ProjectRows`, `ReadResume`,
`WriteResume`, `AppendRegistered`, `ProjectWatch` are `commit` and the projectors, store
call by store call; a run that settles through `resume` is projected the same way.
`Scan`, `Fire`, `FlipWatch` are `scan_and_emit`; `Report` is the outside writer of an
outcome, in the same event; `List` (the events of `ListedFires`: instances in any order,
the events of each in the order of the journal), `Mature`, `SaveEvalCase`, `ReadTrust`,
`WriteTrust`, `AppendDeferred`, `ProjectDeferred` are `run_once` and `mature`. `Fault`
raises into the loop at any await. Resumes are small records, trust counts in steps of the rubric, and
`Earned` folds the journal over them; `overlaps` counts writes made while another holder
of a copy had not written yet, and `set_ring` events journaled while another `set_ring` of
the instance was between its event and its write: those two may write in either order.

### HermesRun

`session` is `HermesSession`: history, pending tool call, counter. `BeginStep` hears the
last observation and, the first time, writes the prompt; `Turn` is any answer of the
model with up to two tool calls, with or without ids; the other calls are acknowledged
as ignored; `PostTimesOut` is the client's single retry. `Fulfil`, `Park` and `Clash` are
the gateway's answers; `SaveContinuation`, `Resume` and `Reclaim` are a park, an approval
in any process, and the work item claimed again. What the model writes is any choice.

### Adapters

`build` is what the process was composed with, from any environment; `Ask` is a call of
the gateway for a key without a receipt, `Resolve` the registry's choice, then one action
per adapter (`QueueTask`, `MarkOutcome`, `DraftEmail`, `DraftCandidate`, `Research`,
`DeepResearch`, `BeginSend`/`ResolveSender`/`Send`) and `SaveReceipt`. `Cancel` loses the
call at an await, `Restart` what the adapters remember. Pages are `none`, `unread`
(a provider that cannot read), `blank` or `full`. `build.reported` and `Listed` are what
`GET /capabilities` says of the same build.

### BooksRun and DiscoveryRun

`BooksRun`: a line of a statement is its number, amount, balance (or `NoBalance`), whether
it has a date and whether a rule names its head. `Extract`, `Suspects`, `Bounced` are the
ingest; `Queued`, `Ledger` and `Facts` the categorisation against the heap; `QueueCalls`
the keyed calls; `Postconditions` the verifier; the call protocol (`Attempt`, `Execute`,
`Receipt`, `Replay`, `Clash`) is the gateway's. `line` is the scheduler's order: a failed
item goes behind what is due.

`DiscoveryRun`: a sample gives each source the topics its posts are labelled with, or an
error; `PainClusters`, `MoatSurvivors`, `BuyerMapped`, `Portfolio` and `Ladder` are the
playbook and its gates; the scratchpad (`pad`) is lost with an invocation and the
receipts (`receipts`) are not. Providers answer each invocation differently.

### Catalog

A type is `[id, ref, content, target]`, `ref` standing for name@version. Two documents
may agree in any of these: the drafts of one name share id and version
(`syscall/adapters.py:861`), releases of a built-in share the id, hand-made ones choose
theirs. `Get`, `Find`, `Upsert` are the awaits of `register_type`; `Publish`, `Swarm`,
`Instantiate`, `Trigger` and `Promote` are the commands, and `SwarmType`, `Grade`, `Gather`,
`InstanceType`, `KnownType`, `GetInstance`, `StoreInstance`, `TriggerInstance`,
`TriggerType`, `Bind` their awaits. A promotion has the two parts of its file: the `ref`
that evidence is gathered by, and the `type` that is registered; nothing compares them.
`ScriptRun` is a script that runs a built-in type as its own release builds it, `Mature` is
evidence from a real watch. `Left` are catalogs an earlier process may have left; an empty
one is seeded. Scores are below, between and above the two thresholds (or no score, when
the judge's subprocess fails).

Two history variables, which no step reads, say what a race is: `missed[r]` are the
documents that came after the first read of the registration `r`, and `raced` are the refs
whose document was replaced by such a registration, or to which a second instantiation in
the same second bound an instance that was there.

### Console

`journal` holds events `[run, kind, ts]` by instance and seq; `Stamp` is the code's choice
of a stamp (the work item's, not the clock's). `ListState` and `PageState` are the two
readings of `api/state.py`; `Connect`, `ReadInstance`, `SendRecent`, `Poll`, `EndIdle` are
the generator behind `GET /events`, one read per instance at a time, and `Drop` a lost
connection. `trigger_run`'s `ManagerAction` belongs to no run and is left out. The two
readings differ where an older stamp comes to stand behind a newer one in a run's own
events, which takes a second decision or a trigger that is invoked again and parks or
settles after one: those are the exceptions of `ListAgreesWithPage`.

## 3. What the runs check

| run | states | bounds | what it shows |
|---|---|---|---|
| `journal` | 134,153 | 3 writers, 2 instances, 1 key, 2 retries, 3 calls | total order, keys spent once, truthful outcomes, contention only after real races, refinement of `Ledger`, every call ends |
| `scheduler` | 268,236 | 2 items, 2 workers, clock 0..3, 2 raising invocations, 2 crashes | refinement of `WorkQueue` (exclusive claims), returned invocations not repeated, no overtaking, completion without crashes |
| `gateway_worker` | 37,985 | 1 caller, 2 args, 2 results, 2 rings, 3 verdicts, 4 calls, 2 faults | one request and one answer per key, receipts before settlements, attempts before effects, an effect repeated only for a fault between execution and receipt, every retry answered |
| `run_managers` | 1,540,855 | 2 calls, 1 of them risky; 2 requests, 2 actors; approve, reject, edit; 2 faults, 1 cancellation | risky effects only after approval of that card, a rejected call never lands, settled runs complete, card and continuation agree, an approved run settles |
| `watches` | 593,142 | 1 instance, 2 runs (one resumed, one ungradable, one reported), 1 manager, 1 fault | a watch fires and matures once, rows are the fold, the resume is off by what faults and overlaps cost, every gradable watch matures |
| `adapters` | 2,606,823 | 2 keys of 2 instances (one with a sender), 3 faults, every environment | receipts are true, a second mail is paid for by a fault |
| `hermes` | 1,227,750 | 2 args (symmetric), 3 steps per drive, 4 turns, 1 fault | the posted history is answered, keys are fresh |
| `books` | 381,771 | 2 batches over 2 documents, 5 statements, 2 targets, 2 faults | no row is lost, the heap holds each row once, batches end |
| `discovery` | 111,218 | 2 sources, 4 topics (1 refused), bars 4/2/2, shortlist 2, 2 faults | facts follow from receipts, settled portfolios meet the bars, runs end |
| `catalog` | 2,977,904 | 2 requests at a time (symmetric), 6 types: 2 drafts of one id and version, 1 of that version only, 3 of a built-in's id (2 of them of its version); 2 files, one of them with another's ref; 4 commands, 2 cases before a watch adds one, rings 1 and 2, a catalog seeded or left with one type | a promotion rests on evidence of its file's ref, and of its own type if no race was lost over it; a version is one document, replaced only by a registration that read before it came |
| `console` | 185,700 | 2 runs of 2 instances, 1 manager, limits 3/4/4, 5 events, clock 0..1, 1 fault | list and page agree, the stream catches up and comes to rest |
| `run_reuse` | violation | 2 risky calls, 2 requests, 1 actor, no fault | refutes a sentence of the blueprint, below |

Why the bounds are enough. *journal*: a writer must lose `MaxSeqRetries` races to run
out of budget, which takes two rivals and three calls; the key must be contested by two
writers and on two instances. *scheduler*: overtaking needs two items, a failure and a
tick; repetition needs a crash between return and update, and a second worker; two
crashes allow a crash of the recovery, and one dropped item beside one that is not. *gateway*: four calls and two faults allow a
crash, a crash in its recovery, and a call with other args before and after either.
*run*: one gated call followed by a free one is the shortest run with a call before and
after a park; two requests are two managers racing for one card; two faults are a fault
and one in its recovery. *watches*: the loop goes through the fired events of an instance
in order, so two runs are one behind the other; two overlapping writers are enough to
lose an update. *adapters*: a mail is repeated by a restart, a cancellation and a lost
reply, so three faults allow each once; keys interfere only through the tail and the
outcomes, so two show it. *hermes*: four turns are a call, a park, a call after the
resume and an end; one fault is what makes the loop ask again, and a second one only
starts it once more. *books*: two batches that share a document and one that names a
document twice are the two ways to meet a row again; the five statements are a doubtful
row between clean ones, one ahead of them, two pages, an unreadable balance with an
undated line, and no balance at all; two faults fail a batch and its retry. *discovery*:
four topics leave one beyond the shortlist and one refused; the bars keep their order
(posts > clusters = sources). *catalog*: the six types agree
in the id, the version, both or neither; four commands are two rivals that publish, a swarm
run and a promotion, or publish, instantiate, trigger and a promotion beyond canary on a
real case; two registrations at a time are a race. TLC reaches promotions of both kinds of
file, cases of replaced documents and a variant that got in, and the full invariant of the
proof was checked on this instance too. *console*: limits
of 3 and 4 under 5 events put events on both sides of each cut; a trigger that is
invoked again and parks after a decision takes a sixth, with which the safety property was
checked apart, and the proof has any number.

`run_reuse` ends in a violation on purpose and stands for the finding in `PROJECT.json`:
"too risky for current ring? -> PARK + approval card to human" (`docs/BLUEPRINT.md:101`).
Two approvals of the first card that both passed the inbox check are two work items; the
second executes the second risky call, which nobody saw. So `EffectNeedsApproval` is
checked, and proved, for runs with one risky call.

More promises that the modules refute are kept as definitions without a run of their
own. Each is violated under the named cfg when it is listed there:

| definition | cfg | promise | what happens |
|---|---|---|---|
| `RestartIsSafe` | `MCScheduler_queue` | "every work item is durable in Mongo so a worker restart is safe" (`api/operator.py:16`) | stopped while it holds an item, the worker leaves the row `claimed`; only `pending` rows are ever claimed |
| `EffectAtMostOnce` | `MCGateway_worker` | "the gateway uses this to guarantee an effect happens at most once" (`contracts/syscall.py:31`) | a fault after `adapter.execute` and before the saved receipt: the retry executes again |
| `EditedArgsAreUsed` | `MCRunLifecycle_managers` | "the resume worker uses the edited args" (`api/app.py:162`) | the key's journaled attempt has the original args; the gateway raises `IdempotencyRequestConflict` at every retry |
| `SettlementIsProjected` | `MCRunLifecycle_managers` | "SETTLE: ONE atomic commit" (`docs/BLUEPRINT.md:103`) | projections raise after `RunSettled`; every retry finds the run settled and refuses |
| `RejectDropsContinuation`, `SettlesOnce` | `MCRunLifecycle_managers` | `control.py:237`, `settlement.py:15` | a reject between park and saved continuation; a trigger retried after `RunSettled` |
| `ParkedRunHasCard` | `MCRunLifecycle_reuse` | the blueprint's sentence | the inbox drops a run with *any* resolution, so the second park of a run shows no card |
| `DuplicateIsCaught` | `MCGateway_worker` with two callers | `errors.py:18`: the gateway catches `DuplicateIdempotencyKey` | nobody does |
| `TailIsListed` | `MCAdapters_worker` | the tail's tasks are in the operator's queue | with a database the task store calls an asynchronous driver without awaiting it and the tail answers an error; without one the API lists a store of its own |
| `CapableProviderReads` | `MCAdapters_worker` | a page is read by a provider that can | `providers[0]` may be Brave, which cannot read |
| `ReportIsWired` | `MCAdapters_worker` | `GET /capabilities` tells what is wired | it does not know of Resend and does not list Brave |
| `SurvivorsSettle` | `MCDiscoveryRun_retries` | what passed every gate settles; the rest is deferred | more mapped candidates than the shortlist holds never satisfy the ladder's check, and the run is crashed |
| `ReconciledStatementSettles` | `MCBooksRun_batches` | statements that reconcile settle | `verifier.py` compares facts that became neighbours because a doubtful row between them was queued |

`ExclusiveClaim` of `Scheduler`, the three `ImplementsWorkQueue` of the compositions,
`RunsItsType` and `VariantsStayOut` of `Catalog`, `ClaimsSurviveParks` of `HermesRun`
and `RepeatsArePaidFor` of `RunLifecycle` hold, are proved
and are left out of the runs because a stronger property of the same run covers their hazard.

Deadlock is not checked in any run: every counter is bounded and a queue may be empty,
so a behaviour may really come to its end.

## 4. Fairness

Weak fairness of an actor's own steps: the event loop runs what can run and a store
answers. The scheduler adds weak fairness of the clock and of `Restart` (an operator
brings a stopped worker up). In `RunLifecycle`, `Claim(i)` has strong fairness because a
pending item is claimable only while the worker is idle, again and again; `FairTurns`
of `Scheduler` is why each item gets its turn. `Watches` adds weak fairness of a
deadline, which is the clock. `BooksRun` and `DiscoveryRun` have weak fairness of the
worker's invocation, because `_worker_loop` goes on whatever an item raises. `Console`
has it of `Serve`: the generator is served, and the browser's EventSource reconnects
(`dashboard/src/lib/events.ts`). Nobody is obliged to call, to enqueue, to make a
request, to report, to fail or to crash: those steps have no fairness, and `Adapters`,
`HermesRun` and `Catalog`, which check no liveness, have none at all.

The bounds do not help liveness along: `EveryItemCompletes` and `ApprovedRunSettles` say
which failures they assume away (`[](crashes = 0)`, `[](stops = 0)`), `EveryBatchEnds`
that a batch was categorised against one ledger, `EveryWatchMatures` names the watches
that an ungradable one starves, and finitely many raising stores are allowed in all of
them. `EveryEventIsShown` is about a journal that ends, as the bound makes it.

## 5. What is proved

All theorems hold for every value of the constants that satisfies the module's named
assumption (bounds are naturals, the "none" values are not values, and so on); the
bounds of the runs play no part. The inductive invariants were checked by TLC before
they were proved.

**Journal** (`StoresProofs`). `IInv` conjoins the safety properties with two facts the
induction needs: heads are naturals (`HeadsAreNat`), and an attempt's seq lies between
the number of rivals that beat it and the next free position (`AttemptNearHead`). The
latter is the heart of it: a seq that is not taken and is at most `MaxSeq + 1` *is*
`MaxSeq + 1`, so an insert that passes the index lands right after the head
(`InsertLandsAfterHead`). From it: `JournalIsTotallyOrdered`, `JournalSpendsKeysOnce`,
`OutcomesAreTrue`, `ContentionIsReal`, `JournalGrowsAtHead`, and
`JournalImplementsLedger`, the refinement: the insert maps to `Commit`, the three ways
of ending without an insert to `Abort`, the query and the retry to stuttering.

**Scheduler** (`StoresProofs`). `ExclusiveClaim` is inductive with the types;
`ReturnsOnce` needs `ReturnedStaysClaimed`: a row whose invocation returned is never
pending again, because only a worker that is failing sets it to pending and that worker
has not returned. `NoItemStarves` needs `RetriesQueueUp`: a pending item is due no
earlier than its last claim. `SchedulerImplementsWorkQueue` is the refinement: a worker's
hands are what it has claimed and not yet given up (`Held`), `Cancelled` and `UpdateRaises`
map to `Drop`, and invocations, polls and the clock to stuttering (`HandsStay`); that
`Claim` maps to a claim with empty hands and `Complete` and `Fail` to moves of a row that
is still claimed is what `ClaimsAreExclusive` is needed for. What holds of the abstract
queue then holds of the real one, and is proved there with four short cases:
`AbandonedItemsRest` says that a completed item stays completed and that a dropped one stays
claimed and in nobody's hands for good. It is the general form of the counterexample to
`RestartIsSafe` above: not "may be lost" in one behaviour, but "is never taken up again"
in all of them.

**Gateway** (`SyscallProofs`). With any number of callers, `IInv` says what a call
carries at each await (`CallCarries`): a call about to execute has its args in the
journal, a call about to settle has a receipt; the journal only grows and a receipt
never disappears. From it `SettlementsCanBeReplayed` and `EffectsAreJournaledAhead`.
Under the hypothesis `OneWorker` (at most one caller, which is how the process runs),
`OneWorkerInv` adds that a call knows the state of its key (`CallKnows`): nothing it
read is stale, and while there is no receipt every effect was paid for by a fault. From
it `OneRequestOwnsTheKey`, `AnswersAreFaithful` and `RepetitionIsBounded`. The
hypothesis is needed: two callers both read "no receipt" and both execute.

**Run** (`RunLifecycleProofs`). For any number of calls, managers, requests, faults and
cancellations. `IInv` adds to the types: a park is about a risky call and its ring is
above the instance's (`ParksAreRisky`); a request that left `idle` is about a risky card,
and its work item exists only once it decided, and not to reject (`RequestsHaveCards`);
only such an item raises the worker's ring (`WorkerHasItem`); every call before the
worker's, the continuation's and an edit's copy of it is settled (`CallsInOrder`); an
attempt never changes and is what lands (`AttemptsStand`). `TypeCorrect` and
`SettlementIsComplete` follow as they are. Under the hypothesis `OneRisky` (the harness
makes one risky call, as the lead-finder does) an executing risky call *is* the one on
the item's card, hence `RiskIsApproved` and `RejectsAreFinal`. The hypothesis is needed:
`run_reuse` is the counterexample without it. `ContinuationsMatchTheirRun` is about runs
nothing interrupted and nobody edits, with any number of risky calls. `QuietInv` adds to
`IInv` what such a run can be told: every call is made with the arguments the harness
proposed, so the gateway never refuses one (`AsProposed`) and the trigger's item is never
tried again (`TriggerRunsOnce`); a park nobody resolved is the last thing its invocation
did (`ParkIsLast`); a settlement is followed by the deletion and by nothing that saves
again (`SettledIsDeleted`). Each of the four needs the others: a second trigger would park
over a resolved park, and a refused call would try it again. The hypothesis `Quiet` is
looked at backwards: a run that is quiet after a step was quiet before it (`QuietBefore`).
`RowsFollow` (what the worker has in its hands is claimed, and the row of a resolution is
made by the last step of its request) is what `RunUsesWorkQueue` needs, the refinement of
`WorkQueue`; an invocation in between keeps its item (`InvocationGoesOn`) and a request
makes one row and then is done (`RequestsEnd`). Its consequence `StoppedItemsRest` is about
approvals: one whose work item was stopped under way is neither resumed nor completed.
`RepeatsAreFaults` bounds the effects of a call by one more than the faults that lost a
receipt, with any number of risky calls: in `ReceiptsFollow`, a call has a receipt, or is
the one whose receipt comes next, or a fault is on record for each of its effects, and only
a call without a receipt is attempted (`EffectsGrow`, `LossesStand`).

**Watches** (`WatchesProofs`). For any instances, runs, set-ring requests and faults,
whichever runs settle, are reported or cannot be graded. The folds of the model are
recursive functions over the length of the journal, and the two lemmas about them (that
an event appended is folded last, and that a fold has a type) are proved by the principle
of the least counterexample, which is a fact about natural numbers and needs no
operator. `WatchesMatureOnce` is inductive with what the pump may rely on where it is
(`Grounds`): which events of the run in its hand, and of every run still to do, are in the
journal already. `RowsFollowTheJournal` needs three facts: a rebuild forgets the row it
starts from at the event that writes the row whole (`RebuildForgets`); until a fault the
rows are the fold of the journal but for the one event that is journaled and not yet
projected (`RowAhead`, `RowsKeepUp`); and a run settles once, because its item leaves the
queue with its last write (`QueueIsTrue`). `ResumesFollowTheJournal` holds at every await
and not only between them once the fold is corrected by the settlement that is not written
yet and the maturation that is written first and journaled later (`Owed`): the resume and
every copy of it that somebody holds are near that (`TrustIsNear`), and exactly there as
long as nothing failed or overlapped (`ResumeIsExact`).

**Hermes** (`HermesRunProofs`). `FreshInv` says that until a fault no attempted key is
ahead of the session's counter, that only the call in hand is level with it, and that a
parked run's continuation holds that very call and that very session. A clash needs two
requests under one key, so `KeysStandAlone` follows for any number of turns and parks.
`HistoryInv` says that every tool call in a history is answered exactly once but for the
call in hand (`Answered`), that an identifier belongs to the turn that gave it, so none is
given twice, and that the session in hand and the saved one are both in that state
(`Tidy`): the acknowledgements, the observation and the restored prompt each answer what
they must, and `HistoriesAreAnswered` follows. `ClaimsInv` ties a claim to the turn it was
made in, which is later than any before it: `ParksKeepTheClaims`.

**Adapters** (`SyscallProofs`). `PaidInv` says that a key which neither the adapter
remembers nor the gateway has a receipt of has no mail but those a fault paid for, and
that a call about to send has no receipt, is not remembered and carries its own
instance's sender. Deliveries are counted with the library's facts about finite sets.
From it `SecondMailsArePaidFor`. `ToldInv` is about the truth of the answers: what serves a key once serves it always,
because a key has one request and only a process without a database, which is never
recomposed, queues tasks (`OneServesTheKey`); a key has one task at most, the answers on
record and the one under way are true (`Tells`), and a mail without a receipt is the one
being answered or hidden by a mishap (`AnswersTell`). Hence `ReceiptsTellTheTruth`, for any
keys, requests and mishaps and in every environment.

**Discovery** (`DiscoveryProofs`). `IInv` says that the scratchpad holds, of every read
behind the invocation, what the receipt on record says; that a call in flight has no
receipt yet; and that a fact in the heap means every read has one. A receipt never
changes, so neither does a fact: `PortfolioCanBeAudited`. `BarsInv` adds what the gates
decided: the buyers on record survived the moat of the clusters on record
(`BuyersAreSurvivors`), and beyond the last gate the ladder held (`LadderStands`), so
`SettledPortfoliosMeetTheBars`: the count the heap has is the count of the themes the
journaled sample really shows in enough communities. The types (`TypeCorrect`) are
inductive by themselves. `DiscoveryUsesWorkQueue` is the refinement of `WorkQueue`, from
`InvokedIsClaimed`: the item is claimed exactly while the playbook is at one of its places.

**Catalog** (`OperatorProofs`). Nothing is assumed about rivals: types may share ids and
versions. What no step takes back (`Lasts`): evidence, the ids of the catalog, a document
of a ref that was not raced, an instance's binding to a ref that was not raced. So what a
request remembers from its earlier awaits (`Knows`) stays true, a gate that was passed
stays passed, and a case, or a work item, is of its ref (`IsOf`): it graded what the
catalog has under that ref, or a built-in of that ref (scripts run those as the code has
them, and so does a swarm run whose type is not registered), or the ref was raced. With one
document per version that gives `PromotionIsEarned` and `TriggersRunTheirType`. Whatever
stands in the way of an upsert came after the reads (`ReadsWereEmpty`), hence
`VersionsAreStable`; a trigger never writes, because what it runs has a registered id; and
an override of a target is written only if its parent was raced away (`OverridesStayOut`).

**Books** (`BooksProofs`). Rows are picked out of sequences by one recursive function
(`Kept`), and one lemma about it (`KeptHolds`: what it returns is what stands at those
places, in a sequence of the same type) is proved by the least counterexample; ingest,
categorisation, facts and calls are all built from it. That no row is twice in one claim is
what the verifier's `no_duplicate_commit` looks at (`UniqueKeys`).
`HeapIsKnown` says that with one worker the heap is what the invocation read in it until
it projects its own facts, none of which is there yet: `TransactionsAreFactsOnce`.
`RowsAreCarried` follows the rows of a batch through an invocation: they are read or still
to be, then in the heap, or accounted for, or behind a call or a fact that is still to
come; `CallsPending` says that a call whose receipt reads ok has made its task. So when a
batch settles nothing is left to come: `EveryRowIsAccountedFor`, for any statements,
batches and failures. `BatchesUseWorkQueue` is the refinement of `WorkQueue`: here the
queue is a sequence, and a row of it is where the batch stands (`ItemOf`). `LineInv` says
that no batch is in the line twice, nor while it is being run, nor once it has its outcome;
at the start the line is the batches in some order, each once, which the pigeonhole theorem of
the library gives (`LineInit`).

**Console** (`OperatorProofs`). `StampsFollow` says that a run which was invoked once and
decided once has its events in the order of their stamps, that what is at hand for it (an
item of its approval, the request that decides it) is no older than all it has, and that
until its first park or settlement it has nothing but its creation. That needs
`EveryRunBegins` (a creation before any event, a park before a decision, a decision
before the item that resumes) and that no stamp is of the future. In a run like that the
event with the highest seq is also the newest, and as the newest events are closed under
"later", it is on the list if any of the run's is (`NewestIsClosed`): both readings end at
the same event, `ListShowsThePage`, for any limits, clocks, managers and faults. The
proof attempt is what showed the second exception of `ListAgreesWithPage`: an instance of
five events is too small for it. Of the stream, `StreamTellsTheJournal` proves the types
and `MarksWereSent`: it sends nothing that is not in the journal, and the mark of an
instance is always an event it has sent, although the journal grows between two reads of a
look (`CopiesAreRead`) and a mark may go back. That a poll has a latest event to mark
(`LatestOf`) is the least number of later ones.

Checked by TLC only, because they are out of the prover's reach: the nine liveness
properties. The definitions that the modules refute are no theorems. Every safety and
action property of a passing run, and the refinement of `Ledger` and the four of
`WorkQueue`, is proved.

## 6. What the models show about the code

Observations that are part of a model and contradict no sentence of the repository:

* *Catalog.* Two `register_type` of one id at the same time overwrite silently, and every
  draft of a name has the same id and version; `registry.py` refuses a rival only when
  the first is there to be read, or when its id differs (the index). Two instantiations of
  one business in one second overwrite as well. `promote` gathers by the file's `type_ref`
  and registers the file's `mandate_type` without comparing them (`api/tests/test_promote.py`
  has such files), so a type can be promoted on the evidence of another. `run_swarm`
  grades the lead-finder when the asked type is not registered and files the case under
  its ref, so a draft whose file does name its own ref earns no evidence before somebody
  registers it, and `promote` then finds it there. `promote` does not store the ring. A
  variant with an overridden target conflicts with its original, the conflict is swallowed,
  and the target is lost unless a trigger repeats it.
* *Adapters.* The SMTP and Resend transports have no health check, so the e-mail row of
  the capability report is always unreachable. The operator's runtime passes no discovery
  adapters to its registry.
* *Books.* Two API processes would break `HeapHoldsEachRowOnce`. A retry after a
  half-done projection may shift the places of the queue calls and conflict for ever.
  A document that bounces never reaches the human queue, a queue call that answers an
  error drops its row, and an undated line is dropped silently.
* *Discovery.* An error post counts toward the ten posts and keeps the free fall-back from
  being tried. The bundled live adapter sets no topic, so its posts are one cluster and
  the run is crashed. An escalation is a crashed run, not a parked one.
* *Read side.* A rejected run is shown as `approved_pending_resume`. A run that was
  decided twice, or invoked again after its call had parked, may be listed in an older
  state than its page shows. A second park of a
  run reuses its event id and is hidden by the client's de-duplication. A backlog's events carry their trigger's stamp and
  fall outside the 1000 events the list is made of. `approval_inbox` lists one item per
  `RunParked`.

## 7. What is not modelled, and why

Vault, hydration, run log and contracts are look-ups and types without a protocol. Model
prompts, scoring, compilers and simulated counterparts work on texts; `Catalog` has their
verdicts. `required_ring` never differs between two policies of one syscall, so a call is
its required ring. The channel rule has no supplier in production (the default allows);
`Gateway` has it, `RunLifecycle` does not. `ProjectionEngine.rebuild` has no caller in the
running system; `RowsAreTheFold` says what it would yield, also over the rows already
there. The thread projector holds text nobody reads back. The other playbooks
(lead-finder, creator) are fixed sequences of syscalls, which `RunLifecycle` takes as
given. Scripts and tests were read for what they promise. Two triggers of one kind in one
second get one run id; to the code they are one trigger invoked again, which every module
has. The dashboard is a view; `Console` has what it does with the stream.

`Catalog` seeds an empty catalog before the first command, with all built-in types at once:
`_ensure_canonical_mandate_registered` is run before every request and looks at the
catalog only, although its docstring speaks of memory mode. In memory there is no unique
index, but there the reads and the write of `register_type` never suspend, so its races
are those of a database. What an earlier process left is one document per version, without
overrides and with no memory of races. Candidates are taken as approved by a human
(`promote` checks a flag of the command), and a crashed simulation as graded, as the code
does.

Smaller abstractions. `Journal` decides from the server's report which index refused an
insert; the fall-back of `mongo.py` for an error that names neither is left out, since a
server always names one. `Console` has the writes of `resolve_approval` in one step;
`RunLifecycle` has the resolution and its work item as steps of their own. `HermesRun` has one approval per card; a second one is
the retry that `RunLifecycle` has.

Left for later: larger instances of `Adapters` and `Console`.
