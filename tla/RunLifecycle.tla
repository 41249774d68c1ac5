---------------------------- MODULE RunLifecycle ----------------------------
(***************************************************************************)
(* One mandate run from its trigger to its settlement, across the parts    *)
(* that touch it: the scheduler worker driving RunLoop.invoke and .resume  *)
(* (kernel/run_loop.py) through the gateway, and the API's approve, reject *)
(* and edit requests (api/app.py over KernelControl.resolve_approval),     *)
(* which run in the same event loop and interleave with it at every await. *)
(*                                                                         *)
(* They share the journal, the continuation sidecar and the work queue, and *)
(* no transaction spans two of them.  The harness is abstracted to the     *)
(* syscalls it makes in order; a re-run makes the same ones.  One worker    *)
(* runs (the process starts one _worker_loop); only it writes attempts,    *)
(* receipts and settlements, so the gateway's reads are one step here and  *)
(* its writes one step each (Gateway.tla has the reads apart).             *)
(***************************************************************************)
EXTENDS Naturals, Sequences, FiniteSets

CONSTANTS
    NCalls,         (* the harness makes syscalls 1 .. NCalls, then Finish  *)
    RequiredRing,   (* [1 .. NCalls -> policy.required_ring]                *)
    InstanceRing,   (* the ring of the instance when the work was enqueued  *)
    Requests,       (* manager requests over HTTP                           *)
    Actors,         (* who makes them                                       *)
    Decisions,      (* what they ask for                                    *)
    NoRequest,      (* the work item is the trigger's                       *)
    MaxFaults,      (* bound: stores that raise                             *)
    MaxStops        (* bound: a worker or a request that is cancelled       *)

Calls == 1 .. NCalls

ASSUME RunAssumption ==
    /\ NCalls \in Nat \ {0}
    /\ RequiredRing \in [Calls -> Nat]
    /\ InstanceRing \in Nat
    /\ Decisions \subseteq {"approve", "reject", "edit"}
    /\ NoRequest \notin Requests
    /\ MaxFaults \in Nat /\ MaxStops \in Nat

VARIABLES
    created,        (* RunCreated events                                    *)
    attempted,      (* [Calls -> args of the call's SyscallAttempted]       *)
    receipted,      (* [Calls -> args of the call's receipt]                *)
    callSettled,    (* calls with a SyscallSettled event                    *)
    park,           (* the last RunParked, with the call it is about        *)
    resolutions,    (* ApprovalResolved events in order                     *)
    runSettled,     (* RunSettled events                                    *)
    projected,      (* RunSettled events the projections have applied       *)
    continuation,   (* the run's continuation document                      *)
    queue,          (* [Items -> status of the scheduler row]               *)
    worker,         (* the worker's invocation                              *)
    request,        (* [Requests -> the state of the HTTP request]          *)
    effects,        (* history: effects that landed, in order               *)
    lost,           (* history: faults between execute and the receipt      *)
    faults, stops   (* faults and cancellations so far                      *)

journal == <<created, attempted, callSettled, park, resolutions, runSettled>>
bounds == <<lost, faults, stops>>
vars == <<created, attempted, receipted, callSettled, park, resolutions,
          runSettled, projected, continuation, queue, worker, request, effects,
          lost, faults, stops>>

Items == Requests \cup {NoRequest}
Args == {"proposed", "edited"}
Call == [call : Calls, args : Args]
NoArgs == "none"
NoCall == [call |-> 0, args |-> NoArgs]
NoPark == [call |-> 0, ring |-> 0]

Running == {"create", "resume", "restore", "gate", "attempt", "park", "save",
            "execute", "receipt", "settleCall", "settle", "project", "delete"}
WorkerPcs == Running \cup {"idle", "completing", "failing"}
RequestPcs == {"idle", "restoring", "saving", "resolving", "enqueueing",
               "dropping", "done", "stopped"}

WorkerState == [pc : WorkerPcs, item : Items, call : 0 .. NCalls,
                args : Args \cup {NoArgs}, ring : Nat]
RequestState == [pc : RequestPcs, actor : Actors \cup {"nobody"},
                 decision : Decisions \cup {"none"}, card : 0 .. NCalls,
                 copy : Call \cup {NoCall}]
IdleWorker == [pc |-> "idle", item |-> NoRequest, call |-> 0, args |-> NoArgs,
               ring |-> 0]

TypeOK ==
    /\ created \in Nat
    /\ attempted \in [Calls -> Args \cup {NoArgs}]
    /\ receipted \in [Calls -> Args \cup {NoArgs}]
    /\ callSettled \subseteq Calls
    /\ park \in [call : 0 .. NCalls, ring : Nat]
    /\ resolutions \in Seq([actor : Actors, decision : Decisions, card : Calls])
    /\ runSettled \in Nat /\ projected \in 0 .. runSettled
    /\ continuation \in Call \cup {NoCall}
    /\ queue \in [Items -> {"absent", "pending", "claimed", "completed"}]
    /\ worker \in WorkerState
    /\ request \in [Requests -> RequestState]
    /\ effects \in Seq(Call)
    /\ lost \in 0 .. faults + stops
    /\ faults \in 0 .. MaxFaults /\ stops \in 0 .. MaxStops

(* The trigger is enqueued (enqueue_trigger); nothing else has happened. *)
Init ==
    /\ created = 0
    /\ attempted = [k \in Calls |-> NoArgs]
    /\ receipted = [k \in Calls |-> NoArgs]
    /\ callSettled = {}
    /\ park = NoPark
    /\ resolutions = <<>>
    /\ runSettled = 0 /\ projected = 0
    /\ continuation = NoCall
    /\ queue = [i \in Items |-> IF i = NoRequest THEN "pending" ELSE "absent"]
    /\ worker = IdleWorker
    /\ request = [q \in Requests |->
                    [pc |-> "idle", actor |-> "nobody", decision |-> "none",
                     card |-> 0, copy |-> NoCall]]
    /\ effects = <<>>
    /\ lost = 0 /\ faults = 0 /\ stops = 0

-----------------------------------------------------------------------------
(* The worker: SchedulerWorker.run_once *)

Worker(pc) == worker' = [worker EXCEPT !.pc = pc]

Claim(i) ==
    /\ worker.pc = "idle"
    /\ queue[i] = "pending"
    /\ queue' = [queue EXCEPT ![i] = "claimed"]
    /\ worker' = [IdleWorker EXCEPT !.item = i,
                    !.pc = IF i = NoRequest THEN "create" ELSE "resume"]
    /\ UNCHANGED <<journal, receipted, projected, continuation, request, effects, bounds>>

Complete ==
    /\ worker.pc = "completing"
    /\ queue' = [queue EXCEPT ![worker.item] = "completed"]
    /\ worker' = IdleWorker
    /\ UNCHANGED <<journal, receipted, projected, continuation, request, effects, bounds>>

(* Mutant: an item whose invocation raised is not tried again. *)
BugGiveUp ==
    /\ worker.pc = "failing"
    /\ queue' = [queue EXCEPT ![worker.item] = "completed"]
    /\ worker' = IdleWorker
    /\ UNCHANGED <<journal, receipted, projected, continuation, request, effects, bounds>>

(* The item is pending again and will be claimed again, whatever was raised. *)
Fail ==
    /\ worker.pc = "failing"
    /\ queue' = [queue EXCEPT ![worker.item] = "pending"]
    /\ worker' = IdleWorker
    /\ UNCHANGED <<journal, receipted, projected, continuation, request, effects, bounds>>

(* RunLoop.invoke: RunCreated (a retried trigger appends another one), the
   hydration, RunHydrated; the harness starts at its first syscall. *)
Create ==
    /\ worker.pc = "create"
    /\ created' = created + 1
    /\ worker' = [worker EXCEPT !.pc = "gate", !.call = 1, !.args = "proposed",
                                !.ring = InstanceRing]
    /\ UNCHANGED <<attempted, receipted, callSettled, park, resolutions, runSettled,
                   projected, continuation, queue, request, effects, bounds>>

(* The latest ApprovalResolved with the event id of the work's approval, which
   is made of the run and the actor. *)
ResolutionOf(q) ==
    LET mine == {n \in DOMAIN resolutions :
                    resolutions[n].actor = request[q].actor}
    IN  resolutions[CHOOSE n \in mine : \A m \in mine : m <= n]

(* RunLoop.resume: events = await self.journal.read_run(run_id), and the
   checks that raise RunNotResumable. *)
ReadRun ==
    /\ worker.pc = "resume"
    /\ Worker(IF \/ runSettled > 0
                 \/ park = NoPark
                 \/ ResolutionOf(worker.item).decision = "reject"
              THEN "failing" ELSE "restore")
    /\ UNCHANGED <<journal, receipted, projected, continuation, queue, request, effects, bounds>>

(* continuation = await self.continuations.get(run_id); the pending call goes
   to the gateway with the ring of the last park. *)
Restore ==
    /\ worker.pc = "restore"
    /\ IF continuation = NoCall THEN Worker("failing")
       ELSE worker' = [worker EXCEPT !.pc = "gate", !.call = continuation.call,
                          !.args = continuation.args, !.ring = park.ring]
    /\ UNCHANGED <<journal, receipted, projected, continuation, queue, request, effects, bounds>>

-----------------------------------------------------------------------------
(* Gateway.invoke for the worker's call *)

NextCall(k) ==
    IF k = NCalls
    THEN worker' = [worker EXCEPT !.pc = "settle"]
    ELSE worker' = [worker EXCEPT !.pc = "gate", !.call = k + 1,
                        !.args = "proposed", !.ring = InstanceRing]

(* Mutant: the ring policy is off by one. *)
BugRingBelow == worker.ring + 1 >= RequiredRing[worker.call]

(* _RING_ORDER[ctx.ring] >= _RING_ORDER[policy.required_ring] *)
RingAllows == worker.ring >= RequiredRing[worker.call]

Disposition == IF RingAllows THEN "execute" ELSE "park"

(* _prior_outcome and the reading half of _ensure_attempt. *)
Gate ==
    /\ worker.pc = "gate"
    /\ LET k == worker.call
           other(args) == args \notin {NoArgs, worker.args}
       IN  CASE other(receipted[k]) -> Worker("failing")
             [] receipted[k] = worker.args /\ k \in callSettled -> NextCall(k)
             [] receipted[k] = worker.args /\ k \notin callSettled -> Worker("settleCall")
             [] receipted[k] = NoArgs /\ other(attempted[k]) -> Worker("failing")
             [] receipted[k] = NoArgs /\ attempted[k] = worker.args -> Worker(Disposition)
             [] receipted[k] = NoArgs /\ attempted[k] = NoArgs -> Worker("attempt")
    /\ UNCHANGED <<journal, receipted, projected, continuation, queue, request, effects, bounds>>

Attempt ==
    /\ worker.pc = "attempt"
    /\ attempted' = [attempted EXCEPT ![worker.call] = worker.args]
    /\ Worker(Disposition)
    /\ UNCHANGED <<created, receipted, callSettled, park, resolutions, runSettled,
                   projected, continuation, queue, request, effects, bounds>>

(* HumanApprovalGate.park_for_approval *)
Park ==
    /\ worker.pc = "park"
    /\ park' = [call |-> worker.call, ring |-> RequiredRing[worker.call]]
    /\ Worker("save")
    /\ UNCHANGED <<created, attempted, receipted, callSettled, resolutions, runSettled,
                   projected, continuation, queue, request, effects, bounds>>

(* Mutant: the continuation points past the call that parked. *)
BugSaveAfterCall ==
    /\ worker.pc = "save"
    /\ continuation' = IF worker.call < NCalls
                       THEN [call |-> worker.call + 1, args |-> "proposed"]
                       ELSE [call |-> worker.call, args |-> worker.args]
    /\ Worker("completing")
    /\ UNCHANGED <<journal, receipted, projected, queue, request, effects, bounds>>

(* _save_continuation, after the park is journaled; the last write of the
   invocation: if its reply is lost the invocation raises. *)
SaveContinuation ==
    /\ worker.pc = "save"
    /\ continuation' = [call |-> worker.call, args |-> worker.args]
    /\ \/ Worker("completing") /\ UNCHANGED faults
       \/ faults < MaxFaults /\ faults' = faults + 1 /\ Worker("failing")
    /\ UNCHANGED <<journal, receipted, projected, queue, request, effects, lost, stops>>

Execute ==
    /\ worker.pc = "execute"
    /\ effects' = Append(effects, [call |-> worker.call, args |-> worker.args])
    /\ Worker("receipt")
    /\ UNCHANGED <<journal, receipted, projected, continuation, queue, request, bounds>>

SaveReceipt ==
    /\ worker.pc = "receipt"
    /\ receipted' = [receipted EXCEPT ![worker.call] = worker.args]
    /\ Worker("settleCall")
    /\ UNCHANGED <<journal, projected, continuation, queue, request, effects, bounds>>

SettleCall ==
    /\ worker.pc = "settleCall"
    /\ callSettled' = callSettled \cup {worker.call}
    /\ NextCall(worker.call)
    /\ UNCHANGED <<created, attempted, receipted, park, resolutions, runSettled,
                   projected, continuation, queue, request, effects, bounds>>

-----------------------------------------------------------------------------
(* Settlement *)

(* A step of the harness raises or escalates, its step budget runs out or the
   verification fails: RunResult(state="crashed").  Nothing is journaled and
   the work item is completed. *)
Crash ==
    /\ worker.pc \in {"gate", "settle"}
    /\ stops < MaxStops
    /\ stops' = stops + 1
    /\ Worker("completing")
    /\ UNCHANGED <<journal, receipted, projected, continuation, queue, request, effects, lost, faults>>

(* RunVerified, then SettlementCommitter.commit: append RunSettled ... *)
Settle ==
    /\ worker.pc = "settle"
    /\ runSettled' = runSettled + 1
    /\ Worker("project")
    /\ UNCHANGED <<created, attempted, receipted, callSettled, park, resolutions,
                   projected, continuation, queue, request, effects, bounds>>

(* ... and apply it to the heap, the resume, billing, threads and watches. *)
Project ==
    /\ worker.pc = "project"
    /\ projected' = projected + 1
    /\ Worker("delete")
    /\ UNCHANGED <<journal, receipted, continuation, queue, request, effects, bounds>>

(* Mutant: the continuation of a settled run is kept. *)
BugKeepContinuation ==
    /\ worker.pc = "delete"
    /\ Worker("completing")
    /\ UNCHANGED <<journal, receipted, projected, continuation, queue, request, effects, bounds>>

(* await self.continuations.delete(ctx.run_id) *)
DeleteContinuation ==
    /\ worker.pc = "delete"
    /\ continuation' = NoCall
    /\ \/ Worker("completing") /\ UNCHANGED faults
       \/ faults < MaxFaults /\ faults' = faults + 1 /\ Worker("failing")
    /\ UNCHANGED <<journal, receipted, projected, queue, request, effects, lost, stops>>

LoseExecution == lost' = IF worker.pc = "receipt" THEN lost + 1 ELSE lost

(* A store raises under the invocation. *)
Raise ==
    /\ worker.pc \in Running
    /\ faults < MaxFaults
    /\ faults' = faults + 1
    /\ LoseExecution
    /\ Worker("failing")
    /\ UNCHANGED <<journal, receipted, projected, continuation, queue, request, effects, stops>>

(* stop_worker cancels the loop at an await; the row stays claimed. *)
Stop ==
    /\ worker.pc # "idle"
    /\ stops < MaxStops
    /\ stops' = stops + 1
    /\ LoseExecution
    /\ worker' = IdleWorker
    /\ UNCHANGED <<journal, receipted, projected, continuation, queue, request, effects, faults>>

-----------------------------------------------------------------------------
(* Manager requests: _resolve and edit *)

Request(q, pc) == request' = [request EXCEPT ![q].pc = pc]

(* approval_inbox: the parks of runs nobody has resolved; the card shows the
   attempt before the park. *)
InInbox == park # NoPark /\ resolutions = <<>>

(* inbox = await state.control.approval_inbox(...); a run that is not in it is
   answered with 404 and changes nothing. *)
ReadInbox(q, actor, decision) ==
    /\ request[q].pc = "idle"
    /\ InInbox
    /\ request' = [request EXCEPT ![q] =
                     [pc |-> IF decision = "edit" THEN "restoring" ELSE "resolving",
                      actor |-> actor, decision |-> decision, card |-> park.call,
                      copy |-> NoCall]]
    /\ UNCHANGED <<journal, receipted, projected, continuation, queue, worker, effects, bounds>>

(* edit: continuation = await ...get(run_id); None skips the rewrite. *)
EditReads(q) ==
    /\ request[q].pc = "restoring"
    /\ request' = [request EXCEPT ![q].copy = continuation,
                     ![q].pc = IF continuation = NoCall THEN "resolving" ELSE "saving"]
    /\ UNCHANGED <<journal, receipted, projected, continuation, queue, worker, effects, bounds>>

(* edit: the copy with its args rewritten is saved. *)
EditSaves(q) ==
    /\ request[q].pc = "saving"
    /\ continuation' = [request[q].copy EXCEPT !.args = "edited"]
    /\ Request(q, "resolving")
    /\ UNCHANGED <<journal, receipted, projected, queue, worker, effects, bounds>>

(* Mutant: every decision is journaled and enqueued as an approval. *)
BugAlwaysApproves(q) ==
    /\ request[q].pc = "resolving"
    /\ resolutions' = Append(resolutions,
          [actor |-> request[q].actor, decision |-> "approve",
           card |-> request[q].card])
    /\ Request(q, "enqueueing")
    /\ UNCHANGED <<created, attempted, receipted, callSettled, park, runSettled,
                   projected, continuation, queue, worker, effects, bounds>>

(* resolve_approval: ManagerAction (which nothing reads), then
   ApprovalResolved. *)
Resolve(q) ==
    /\ request[q].pc = "resolving"
    /\ resolutions' = Append(resolutions,
          [actor |-> request[q].actor, decision |-> request[q].decision,
           card |-> request[q].card])
    /\ Request(q, IF request[q].decision = "reject" THEN "dropping" ELSE "enqueueing")
    /\ UNCHANGED <<created, attempted, receipted, callSettled, park, runSettled,
                   projected, continuation, queue, worker, effects, bounds>>

(* ApprovalWork is keyed by the resolution, so each has a row of its own. *)
Enqueue(q) ==
    /\ request[q].pc = "enqueueing"
    /\ queue' = [queue EXCEPT ![q] = "pending"]
    /\ Request(q, "done")
    /\ UNCHANGED <<journal, receipted, projected, continuation, worker, effects, bounds>>

(* reject: await self._continuations.delete(run_id) *)
Drop(q) ==
    /\ request[q].pc = "dropping"
    /\ continuation' = NoCall
    /\ Request(q, "done")
    /\ UNCHANGED <<journal, receipted, projected, queue, worker, effects, bounds>>

(* The request ends between two awaits: a store raises or the process stops. *)
RequestStops(q) ==
    /\ request[q].pc \notin {"idle", "done", "stopped"}
    /\ stops < MaxStops
    /\ stops' = stops + 1
    /\ Request(q, "stopped")
    /\ UNCHANGED <<journal, receipted, projected, continuation, queue, worker, effects,
                   lost, faults>>

-----------------------------------------------------------------------------
WorkerStep ==
    \/ Complete \/ Fail
    \/ Create \/ ReadRun \/ Restore
    \/ Gate \/ Attempt \/ Park \/ SaveContinuation
    \/ Execute \/ SaveReceipt \/ SettleCall
    \/ Settle \/ Project \/ DeleteContinuation

RequestStep(q) ==
    \/ EditReads(q) \/ EditSaves(q)
    \/ Resolve(q) \/ Enqueue(q) \/ Drop(q)

Next ==
    \/ \E i \in Items : Claim(i)
    \/ WorkerStep
    \/ Crash \/ Raise \/ Stop
    \/ \E q \in Requests :
          \/ \E actor \in Actors, decision \in Decisions : ReadInbox(q, actor, decision)
          \/ RequestStep(q)
          \/ RequestStops(q)

Spec == Init /\ [][Next]_vars

(* The event loop runs what can run; FairTurns of Scheduler is why every
   pending item is claimed in its turn.  Nobody has to make a request. *)
Fairness ==
    /\ WF_vars(WorkerStep)
    /\ \A i \in Items : SF_vars(Claim(i))
    /\ \A q \in Requests : WF_vars(RequestStep(q))
FairSpec == Spec /\ Fairness

-----------------------------------------------------------------------------
(* Properties *)

EffectsOf(k) == {n \in DOMAIN effects : effects[n].call = k}

Risky(k) == RequiredRing[k] > InstanceRing

(* "too risky for current ring? -> PARK + approval card to human"
   (docs/BLUEPRINT.md): a risky effect lands only after a manager approved the
   card that showed that very call. *)
EffectNeedsApproval ==
    \A n \in DOMAIN effects : Risky(effects[n].call) =>
       \E m \in DOMAIN resolutions :
          /\ resolutions[m].card = effects[n].call
          /\ resolutions[m].decision # "reject"

(* Re-runs of the trigger, resumptions and their retries repeat an effect only
   for a fault between its execution and its receipt. *)
RepeatsArePaidFor ==
    \A k \in Calls : Cardinality(EffectsOf(k)) <= 1 + lost

(* The run uses the work queue as a queue with one worker: nothing is put back or
   completed but what the worker has claimed, a request puts its item there once,
   and the item of a worker that is stopped is never taken up again. *)
Held == [k \in {"worker"} |-> IF worker.pc = "idle" THEN {} ELSE {worker.item}]

Queue == INSTANCE WorkQueue WITH Workers <- {"worker"}, row <- queue, holds <- Held

ImplementsWorkQueue == Queue!Spec

(* Whether some manager asked for anything but the rejection of the card. *)
Granted(card) ==
    \E q \in Requests : request[q].card = card /\ request[q].decision # "reject"

(* Once the reject request of a card nobody approved is answered, the rejected
   call never lands, whatever is retried, resumed or run again. *)
RejectIsFinal ==
    [][\A q \in Requests :
          (request[q].pc = "done" /\ request[q].decision = "reject"
             /\ ~Granted(request[q].card))
             => EffectsOf(request[q].card)' = EffectsOf(request[q].card)]_vars

(* The run settles once every syscall of it settled, and what landed is what
   was journaled as attempted. *)
SettledRunIsComplete ==
    runSettled > 0 =>
       \A k \in Calls : k \in callSettled /\ \A n \in EffectsOf(k) :
                           effects[n].args = attempted[k]

AtRest == worker.pc = "idle" /\ \A q \in Requests : request[q].pc \in {"idle", "done"}

(* An edit writes the sidecar back at a time of its own, even after the run
   settled. *)
NobodyEdits == \A q \in Requests : request[q].decision # "edit"

(* Between two work items of a run nothing interrupted and nobody edits: the
   call the inbox shows is the one an approval will resume, and a settled run
   left no continuation behind. *)
ContinuationMatchesRun ==
    AtRest /\ faults = 0 /\ stops = 0 /\ NobodyEdits =>
       /\ InInbox => continuation = [call |-> park.call, args |-> attempted[park.call]]
       /\ runSettled > 0 => continuation = NoCall

(* "terminalize the parked continuation so a stale resumption can never replay
   the parked effect" (control.py): a rejected run keeps no continuation. *)
RejectDropsContinuation ==
    AtRest /\ (\E q \in Requests : request[q].pc = "done" /\ request[q].decision = "reject")
       => continuation = NoCall

(* A run that is only ever approved settles, through any finite number of stores
   that raise under the worker, as long as nobody is cancelled between two
   awaits. *)
ApprovedRunSettles ==
    [](stops = 0 /\ \A m \in DOMAIN resolutions : resolutions[m].decision = "approve") =>
        ((\E m \in DOMAIN resolutions : resolutions[m].decision = "approve")
            ~> runSettled > 0)

(* "PARK + approval card to human": a run parked on a call nobody has decided
   about is in the inbox. *)
ParkedRunHasCard ==
    park # NoPark /\ (\A m \in DOMAIN resolutions : resolutions[m].card # park.call)
       => InInbox

(* "rewrites continuation.pending_call.args so the resume worker uses the
   edited args" (app.py). *)
EditedArgsAreUsed ==
    (\E m \in DOMAIN resolutions : resolutions[m].decision = "edit")
       ~> (\E n \in DOMAIN effects : effects[n].args = "edited")

(* "Append one RunSettled event and fan it out" (settlement.py). *)
SettlesOnce == runSettled <= 1

(* "SETTLE: ONE atomic commit" (docs/BLUEPRINT.md): a settled run reaches the
   heap, the resume and the bills. *)
SettlementIsProjected == runSettled > 0 ~> projected > 0

-----------------------------------------------------------------------------
(* The strengthening of the safety properties.  A park, and with it a card, is
   about a risky call; a work item beyond the trigger's stands for a resolution
   that is no rejection; only such an item raises the worker's ring. *)

Driving == {"gate", "attempt", "park", "save", "execute", "receipt", "settleCall"}

ParksAreRisky ==
    park # NoPark => park.call \in Calls /\ Risky(park.call) /\ park.ring > InstanceRing

Decided(q) ==
    \E m \in DOMAIN resolutions :
       resolutions[m].card = request[q].card /\ resolutions[m].decision # "reject"

HasCard(q) ==
    /\ request[q].pc # "idle" =>
          /\ request[q].actor \in Actors /\ request[q].decision \in Decisions
          /\ request[q].card \in Calls /\ Risky(request[q].card)
    /\ request[q].pc = "saving" => request[q].copy # NoCall
    /\ request[q].pc = "enqueueing" => request[q].decision # "reject" /\ Decided(q)
    /\ queue[q] # "absent" =>
          request[q].pc # "idle" /\ request[q].decision # "reject" /\ Decided(q)

RequestsHaveCards == \A q \in Requests : HasCard(q)

WorkerHasItem ==
    /\ worker.pc # "idle" => queue[worker.item] # "absent"
    /\ worker.pc = "resume" => worker.item \in Requests
    /\ worker.pc = "restore" => worker.item \in Requests /\ park # NoPark
    /\ worker.pc \in Driving =>
          /\ worker.call \in Calls /\ worker.args # NoArgs
          /\ worker.ring >= InstanceRing
          /\ worker.item = NoRequest => worker.ring = InstanceRing
    /\ worker.pc = "execute" => RingAllows
    /\ worker.pc = "park" => ~RingAllows
    /\ worker.pc = "project" => projected < runSettled

(* Whatever the worker or a copy of the continuation is about to do next, the
   calls before it are settled; what is attempted stays attempted. *)
DoneBefore(k) == \A j \in Calls : j < k => j \in callSettled

CallsInOrder ==
    /\ worker.pc \in Driving => DoneBefore(worker.call)
    /\ worker.pc = "settle" => DoneBefore(NCalls + 1)
    /\ runSettled > 0 => DoneBefore(NCalls + 1)
    /\ continuation # NoCall => DoneBefore(continuation.call)
    /\ \A q \in Requests : request[q].copy # NoCall => DoneBefore(request[q].copy.call)

AttemptsStand ==
    /\ worker.pc = "attempt" => attempted[worker.call] = NoArgs
    /\ worker.pc \in {"park", "execute"} => attempted[worker.call] = worker.args
    /\ \A n \in DOMAIN effects : attempted[effects[n].call] = effects[n].args

IInv ==
    /\ TypeOK /\ ParksAreRisky /\ RequestsHaveCards /\ WorkerHasItem
    /\ CallsInOrder /\ AttemptsStand

(* The strengthening of ImplementsWorkQueue: what the worker has in its hands is
   claimed, and the row of a resolution is made by the last step of its request. *)
RowsFollow ==
    /\ worker.pc # "idle" => queue[worker.item] = "claimed"
    /\ \A q \in Requests : queue[q] # "absent" => request[q].pc = "done"

(* The strengthening of RepeatsArePaidFor: a call whose effects are not all paid
   for by faults has a receipt, or is the one whose receipt comes next; and the
   worker does not execute a call that has one. *)
ReceiptsFollow ==
    /\ worker.pc \in {"attempt", "park", "execute", "receipt"} =>
          receipted[worker.call] = NoArgs
    /\ \A k \in Calls :
          Cardinality(EffectsOf(k)) <=
             IF receipted[k] # NoArgs \/ (worker.pc = "receipt" /\ worker.call = k)
             THEN 1 + lost ELSE lost

(* The strengthening of ContinuationMatchesRun.  While nothing interrupted and
   nobody edits, every call is made with the arguments the harness proposed and
   the trigger's item is never tried again; a park nobody has resolved is the
   last thing its invocation did, and a settlement what a run is deleted after. *)
Quiet == faults = 0 /\ stops = 0 /\ NobodyEdits

AsProposed ==
    /\ \A k \in Calls : {attempted[k], receipted[k]} \subseteq {NoArgs, "proposed"}
    /\ {worker.args, continuation.args} \subseteq {NoArgs, "proposed"}

TriggerRunsOnce ==
    /\ worker.pc = "failing" => worker.item \in Requests
    /\ queue[NoRequest] = "pending" => worker.pc = "idle" /\ park = NoPark /\ runSettled = 0

ParkIsLast ==
    InInbox =>
       /\ worker.pc \in {"save", "completing", "idle"}
       /\ worker.pc = "save" =>
             worker.call = park.call /\ worker.args = attempted[park.call]
       /\ worker.pc # "save" =>
             continuation = [call |-> park.call, args |-> attempted[park.call]]

SettledIsDeleted ==
    runSettled > 0 =>
       /\ worker.pc \in {"project", "delete", "completing", "idle", "resume", "failing"}
       /\ worker.pc \notin {"project", "delete"} => continuation = NoCall

QuietInv ==
    /\ park = NoPark => \A q \in Requests : request[q].pc = "idle"
    /\ \A q \in Requests :
          /\ request[q].pc = "idle" => request[q].decision = "none"
          /\ request[q].pc \in {"restoring", "saving"} => request[q].decision = "edit"
          /\ request[q].pc = "dropping" => resolutions # <<>>
    /\ Quiet => AsProposed /\ TriggerRunsOnce /\ ParkIsLast /\ SettledIsDeleted
=============================================================================
