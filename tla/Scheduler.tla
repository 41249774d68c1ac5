----------------------------- MODULE Scheduler ------------------------------
(***************************************************************************)
(* The durable work queue and the workers that drain it: SchedulerStore    *)
(* (stores/mongo.py; stores/memory.py behaves alike), SchedulerWorker      *)
(* .run_once (scheduler.py) and the operator's _worker_loop                *)
(* (api/.../operator.py).                                                  *)
(*                                                                         *)
(* A store operation is one atomic document update; between two of them a  *)
(* worker may be cancelled (stop_worker, the process ends), and the update *)
(* that releases an item may itself raise.  What invoke or resume does is   *)
(* the matter of other modules: here it returns or raises.                 *)
(***************************************************************************)
EXTENDS Naturals, FiniteSets

CONSTANTS
    NWork,          (* work ids are 1 .. NWork, in the order of their _id   *)
    Workers,        (* processes running _worker_loop over one database     *)
    MaxTime,        (* bound: the clock stops advancing here                *)
    MaxFailures,    (* bound: invocations that raise                        *)
    MaxCrashes      (* bound: cancellations and failed store updates        *)

ASSUME SchedulerAssumption ==
    /\ NWork \in Nat
    /\ MaxTime \in Nat
    /\ MaxFailures \in Nat
    /\ MaxCrashes \in Nat

WorkIds == 1 .. NWork
NoWork == 0
Times == 0 .. MaxTime

VARIABLES
    status,         (* [WorkIds -> the row's status]                        *)
    availableAt,    (* [WorkIds -> the row's available_at]                  *)
    worker,         (* [Workers -> pc, claimed work and the `now` it used]  *)
    lastPoll,       (* [Workers -> clock at the last run_once]              *)
    now,            (* wall clock                                           *)
    returned,       (* history: [WorkIds -> invocations that returned]      *)
    lastClaim,      (* history: [WorkIds -> `now` of the last claim]        *)
    failures,       (* invocations that raised so far                       *)
    crashes         (* crashes so far                                       *)

store == <<status, availableAt>>
queueVars == <<status, availableAt, worker, lastPoll, now, returned, lastClaim,
          failures, crashes>>

Status == {"absent", "pending", "claimed", "completed"}
Holding == {"running", "completing", "failing"}
WorkerState == [pc : {"idle", "down"} \cup Holding,
                work : WorkIds \cup {NoWork}, now : Times]
Idle == [pc |-> "idle", work |-> NoWork, now |-> 0]
Down == [pc |-> "down", work |-> NoWork, now |-> 0]

QueueTypeOK ==
    /\ status \in [WorkIds -> Status]
    /\ availableAt \in [WorkIds -> Times]
    /\ worker \in [Workers -> WorkerState]
    /\ lastPoll \in [Workers -> Times]
    /\ now \in Times
    /\ returned \in [WorkIds -> Nat]
    /\ lastClaim \in [WorkIds -> Times]
    /\ failures \in 0 .. MaxFailures
    /\ crashes \in 0 .. MaxCrashes

QueueInit ==
    /\ status = [w \in WorkIds |-> "absent"]
    /\ availableAt = [w \in WorkIds |-> 0]
    /\ worker = [k \in Workers |-> Idle]
    /\ lastPoll = [k \in Workers |-> 0]
    /\ now = 0
    /\ returned = [w \in WorkIds |-> 0]
    /\ lastClaim = [w \in WorkIds |-> 0]
    /\ failures = 0
    /\ crashes = 0

-----------------------------------------------------------------------------
(* The store *)

(* enqueue: $setOnInsert by the deterministic work id, so a second enqueue of
   the same request changes nothing, whatever became of the first. *)
Enqueue(w, at) ==
    /\ status[w] = "absent"
    /\ status' = [status EXCEPT ![w] = "pending"]
    /\ availableAt' = [availableAt EXCEPT ![w] = at]
    /\ UNCHANGED <<worker, lastPoll, now, returned, lastClaim, failures, crashes>>

Due(w) == status[w] = "pending" /\ availableAt[w] <= now

(* sort=[("available_at", 1), ("_id", 1)] *)
Before(v, w) ==
    \/ availableAt[v] < availableAt[w]
    \/ availableAt[v] = availableAt[w] /\ v < w

Earliest(w) == Due(w) /\ \A v \in WorkIds \ {w} : Due(v) => Before(w, v)

(* The loop sleeps between two polls, so a worker's clock readings grow; the
   clock of the model stops at MaxTime. *)
Polls(k) ==
    /\ worker[k].pc = "idle"
    /\ lastPoll[k] < now \/ now = MaxTime
    /\ lastPoll' = [lastPoll EXCEPT ![k] = now]

(* Mutant: find, then update: the row is not required to be pending still. *)
BugClaimNotAtomic(k) ==
    /\ Polls(k)
    /\ \E w \in WorkIds :
          /\ status[w] \in {"pending", "claimed"} /\ availableAt[w] <= now
          /\ status' = [status EXCEPT ![w] = "claimed"]
          /\ worker' = [worker EXCEPT ![k] =
                          [pc |-> "running", work |-> w, now |-> now]]
          /\ lastClaim' = [lastClaim EXCEPT ![w] = now]
    /\ UNCHANGED <<availableAt, now, returned, failures, crashes>>

(* run_once claims (find_one_and_update: one atomic step) and invokes. *)
Claim(k) ==
    /\ Polls(k)
    /\ \E w \in WorkIds :
          /\ Earliest(w)
          /\ status' = [status EXCEPT ![w] = "claimed"]
          /\ worker' = [worker EXCEPT ![k] =
                          [pc |-> "running", work |-> w, now |-> now]]
          /\ lastClaim' = [lastClaim EXCEPT ![w] = now]
    /\ UNCHANGED <<availableAt, now, returned, failures, crashes>>

(* run_once finds nothing due and returns None. *)
PollEmpty(k) ==
    /\ Polls(k)
    /\ \A w \in WorkIds : ~Due(w)
    /\ UNCHANGED <<store, worker, now, returned, lastClaim, failures, crashes>>

-----------------------------------------------------------------------------
(* The rest of run_once *)

InvokeReturns(k) ==
    /\ worker[k].pc = "running"
    /\ worker' = [worker EXCEPT ![k].pc = "completing"]
    /\ returned' = [returned EXCEPT ![worker[k].work] = @ + 1]
    /\ UNCHANGED <<store, lastPoll, now, lastClaim, failures, crashes>>

(* except Exception *)
InvokeRaises(k) ==
    /\ worker[k].pc = "running"
    /\ failures < MaxFailures
    /\ failures' = failures + 1
    /\ worker' = [worker EXCEPT ![k].pc = "failing"]
    /\ UNCHANGED <<store, lastPoll, now, returned, lastClaim, crashes>>

(* complete: only a claimed row becomes completed. *)
Complete(k) ==
    /\ worker[k].pc = "completing"
    /\ LET w == worker[k].work IN
          status' = [status EXCEPT ![w] =
                       IF status[w] = "claimed" THEN "completed" ELSE @]
    /\ worker' = [worker EXCEPT ![k] = Idle]
    /\ UNCHANGED <<availableAt, lastPoll, now, returned, lastClaim, failures, crashes>>

(* Mutant: the item keeps its old place in the order. *)
BugRetryAtFront(k) ==
    /\ worker[k].pc = "failing"
    /\ status' = [status EXCEPT ![worker[k].work] = "pending"]
    /\ worker' = [worker EXCEPT ![k] = Idle]
    /\ UNCHANGED <<availableAt, lastPoll, now, returned, lastClaim, failures, crashes>>

(* Mutant: the status "failed", which SchedulerWorkStatus names and no store
   operation sets. *)
BugGiveUp(k) ==
    /\ worker[k].pc = "failing"
    /\ status' = [status EXCEPT ![worker[k].work] = "failed"]
    /\ worker' = [worker EXCEPT ![k] = Idle]
    /\ UNCHANGED <<availableAt, lastPoll, now, returned, lastClaim, failures, crashes>>

(* fail(retry_at=now): back to pending, due at the time of the failed claim. *)
Fail(k) ==
    /\ worker[k].pc = "failing"
    /\ LET w == worker[k].work IN
          IF status[w] = "claimed"
          THEN /\ status' = [status EXCEPT ![w] = "pending"]
               /\ availableAt' = [availableAt EXCEPT ![w] = worker[k].now]
          ELSE UNCHANGED store
    /\ worker' = [worker EXCEPT ![k] = Idle]
    /\ UNCHANGED <<lastPoll, now, returned, lastClaim, failures, crashes>>

-----------------------------------------------------------------------------
(* Failures of the worker itself *)

(* CancelledError is not an Exception: run_once neither fails nor completes the
   item, and the loop ends. *)
Cancelled(k) ==
    /\ crashes < MaxCrashes
    /\ worker[k].pc # "down"
    /\ worker' = [worker EXCEPT ![k] = Down]
    /\ crashes' = crashes + 1
    /\ UNCHANGED <<store, lastPoll, now, returned, lastClaim, failures>>

(* complete or fail raises: _worker_loop logs it and goes on to the next tick. *)
UpdateRaises(k) ==
    /\ crashes < MaxCrashes
    /\ worker[k].pc \in {"completing", "failing"}
    /\ worker' = [worker EXCEPT ![k] = Idle]
    /\ crashes' = crashes + 1
    /\ UNCHANGED <<store, lastPoll, now, returned, lastClaim, failures>>

(* Mutant: a restart that takes claimed rows for abandoned ones. *)
BugReclaim(k) ==
    /\ worker[k].pc = "down"
    /\ worker' = [worker EXCEPT ![k] = Idle]
    /\ status' = [w \in WorkIds |->
                    IF status[w] = "claimed" THEN "pending" ELSE status[w]]
    /\ UNCHANGED <<availableAt, lastPoll, now, returned, lastClaim, failures, crashes>>

(* start_worker *)
Restart(k) ==
    /\ worker[k].pc = "down"
    /\ worker' = [worker EXCEPT ![k] = Idle]
    /\ UNCHANGED <<store, lastPoll, now, returned, lastClaim, failures, crashes>>

Tick ==
    /\ now < MaxTime
    /\ now' = now + 1
    /\ UNCHANGED <<store, worker, lastPoll, returned, lastClaim, failures, crashes>>

WorkerStep(k) ==
    \/ Claim(k)
    \/ InvokeReturns(k)
    \/ Complete(k)
    \/ Fail(k)

QueueNext ==
    \/ \E w \in WorkIds, at \in Times : Enqueue(w, at)
    \/ \E k \in Workers :
          \/ WorkerStep(k)
          \/ PollEmpty(k)
          \/ InvokeRaises(k)
          \/ Cancelled(k)
          \/ UpdateRaises(k)
          \/ Restart(k)
    \/ Tick

QueueSpec == QueueInit /\ [][QueueNext]_queueVars

(* Time passes, a running loop keeps polling and its awaits come back, an
   operator brings a stopped worker up again.  Nothing obliges an invocation to
   raise or a worker to crash. *)
QueueFairness ==
    /\ WF_queueVars(Tick)
    /\ \A k \in Workers : WF_queueVars(WorkerStep(k)) /\ WF_queueVars(Restart(k))
FairQueueSpec == QueueSpec /\ QueueFairness

-----------------------------------------------------------------------------
(* Properties *)

(* "Atomically claim": while a worker is between claiming an item and releasing
   it, the row says claimed and no other worker has the item. *)
ExclusiveClaim ==
    \A k \in Workers : worker[k].pc \in Holding =>
       /\ status[worker[k].work] = "claimed"
       /\ \A j \in Workers \ {k} :
             worker[j].pc \in Holding => worker[j].work # worker[k].work

Held == [k \in Workers |->
            IF worker[k].pc \in Holding THEN {worker[k].work} ELSE {}]

Queue == INSTANCE WorkQueue WITH Items <- WorkIds, row <- status, holds <- Held

(* Claiming the earliest of the due rows, retrying at a later date and the
   failures of a worker come to a queue whose steps are atomic: an item is in the
   hands of one worker, what is completed or failed is what that worker claimed,
   and what a worker abandoned is never taken up again. *)
ImplementsWorkQueue == Queue!Spec

(* An invocation that returned is never repeated: not by a second enqueue of
   the same request, not by another worker, not when the update that should
   have recorded it was lost to a crash. *)
ReturnsOnce == \A w \in WorkIds : returned[w] <= 1

(* One bad item cannot keep the others waiting: an item is not claimed again
   while another one that was already due when it was last claimed waits. *)
FairTurns ==
    [][\A v, w \in WorkIds :
          (status[w] = "pending" /\ status'[w] = "claimed" /\ v # w /\ Due(v))
             => availableAt[v] >= lastClaim[w]]_queueVars

(* While no worker is cancelled and every update reaches the store, finitely
   many raising invocations keep nothing out: what is enqueued is completed. *)
EveryItemCompletes ==
    [](crashes = 0) =>
        \A w \in WorkIds : status[w] = "pending" ~> status[w] = "completed"

(* "every work item is durable in Mongo so a worker restart is safe"
   (operator.py): an item claimed when its worker stops is taken up again or
   was completed. *)
RestartIsSafe ==
    \A w \in WorkIds : status[w] = "claimed" ~> status[w] # "claimed"

(* What makes ReturnsOnce inductive: a row whose invocation returned is claimed
   or completed, and a worker still to run it has not returned before. *)
ReturnedStaysClaimed ==
    \A w \in WorkIds :
       /\ status[w] \in {"absent", "pending"} => returned[w] = 0
       /\ \A k \in Workers :
             worker[k].pc \in {"running", "failing"} /\ worker[k].work = w
                => returned[w] = 0

WorkerHoldsWork ==
    \A k \in Workers : worker[k].pc \in Holding => worker[k].work \in WorkIds

(* What makes FairTurns hold: a pending item is due no earlier than its last
   claim. *)
RetriesQueueUp ==
    /\ \A w \in WorkIds :
          /\ status[w] = "absent" => lastClaim[w] = 0
          /\ status[w] = "pending" => lastClaim[w] <= availableAt[w]
    /\ \A k \in Workers : worker[k].pc \in Holding =>
          worker[k].now = lastClaim[worker[k].work]

QueueIInv ==
    /\ QueueTypeOK
    /\ WorkerHoldsWork
    /\ ExclusiveClaim
    /\ ReturnsOnce
    /\ ReturnedStaysClaimed
=============================================================================
