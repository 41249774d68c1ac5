------------------------------ MODULE Gateway -------------------------------
(***************************************************************************)
(* Gateway.invoke (kernel/gateway.py) for ONE idempotency key: every await *)
(* is a step, so that calls of several workers interleave and a call may   *)
(* stop between any two writes.  The four stores it touches are the        *)
(* journal's attempt and settlement of the key, the receipt and the world  *)
(* outside (the effects).                                                  *)
(*                                                                         *)
(* The keys are built from the run id (f"{run_id}:..."), so the calls that *)
(* share a key are of one run: a trigger that the scheduler retries, the   *)
(* resumption of a parked call, two workers on two work items of the run.   *)
(* They may differ in their args: a re-run harness proposes other ones and *)
(* /commands/edit rewrites the pending call.                               *)
(***************************************************************************)
EXTENDS Naturals, Sequences

CONSTANTS
    Callers,        (* workers that may call invoke with the key            *)
    Args,           (* args of the request (syscall name included)          *)
    Results,        (* what an adapter may answer (error results included)  *)
    None,           (* no args, no result                                   *)
    Rings,          (* rings a call may come with: the instance's, or the
                       one an approval granted                              *)
    Required,       (* policy.required_ring                                 *)
    Verdicts,       (* what the channel rule may answer; "park" stands also
                       for a gateway without a registry                     *)
    MaxCalls,       (* bound: calls in one behaviour                        *)
    MaxFaults       (* bound: store errors and cancellations                *)

ASSUME GatewayAssumption ==
    /\ None \notin Args /\ None \notin Results
    /\ Rings \subseteq Nat /\ Required \in Nat
    /\ Verdicts \subseteq {"allow", "park", "deny"}
    /\ MaxCalls \in Nat /\ MaxFaults \in Nat

VARIABLES
    attempted,      (* args of the key's SyscallAttempted events, in order  *)
    settled,        (* result in the key's SyscallSettled event, or None    *)
    receipt,        (* the key's receipt document                           *)
    parks,          (* RunParked events appended                            *)
    effects,        (* history: args of the effects that landed, in order   *)
    caller,         (* [Callers -> the state of the worker's call]          *)
    calls,          (* calls begun                                          *)
    faults,         (* faults so far                                        *)
    lost            (* history: faults after execute, before the receipt    *)

journal == <<attempted, settled, parks>>
bounds == <<calls, faults, lost>>
vars == <<attempted, settled, receipt, parks, effects, caller, calls, faults, lost>>

NoReceipt == [args |-> None, result |-> None]
Receipt == [args : Args, result : Results]

Busy == {"receipt", "events", "resettle", "attempts", "log", "park", "execute",
         "saving", "replacing", "settling"}
Raised == {"conflict", "missing", "duplicate", "raised", "cancelled"}
Outcomes == {"idle", "returned", "denied", "parked"} \cup Raised

TypeOK ==
    /\ attempted \in Seq(Args)
    /\ settled \in Results \cup {None}
    /\ receipt \in Receipt \cup {NoReceipt}
    /\ parks \in Nat
    /\ effects \in Seq(Args)
    /\ caller \in [Callers -> [pc : Busy \cup Outcomes, args : Args \cup {None},
                               ring : Rings \cup {0}, verdict : Verdicts \cup {"none"},
                               seen : Receipt \cup {NoReceipt},
                               result : Results \cup {None}]]
    /\ calls \in 0 .. MaxCalls
    /\ faults \in 0 .. MaxFaults
    /\ lost \in 0 .. faults

Idle == [pc |-> "idle", args |-> None, ring |-> 0, verdict |-> "none",
         seen |-> NoReceipt, result |-> None]

Init ==
    /\ attempted = <<>>
    /\ settled = None
    /\ receipt = NoReceipt
    /\ parks = 0
    /\ effects = <<>>
    /\ caller = [c \in Callers |-> Idle]
    /\ calls = 0
    /\ faults = 0
    /\ lost = 0

-----------------------------------------------------------------------------
Goes(c, pc) == caller' = [caller EXCEPT ![c].pc = pc]

Returns(c, result) ==
    caller' = [caller EXCEPT ![c].pc = "returned", ![c].result = result]

Calling(args, ring, verdict) ==
    [Idle EXCEPT !.pc = "receipt", !.args = args, !.ring = ring,
                 !.verdict = verdict]

(* A worker calls invoke. *)
Call(c, args, ring, verdict) ==
    /\ caller[c].pc \in Outcomes
    /\ calls < MaxCalls
    /\ calls' = calls + 1
    /\ caller' = [caller EXCEPT ![c] = Calling(args, ring, verdict)]
    /\ UNCHANGED <<journal, receipt, effects, faults, lost>>

(* The same call again: the work item failed and is claimed again. *)
Retry(c) ==
    /\ caller[c].pc \in Raised \ {"cancelled"}
    /\ caller' = [caller EXCEPT ![c] =
                    Calling(caller[c].args, caller[c].ring, caller[c].verdict)]
    /\ UNCHANGED <<journal, receipt, effects, bounds>>

(* _prior_outcome: receipt = await self._receipts.get(...) *)
ReadReceipt(c) ==
    /\ caller[c].pc = "receipt"
    /\ IF receipt # NoReceipt /\ receipt.args # caller[c].args
       THEN Goes(c, "conflict")
       ELSE caller' = [caller EXCEPT ![c].pc = "events", ![c].seen = receipt]
    /\ UNCHANGED <<journal, receipt, effects, bounds>>

(* Mutant: the receipt of a call whose settlement was not journaled is not
   replayed. *)
BugIgnoreUnsettledReceipt(c) ==
    /\ caller[c].pc = "events"
    /\ IF settled # None THEN Returns(c, caller[c].seen.result)
       ELSE Goes(c, "attempts")
    /\ UNCHANGED <<journal, receipt, effects, bounds>>

(* Mutant: nor can a retry get past it. *)
BugUnsettledIsMissing(c) ==
    /\ caller[c].pc = "events"
    /\ CASE settled = None /\ caller[c].seen = NoReceipt -> Goes(c, "attempts")
         [] settled # None /\ caller[c].seen # NoReceipt ->
               Returns(c, caller[c].seen.result)
         [] OTHER -> Goes(c, "missing")
    /\ UNCHANGED <<journal, receipt, effects, bounds>>

(* _prior_outcome: events = await self._journal.read_instance(...) *)
ReadEvents(c) ==
    /\ caller[c].pc = "events"
    /\ CASE settled # None /\ caller[c].seen = NoReceipt -> Goes(c, "missing")
         [] settled # None /\ caller[c].seen # NoReceipt ->
               Returns(c, caller[c].seen.result)
         [] settled = None /\ caller[c].seen # NoReceipt -> Goes(c, "resettle")
         [] settled = None /\ caller[c].seen = NoReceipt -> Goes(c, "attempts")
    /\ UNCHANGED <<journal, receipt, effects, bounds>>

(* journal.append(SyscallSettled): the key is unique in the journal, and
   nobody catches DuplicateIdempotencyKey. *)
AppendSettled(c, result) ==
    /\ IF settled # None
       THEN Goes(c, "duplicate") /\ UNCHANGED settled
       ELSE Returns(c, result) /\ settled' = result
    /\ UNCHANGED <<attempted, receipt, parks, effects, bounds>>

(* _prior_outcome: a receipt without a settled event is settled now. *)
Resettle(c) ==
    /\ caller[c].pc = "resettle"
    /\ AppendSettled(c, caller[c].seen.result)

(* The ring policy, the channel rule and the registry: no await among them. *)
Disposition(c) ==
    IF caller[c].ring < Required \/ caller[c].verdict = "park" THEN "park"
    ELSE IF caller[c].verdict = "deny" THEN "denied"
    ELSE "execute"

(* Mutant: the journaled attempt is found by its event id alone. *)
BugAnyAttemptWillDo(c) ==
    /\ caller[c].pc = "attempts"
    /\ Goes(c, IF attempted = <<>> THEN "log" ELSE Disposition(c))
    /\ UNCHANGED <<journal, receipt, effects, bounds>>

(* _ensure_attempt: the latest SyscallAttempted of the key. *)
ReadAttempts(c) ==
    /\ caller[c].pc = "attempts"
    /\ Goes(c, IF attempted = <<>> THEN "log"
               ELSE IF attempted[Len(attempted)] # caller[c].args THEN "conflict"
               ELSE Disposition(c))
    /\ UNCHANGED <<journal, receipt, effects, bounds>>

(* Mutant: the attempt is only journaled for calls that park. *)
BugLogOnlyParks(c) ==
    /\ caller[c].pc = "log"
    /\ attempted' = IF Disposition(c) = "park" THEN Append(attempted, caller[c].args)
                    ELSE attempted
    /\ Goes(c, Disposition(c))
    /\ UNCHANGED <<settled, receipt, parks, effects, bounds>>

(* _ensure_attempt: journal.append(SyscallAttempted); the event carries no
   idempotency key, so nothing rejects a second one. *)
LogAttempt(c) ==
    /\ caller[c].pc = "log"
    /\ attempted' = Append(attempted, caller[c].args)
    /\ Goes(c, Disposition(c))
    /\ UNCHANGED <<settled, receipt, parks, effects, bounds>>

(* _park *)
Park(c) ==
    /\ caller[c].pc = "park"
    /\ parks' = parks + 1
    /\ Goes(c, "parked")
    /\ UNCHANGED <<attempted, settled, receipt, effects, bounds>>

(* vault.get and adapter.execute.  An Exception becomes an error result,
   whether it was raised before or after the effect landed. *)
Execute(c) ==
    /\ caller[c].pc = "execute"
    /\ \E result \in Results :
          caller' = [caller EXCEPT ![c].pc = "saving", ![c].result = result]
    /\ effects' \in {effects, Append(effects, caller[c].args)}
    /\ UNCHANGED <<journal, receipt, bounds>>

(* Mutant: the receipt keeps less of the result than the journal. *)
BugTrimmedReceipt(c) ==
    [args |-> caller[c].args, result |-> CHOOSE r \in Results : TRUE]

(* SyscallReceipt.from_execution *)
Executed(c) == [args |-> caller[c].args, result |-> caller[c].result]

(* Mutant: the settlement is journaled and the receipt not saved. *)
BugSkipReceipt(c) ==
    /\ caller[c].pc = "saving"
    /\ Goes(c, "settling")
    /\ UNCHANGED <<journal, receipt, effects, bounds>>

(* receipts.save: prior = await self.get(...) *)
ReadPriorReceipt(c) ==
    /\ caller[c].pc = "saving"
    /\ Goes(c, IF receipt # NoReceipt /\ receipt # Executed(c) THEN "conflict"
               ELSE "replacing")
    /\ UNCHANGED <<journal, receipt, effects, bounds>>

(* receipts.save: replace_one(upsert=True) *)
ReplaceReceipt(c) ==
    /\ caller[c].pc = "replacing"
    /\ receipt' = Executed(c)
    /\ Goes(c, "settling")
    /\ UNCHANGED <<journal, effects, bounds>>

(* journal.append(SyscallSettled) for the result just executed. *)
Settle(c) ==
    /\ caller[c].pc = "settling"
    /\ AppendSettled(c, caller[c].result)

(* A store raises, or the coroutine is cancelled, at an await.  A write whose
   reply is lost is this fault at the next await; after the last one it is a
   call that returned to nobody. *)
Fault(c) ==
    /\ faults < MaxFaults
    /\ caller[c].pc \in Busy
    /\ faults' = faults + 1
    /\ lost' = IF caller[c].pc \in {"saving", "replacing"} THEN lost + 1 ELSE lost
    /\ \E pc \in {"raised", "cancelled"} : Goes(c, pc)
    /\ UNCHANGED <<journal, receipt, effects, calls>>

Step(c) ==
    \/ ReadReceipt(c)
    \/ ReadEvents(c)
    \/ Resettle(c)
    \/ ReadAttempts(c)
    \/ LogAttempt(c)
    \/ Park(c)
    \/ Execute(c)
    \/ ReadPriorReceipt(c)
    \/ ReplaceReceipt(c)
    \/ Settle(c)

Next == \E c \in Callers :
    \/ \E args \in Args, ring \in Rings, verdict \in Verdicts :
          Call(c, args, ring, verdict)
    \/ Retry(c)
    \/ Step(c)
    \/ Fault(c)

Spec == Init /\ [][Next]_vars

(* The event loop runs what can run and a store answers; the scheduler claims
   a failed item again (Scheduler!Fail), but not one that was cancelled. *)
Fairness == \A c \in Callers : WF_vars(Step(c)) /\ WF_vars(Retry(c))
FairSpec == Spec /\ Fairness

-----------------------------------------------------------------------------
(* Properties *)

(* A settled syscall can be replayed (MissingSyscallReceipt is for legacy
   journals only): with any number of workers and faults, no settlement is
   journaled before the receipt it is replayed from exists. *)
SettledHasReceipt == settled # None => receipt # NoReceipt

(* Write-ahead: whatever landed outside was journaled first, with these args,
   so the audit trail names every effect even if the call died right after. *)
EffectsWereJournaled ==
    \A n \in DOMAIN effects : \E m \in DOMAIN attempted : attempted[m] = effects[n]

(* The rest holds while one worker at a time works on the run. *)

(* "an idempotency key belongs to one request": the first args journaled for
   the key are the only ones that ever take effect, are receipted or settled. *)
OneRequestPerKey ==
    /\ \A n \in DOMAIN effects : effects[n] = Head(attempted)
    /\ receipt # NoReceipt => receipt.args = Head(attempted)

(* "faithful idempotency replay" (receipts.py): whoever gets an answer for the
   key gets the journaled one, the first time, on every retry, and whichever
   step a crash separated from the next. *)
ReplayIsFaithful ==
    /\ settled # None => settled = receipt.result
    /\ \A c \in Callers : caller[c].pc = "returned" => caller[c].result = settled

(* An effect is repeated only if a fault hit the window between the execution
   and the saved receipt: a fault anywhere else costs nothing. *)
RepeatsArePaidFor == Len(effects) <= 1 + lost

(* "the gateway uses this to guarantee an effect happens at most once"
   (contracts/syscall.py). *)
EffectAtMostOnce == Len(effects) <= 1

(* "the gateway catches this on a retry and returns the prior result"
   (DuplicateIdempotencyKey in errors.py): no caller sees the exception. *)
DuplicateIsCaught == \A c \in Callers : caller[c].pc # "duplicate"

(* A call that failed and is retried with the same request comes to an answer,
   unless its worker is stopped or its request is not the one the key belongs
   to: no fault, wherever it falls, leaves the key in a state every retry trips
   over. *)
IsAnswered(c) ==
    \/ caller[c].pc \in {"returned", "parked", "denied", "cancelled"}
    \/ caller[c].pc = "conflict" /\ caller[c].args # Head(attempted)

RetryIsAnswered == \A c \in Callers : caller[c].pc \in Raised ~> IsAnswered(c)

(* What makes the properties of any number of workers inductive: what a call
   carries at each await, and that its attempt precedes it and its receipt its
   settlement. *)
CallCarries(c) ==
    /\ caller[c].pc # "idle" => caller[c].args \in Args
    /\ caller[c].pc \in {"saving", "replacing", "settling"} =>
          caller[c].result \in Results
    /\ caller[c].pc = "resettle" => caller[c].seen # NoReceipt
    /\ caller[c].pc \in {"events", "resettle"} /\ caller[c].seen # NoReceipt =>
          receipt # NoReceipt
    /\ caller[c].pc = "settling" => receipt # NoReceipt
    /\ caller[c].pc \in {"execute", "saving", "replacing"} =>
          \E m \in DOMAIN attempted : attempted[m] = caller[c].args

IInv ==
    /\ TypeOK
    /\ SettledHasReceipt
    /\ EffectsWereJournaled
    /\ \A c \in Callers : CallCarries(c)

(* What makes the properties of a single worker inductive: its call knows the
   key's state, and until there is a receipt every effect was paid for. *)
CallKnows(c) ==
    /\ caller[c].pc \in {"events", "resettle"} => caller[c].seen = receipt
    /\ caller[c].pc \in {"attempts", "log", "park", "execute", "saving", "replacing"} =>
          receipt = NoReceipt
    /\ caller[c].pc = "log" => attempted = <<>>
    /\ caller[c].pc \in {"park", "execute", "saving", "replacing"} =>
          attempted = <<caller[c].args>>
    /\ caller[c].pc \in {"resettle", "settling"} => settled = None
    /\ caller[c].pc = "settling" => receipt = Executed(c)
    /\ caller[c].pc = "returned" => caller[c].result = settled /\ settled # None
    /\ receipt = NoReceipt /\ caller[c].pc \notin {"saving", "replacing"} =>
          Len(effects) <= lost

OneWorkerInv ==
    /\ IInv
    /\ OneRequestPerKey
    /\ settled # None => settled = receipt.result
    /\ RepeatsArePaidFor
    /\ Len(attempted) <= 1
    /\ effects # <<>> \/ receipt # NoReceipt => attempted # <<>>
    /\ \A c \in Callers : CallKnows(c)
=============================================================================
