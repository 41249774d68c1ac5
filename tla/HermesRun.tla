------------------------------ MODULE HermesRun ------------------------------
(***************************************************************************)
(* One live run driven by a model (packages/kernel: hermes_runner, hermes   *)
(* and the loop of run_loop).  The session keeps the conversation: every    *)
(* turn posts the whole history to the model, takes the first tool call of  *)
(* its answer as the step's action and must see to it that every tool call  *)
(* in the history has been answered before the next post, for the model's   *)
(* API refuses a history that has one open.  A real syscall is answered by   *)
(* its result, which may arrive after the run was parked, saved, and resumed *)
(* from the continuation in another process.                                *)
(*                                                                         *)
(* The work item that drives the run is claimed again when the worker or a  *)
(* store raises; the run is then invoked, or resumed, from the start of the  *)
(* item, and the model is asked again for turns it has already answered.    *)
(***************************************************************************)
EXTENDS Integers, Sequences, FiniteSets, SequencesExt

CONSTANTS
    Args,           (* the arguments the model may give a syscall            *)
    MaxSteps,       (* RunLoop.max_steps                                     *)
    MaxTurns,       (* bound: answers of the model                           *)
    MaxFaults       (* bound: stores that raise and workers that stop        *)

ASSUME HermesAssumption ==
    Args # {} /\ {MaxSteps, MaxTurns} \subseteq Nat \ {0} /\ MaxFaults \in Nat

VARIABLES
    session,        (* HermesSession                                         *)
    pc,             (* where the loop is                                     *)
    step,           (* the action, its observation and the counts of a drive *)
    claims,         (* the run's claimed facts, by the turn that claimed them *)
    saved,          (* the RunContinuation of the run                        *)
    attempts,       (* the gateway's journal: requests by key                *)
    turns,          (* answers of the model so far                           *)
    conflicted,     (* history: a call raised IdempotencyRequestConflict     *)
    faults

vars == <<session, pc, step, claims, saved, attempts, turns, conflicted, faults>>

(* An id names a tool call by its turn and place; a call may come without. *)
NoId == <<0, 0>>
Ids == {NoId} \cup ((1 .. MaxTurns) \X (1 .. 2))
Assistant(ids) == [role |-> "assistant", ids |-> ids]
Tool(id) == [role |-> "tool", ids |-> <<id>>]
Prompt == <<[role |-> "system", ids |-> <<>>], [role |-> "user", ids |-> <<>>]>>
Messages == [role : {"system", "user", "assistant", "tool"},
             ids : {<<>>} \cup {<<i>> : i \in Ids} \cup {<<i, j>> : i, j \in Ids}]

Keys == {"read", "effect"} \X (1 .. MaxTurns)
Requests == [key : Keys, args : Args]
NoRequest == [key |-> <<"read", 1>>, args |-> CHOOSE a \in Args : TRUE]
Think == [kind |-> "think", request |-> NoRequest]
Actions == [kind : {"think", "claim", "finish", "call"}, request : Requests]

Sessions == [history : Seq(Messages), started : BOOLEAN, pending : Ids \cup {<<-1, -1>>},
             index : Nat, cursor : Nat]
NoPending == <<-1, -1>>
NewSession == [history |-> <<>>, started |-> FALSE, pending |-> NoPending, index |-> 0, cursor |-> 0]

Continuations == [exists : BOOLEAN, session : Sessions, claims : Seq(1 .. MaxTurns), request : Requests]
NoContinuation == [exists |-> FALSE, session |-> NewSession, claims |-> <<>>, request |-> NoRequest]

Steps == [action : Actions, observed : BOOLEAN, count : 0 .. MaxSteps, posts : 0 .. 1,
          approved : BOOLEAN]

Working == {"step", "post", "dispose", "save", "verify"}
Ended == {"settled", "crashed"}

TypeOK ==
    /\ session \in Sessions
    /\ pc \in Working \cup Ended \cup {"parked", "pending"}
    /\ step \in Steps
    /\ claims \in Seq(1 .. MaxTurns)
    /\ saved \in Continuations
    /\ attempts \subseteq Requests
    /\ turns \in 0 .. MaxTurns /\ conflicted \in BOOLEAN /\ faults \in 0 .. MaxFaults

NoStep == [action |-> Think, observed |-> FALSE, count |-> 0, posts |-> 0, approved |-> FALSE]

(* RunLoop.invoke has hydrated the run and started the session. *)
Init ==
    /\ session = NewSession
    /\ pc = "step" /\ step = NoStep
    /\ claims = <<>> /\ saved = NoContinuation /\ attempts = {}
    /\ turns = 0 /\ conflicted = FALSE /\ faults = 0

-----------------------------------------------------------------------------
(* HermesSession.step *)

(* What the history lacks: ids of tool calls that no tool message answers. *)
Asked(h) == (UNION {Range(h[n].ids) : n \in {m \in DOMAIN h : h[m].role = "assistant"}}) \ {NoId}
Answers(h, id) == Cardinality({n \in DOMAIN h : h[n].role = "tool" /\ h[n].ids = <<id>>})
Open(h) == {id \in Asked(h) : Answers(h, id) = 0}

(* Mutant: an observation that comes after a resume is not put in the history. *)
BugForgetObservation(s, observed) ==
    IF ~s.started THEN [s EXCEPT !.history = Prompt, !.started = TRUE] ELSE s

(* The pending call's result, then the prompt when this is the first turn. *)
Heard(s, observed) ==
    LET answered == IF observed /\ s.pending # NoPending
                    THEN [s EXCEPT !.history = Append(@, Tool(s.pending)), !.pending = NoPending]
                    ELSE s
    IN  IF ~answered.started
        THEN [answered EXCEPT !.history = Prompt, !.started = TRUE] ELSE answered

BeginStep ==
    /\ pc = "step"
    /\ step.count < MaxSteps
    /\ session' = Heard(session, step.observed)
    /\ step' = [step EXCEPT !.count = @ + 1, !.observed = FALSE, !.posts = 0]
    /\ pc' = "post"
    /\ UNCHANGED <<claims, saved, attempts, turns, conflicted, faults>>

(* Every tool call after the first that has an id is told it was ignored; an    *)
(* answer here has one such call at most.                                   *)
AckExtras(ids) == IF Len(ids) > 1 /\ ids[2] # NoId THEN <<Tool(ids[2])>> ELSE <<>>

(* Mutant: a session keeps no count of its calls across a park. *)
BugKeyByTurn(s, name) == <<name, 1>>

(* f"{run_id}:{syscall}:{call_index}" *)
NextKey(s, name) == <<name, s.index + 1>>

(* _to_action on the first tool call: a control tool, a syscall, or a name
   that is neither, which is a thought. *)
ToAction(s, name, args) ==
    CASE name \in {"claim", "finish"} -> [Think EXCEPT !.kind = name]
      [] name \in {"read", "effect"} ->
            [kind |-> "call", request |-> [key |-> NextKey(s, name), args |-> args]]
      [] OTHER -> Think

(* The session after an answer with these tool calls, the first one acted on. *)
Taken(s, ids, action) ==
    LET said == Append(s.history, Assistant(ids)) \o AckExtras(ids)
    IN  IF action.kind = "call"
        THEN [s EXCEPT !.history = said, !.pending = Head(ids), !.index = @ + 1, !.cursor = @ + 1]
        ELSE [s EXCEPT !.history = Append(said, Tool(Head(ids))), !.cursor = @ + 1]

(* The model answers with no tool call, or with one or two of them. *)
Reply(name, args, calls) ==
    /\ pc = "post"
    /\ turns < MaxTurns
    /\ Open(session.history) = {}
    /\ turns' = turns + 1
    /\ pc' = "dispose"
    /\ IF calls = 0
       THEN /\ session' = [session EXCEPT !.history = Append(@, Assistant(<<>>)), !.cursor = @ + 1]
            /\ step' = [step EXCEPT !.action = Think]
       ELSE LET action == ToAction(session, name, args)
            IN  /\ \E second \in {<<turns + 1, 2>>, NoId} :
                      session' = Taken(session, IF calls = 1 THEN <<<<turns + 1, 1>>>>
                                                ELSE <<<<turns + 1, 1>>, second>>, action)
                /\ step' = [step EXCEPT !.action = action]
    /\ UNCHANGED <<claims, saved, attempts, conflicted, faults>>

(* HermesClient.complete_chat: the first timeout is retried once with the same
   body; a second one, or any refusal, raises, and the run is crashed. *)
PostTimesOut ==
    /\ pc = "post"
    /\ step.posts = 0
    /\ step' = [step EXCEPT !.posts = 1]
    /\ UNCHANGED <<session, pc, claims, saved, attempts, turns, conflicted, faults>>

PostRaises ==
    /\ pc = "post"
    /\ pc' = "crashed"
    /\ UNCHANGED <<session, step, claims, saved, attempts, turns, conflicted, faults>>

TooManySteps ==
    /\ pc = "step"
    /\ step.count = MaxSteps
    /\ pc' = "crashed"
    /\ UNCHANGED <<session, step, claims, saved, attempts, turns, conflicted, faults>>

-----------------------------------------------------------------------------
(* RunLoop._drive and _dispose *)

Note ==
    /\ pc = "dispose"
    /\ step.action.kind = "think"
    /\ pc' = "step"
    /\ UNCHANGED <<session, step, claims, saved, attempts, turns, conflicted, faults>>

ClaimFacts ==
    /\ pc = "dispose"
    /\ step.action.kind = "claim"
    /\ claims' = Append(claims, turns)
    /\ step' = [step EXCEPT !.action = Think]
    /\ pc' = "step"
    /\ UNCHANGED <<session, saved, attempts, turns, conflicted, faults>>

FinishRun ==
    /\ pc = "dispose"
    /\ step.action.kind = "finish"
    /\ pc' = "verify"
    /\ UNCHANGED <<session, step, claims, saved, attempts, turns, conflicted, faults>>

Clashes(request) == \E a \in attempts : a.key = request.key /\ a # request

(* The gateway answers a read, or an effect that was approved, with a result;
   it may be an error result, which is an observation like any other. *)
Fulfil ==
    LET request == step.action.request
    IN  /\ pc = "dispose"
        /\ step.action.kind = "call"
        /\ request.key[1] = "read" \/ step.approved
        /\ ~Clashes(request)
        /\ attempts' = attempts \cup {request}
        /\ step' = [step EXCEPT !.action = Think, !.observed = TRUE, !.approved = FALSE]
        /\ pc' = "step"
        /\ UNCHANGED <<session, claims, saved, turns, conflicted, faults>>

(* The ring does not allow the effect: RunParked is journaled. *)
Park ==
    LET request == step.action.request
    IN  /\ pc = "dispose"
        /\ step.action.kind = "call"
        /\ request.key[1] = "effect" /\ ~step.approved
        /\ ~Clashes(request)
        /\ attempts' = attempts \cup {request}
        /\ pc' = "save"
        /\ UNCHANGED <<session, step, claims, saved, turns, conflicted, faults>>

(* The coroutine is gone, and what it held with it. *)
Abandon == pc' = "pending" /\ session' = NewSession /\ claims' = <<>> /\ step' = NoStep

(* The key was attempted with another request: the invocation raises. *)
Clash ==
    /\ pc = "dispose"
    /\ step.action.kind = "call"
    /\ Clashes(step.action.request)
    /\ conflicted' = TRUE
    /\ Abandon
    /\ UNCHANGED <<saved, attempts, turns, faults>>

(* _save_continuation: session.export_state(), the claims and the call. *)
SaveContinuation ==
    /\ pc = "save"
    /\ saved' = [exists |-> TRUE, session |-> session, claims |-> claims,
                 request |-> step.action.request]
    /\ pc' = "parked"
    /\ UNCHANGED <<session, step, claims, attempts, turns, conflicted, faults>>

(* _verify_and_settle passes or fails, and the continuation goes. *)
Verify ==
    /\ pc = "verify"
    /\ \/ pc' = "crashed" /\ UNCHANGED saved
       \/ pc' = "settled" /\ saved' = NoContinuation
    /\ UNCHANGED <<session, step, claims, attempts, turns, conflicted, faults>>

-----------------------------------------------------------------------------
(* The work item *)

Resumed ==
    /\ session' = saved.session
    /\ claims' = saved.claims
    /\ step' = [NoStep EXCEPT !.action = [kind |-> "call", request |-> saved.request],
                  !.approved = TRUE]
    /\ pc' = "dispose"

(* RunLoop.resume after an approval, in whatever process: a new session has the
   saved state restored into it and the parked call is disposed of first. *)
Resume ==
    /\ pc = "parked"
    /\ Resumed
    /\ UNCHANGED <<saved, attempts, turns, conflicted, faults>>

(* The item is claimed again: a trigger is invoked from an empty session, an
   approval resumes from the continuation. *)
Reclaim ==
    /\ pc = "pending"
    /\ IF saved.exists THEN Resumed
       ELSE pc' = "step" /\ UNCHANGED <<session, claims, step>>
    /\ UNCHANGED <<saved, attempts, turns, conflicted, faults>>

(* A store raises at some await of the loop, or the worker is stopped. *)
Fault ==
    /\ pc \in Working
    /\ faults < MaxFaults
    /\ faults' = faults + 1
    /\ Abandon
    /\ UNCHANGED <<saved, attempts, turns, conflicted>>

Turn == \E name \in {"think", "claim", "finish", "read", "effect"}, a \in Args, n \in 0 .. 2 :
            Reply(name, a, n)
Drive == \/ BeginStep \/ Turn \/ PostTimesOut \/ PostRaises \/ TooManySteps
         \/ Note \/ ClaimFacts \/ FinishRun \/ Fulfil \/ Park \/ Clash
         \/ SaveContinuation \/ Verify

Next == Drive \/ Resume \/ Reclaim \/ Fault

Spec == Init /\ [][Next]_vars

-----------------------------------------------------------------------------
(* Properties *)

(* Whenever the history is posted, every tool call in it has exactly one
   answer, whatever was ignored, acknowledged, parked or resumed: the model's
   API never refuses it. *)
PostedHistoryIsAnswered ==
    pc = "post" => \A id \in Asked(session.history) : Answers(session.history, id) = 1

(* The claims of the run are the claims its history made, in order, and a park
   loses none: what is verified is what the model said, not what it said since
   the last approval. *)
ClaimsSurviveParks ==
    /\ \A m, n \in DOMAIN claims : m < n => claims[m] < claims[n]
    /\ saved.exists /\ pc \notin {"save", "pending"} => IsPrefix(saved.claims, claims)
    /\ pc = "parked" => saved.claims = claims

(* A key stands for one request: the gateway refuses one only after a fault
   made the loop ask the model again for turns it had answered. *)
KeysAreFresh == conflicted => faults > 0

-----------------------------------------------------------------------------
(* The strengthening of KeysAreFresh, of a drive without a fault: no key asked
   for is ahead of the session's count, and only the call in hand, or the one a
   continuation has in hand, is level with it. *)

Current(s, request) ==
    /\ request.key[2] = s.index
    /\ \A a \in attempts : a.key[2] = s.index => a = request

InHand == pc = "save" \/ (pc = "dispose" /\ step.action.kind = "call")

Counted ==
    /\ session.index \in Nat
    /\ \A a \in attempts : a.key[2] \in Nat /\ a.key[2] <= session.index
    /\ InHand => Current(session, step.action.request)
    /\ pc = "parked" =>
          saved.session = session /\ Current(session, saved.request)

Shaped ==
    /\ session = [history |-> session.history, started |-> session.started,
                  pending |-> session.pending, index |-> session.index,
                  cursor |-> session.cursor]
    /\ step = [action |-> step.action, observed |-> step.observed, count |-> step.count,
               posts |-> step.posts, approved |-> step.approved]

FreshInv ==
    /\ faults \in Nat
    /\ faults = 0 => pc # "pending" /\ ~conflicted /\ Shaped /\ Counted

(* The strengthening of PostedHistoryIsAnswered: the calls of a history come      *)
(* from the turns so far, each is answered once or is the pending one, and        *)
(* nothing is pending when the next turn is due.                                *)
Said(t) == (1 .. t) \X (1 .. 2)

Answered(h, open, t) ==
    /\ \A n \in DOMAIN h : Range(h[n].ids) \subseteq {NoId} \cup Said(t)
    /\ \A id \in Asked(h) : Answers(h, id) = IF id \in open THEN 0 ELSE 1

Tidy(s, t) ==
    /\ s.pending \in {NoPending} \cup Said(t)
    /\ ~s.started => s.pending = NoPending
    /\ s.index <= t
    /\ Answered(s.history, {s.pending}, t)

NothingOpen ==
    /\ pc = "post" => session.started /\ session.pending = NoPending
    /\ pc = "step" /\ ~step.observed => session.pending = NoPending
    /\ pc = "dispose" /\ step.action.kind # "call" => session.pending = NoPending
    /\ pc = "pending" => session = NewSession /\ step = NoStep

HistoryInv ==
    /\ TypeOK
    /\ step.action.kind = "claim" => turns >= 1
    /\ Tidy(session, turns) /\ Tidy(saved.session, turns)
    /\ NothingOpen

(* The strengthening of ClaimsSurviveParks: claims are of turns so far, and the     *)
(* one about to be made is of a later turn than any other.                      *)
Increasing(s) == \A m, n \in DOMAIN s : m < n => s[m] < s[n]
ClaimsInv ==
    /\ Increasing(claims) /\ Increasing(saved.claims)
    /\ \A n \in DOMAIN claims : claims[n] <= turns
    /\ \A n \in DOMAIN saved.claims : saved.claims[n] <= turns
    /\ pc = "dispose" /\ step.action.kind = "claim" => \A n \in DOMAIN claims : claims[n] < turns
    /\ saved.exists /\ pc # "pending" => IsPrefix(saved.claims, claims)
    /\ pc = "parked" => saved.claims = claims
=============================================================================
