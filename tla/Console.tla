------------------------------- MODULE Console -------------------------------
(***************************************************************************)
(* The read side of the operator API: the run list and the page of a run     *)
(* (api: state.py) and the live stream of the journal (GET /events, app.py).  *)
(*                                                                         *)
(* The journal orders the events of an instance by seq.  A reader of all      *)
(* instances orders them by their stamp, and a stamp is not the time of the   *)
(* append: whatever an invocation appends carries the time of its trigger,    *)
(* whatever a resumption appends the time of its approval, both as old as     *)
(* the work item; only a manager's events are stamped with the time they are  *)
(* written at.  So a new event may come anywhere in a reader's list, also      *)
(* before what it has shown and beyond the limit it cuts the list at.          *)
(***************************************************************************)
EXTENDS Integers, Sequences, FiniteSets, FiniteSetsExt

CONSTANTS
    InstanceIds,    (* the ids of the instances break ties between stamps    *)
    Runs, InstanceOf,
    Managers,
    RecentLimit,    (* 50: events a new connection is sent                   *)
    PollLimit,      (* 1000: events a poll looks at                          *)
    ListLimit,      (* 1000: events the run list is made of                  *)
    MaxTime,        (* bound: the clock                                      *)
    MaxEvents,      (* bound: events                                         *)
    MaxFaults       (* bound: invocations that raise, connections that drop   *)

ASSUME ConsoleAssumption ==
    /\ InstanceIds \subseteq Nat /\ InstanceIds # {} /\ IsFiniteSet(InstanceIds)
    /\ Runs # {} /\ InstanceOf \in [Runs -> InstanceIds]
    /\ RecentLimit \in Nat \ {0} /\ PollLimit \in Nat /\ PollLimit >= RecentLimit
    /\ {ListLimit, MaxTime, MaxEvents, MaxFaults} \subseteq Nat

VARIABLES
    journal,        (* [InstanceIds -> the events of the instance, by seq]   *)
    now,
    items,          (* work items: of a trigger or an approval, with stamp    *)
    worker,         (* the item the worker has, and what it awaits           *)
    saved,          (* runs with a continuation                              *)
    deciding,       (* [Managers -> an approve or reject request]            *)
    stream,         (* the generator behind GET /events, and its browser      *)
    shown,          (* history: the events sent to the browser               *)
    faults

system == <<journal, now, items, worker, saved, deciding>>
consoleVars == <<system, stream, shown, faults>>

Kinds == {"created", "parked", "settled", "action", "approve", "reject"}
Record == [run : Runs, kind : Kinds, ts : 0 .. MaxTime]
Item == [run : Runs, of : {"trigger", "approval"}, ts : 0 .. MaxTime]
Request == [pc : {"idle", "resolve", "done"}, run : Runs,
            decision : {"approve", "reject"}, ts : 0 .. MaxTime]
NoItem == [run |-> CHOOSE r \in Runs : TRUE, of |-> "none", ts |-> 0]
NoRequest == [pc |-> "idle", run |-> NoItem.run, decision |-> "approve", ts |-> 0]
Nothing == [i \in InstanceIds |-> 0]

SystemTypeOK ==
    /\ journal \in [InstanceIds -> Seq(Record)]
    /\ now \in 0 .. MaxTime /\ items \subseteq Item /\ saved \subseteq Runs
    /\ worker \in [item : Item \cup {NoItem}, pc : {"idle", "run", "save", "settle"}]
    /\ deciding \in [Managers -> Request]
ConsoleTypeOK ==
    /\ SystemTypeOK
    /\ stream \in [pc : {"closed", "recent", "poll"}, left : SUBSET InstanceIds,
                   copy : [InstanceIds -> Nat], last : [InstanceIds -> Nat]]
    /\ shown \subseteq InstanceIds \X Nat /\ faults \in 0 .. MaxFaults

ConsoleInit ==
    /\ journal = [i \in InstanceIds |-> <<>>]
    /\ now = 0 /\ items = {} /\ saved = {}
    /\ worker = [item |-> NoItem, pc |-> "idle"]
    /\ deciding = [m \in Managers |-> NoRequest]
    /\ stream = [pc |-> "closed", left |-> {}, copy |-> Nothing, last |-> Nothing]
    /\ shown = {} /\ faults = 0

----------------------------------------------------------------------------
(* Reading.  An event is named by its instance and seq.                     *)

Event(e) == journal[e[1]][e[2]]
Prefix(lengths) == UNION {{i} \X (1 .. lengths[i]) : i \in InstanceIds}
Heads == [i \in InstanceIds |-> Len(journal[i])]
EventsOf(r) == {e \in Prefix(Heads) : Event(e).run = r}

(* The sort key of journal_events: stamp, instance, seq. *)
Before(e, f) ==
    LET s == Event(e).ts
        t == Event(f).ts
    IN \/ s < t
       \/ s = t /\ e[1] < f[1]
       \/ s = t /\ e[1] = f[1] /\ e[2] < f[2]

(* events[-limit:] of what was read. *)
Later(e, events) == {f \in events : Before(e, f)}
Newest(limit, events) == {e \in events : Cardinality(Later(e, events)) < limit}

(* The state of a run as _summarize_run folds it: that of the last event that  *)
(* names one.  A rejection reads "approved_pending_resume" like an approval.   *)
StateAfter(event) ==
    CASE event.kind = "created" -> "running"
      [] event.kind = "parked" -> "parked"
      [] event.kind = "settled" -> "settled"
      [] OTHER -> "approved_pending_resume"
Telling(events) == {e \in events : Event(e).kind # "action"}

(* GET /runs folds them in the order of the stamps... *)
Listed(r) == EventsOf(r) \cap Newest(ListLimit, Prefix(Heads))
ListState(r) ==
    StateAfter(Event(CHOOSE e \in Telling(Listed(r)) : Later(e, Telling(Listed(r))) = {}))

(* ...and GET /runs/{run_id} in the order of the journal. *)
PageState(r) ==
    StateAfter(Event(CHOOSE e \in Telling(EventsOf(r)) : \A f \in Telling(EventsOf(r)) : f[2] <= e[2]))

(* approval_inbox: parked, and nothing resolved. *)
Has(r, kind) == \E e \in EventsOf(r) : Event(e).kind = kind
InInbox(r) == Has(r, "parked") /\ ~Has(r, "approve") /\ ~Has(r, "reject")

----------------------------------------------------------------------------
(* Writing *)

Put(r, kinds, ts) ==
    /\ Cardinality(Prefix(Heads)) + Len(kinds) <= MaxEvents
    /\ journal' = [journal EXCEPT ![InstanceOf[r]] =
                     @ \o [n \in DOMAIN kinds |-> [run |-> r, kind |-> kinds[n], ts |-> ts]]]
Reading == UNCHANGED <<stream, shown>>
Quietly == Reading /\ UNCHANGED faults

Tick ==
    /\ now < MaxTime /\ now' = now + 1
    /\ UNCHANGED <<journal, items, worker, saved, deciding>> /\ Quietly

(* A trigger gets its stamp when it is enqueued. *)
TriggerRun(r) ==
    /\ EventsOf(r) = {} /\ \A item \in items : item.run # r
    /\ items' = items \cup {[run |-> r, of |-> "trigger", ts |-> now]}
    /\ UNCHANGED <<journal, now, worker, saved, deciding>> /\ Quietly

(* The worker takes an item.  Whatever the invocation appends has one stamp. *)
Take(item) ==
    /\ worker.pc = "idle" /\ items' = items \ {item}
    /\ worker' = [item |-> item, pc |-> "run"]
WorkerGoto(pc) == worker' = [worker EXCEPT !.pc = pc]
WorkerReturns == worker' = [item |-> NoItem, pc |-> "idle"]

(* A slip: the decision's events are stamped with the time of the trigger. *)
BugTriggerStamp(item) ==
    Event(CHOOSE e \in EventsOf(item.run) : Event(e).kind = "created").ts
Stamp(item) == item.ts

(* invoke appends RunCreated... *)
Invoke ==
    /\ \E item \in items :
          item.of = "trigger" /\ Take(item) /\ Put(item.run, <<"created">>, item.ts)
    /\ UNCHANGED <<now, saved, deciding>> /\ Quietly

(* ...resume needs a continuation and no settlement. *)
Resume ==
    /\ \E item \in items :
          /\ item.of = "approval" /\ Take(item)
          /\ item.run \in saved /\ ~Has(item.run, "settled")
    /\ UNCHANGED <<journal, now, saved, deciding>> /\ Quietly

(* A call parks: RunParked, then the continuation. *)
Park ==
    /\ worker.pc = "run"
    /\ Put(worker.item.run, <<"parked">>, Stamp(worker.item)) /\ WorkerGoto("save")
    /\ UNCHANGED <<now, items, saved, deciding>> /\ Quietly

SaveContinuation ==
    /\ worker.pc = "save" /\ saved' = saved \cup {worker.item.run} /\ WorkerReturns
    /\ UNCHANGED <<journal, now, items, deciding>> /\ Quietly

(* RunSettled, then the projections and the continuation's end. *)
Settle ==
    /\ worker.pc = "run"
    /\ Put(worker.item.run, <<"settled">>, Stamp(worker.item)) /\ WorkerGoto("settle")
    /\ UNCHANGED <<now, items, saved, deciding>> /\ Quietly

Project ==
    /\ worker.pc = "settle" /\ saved' = saved \ {worker.item.run} /\ WorkerReturns
    /\ UNCHANGED <<journal, now, items, deciding>> /\ Quietly

(* The invocation raises, and the item is due again with its old stamp. *)
Raise ==
    /\ worker.pc # "idle" /\ faults < MaxFaults /\ faults' = faults + 1
    /\ items' = items \cup {worker.item} /\ WorkerReturns
    /\ UNCHANGED <<journal, now, saved, deciding>> /\ Reading

(* _resolve reads the inbox and takes the time... *)
AskDecision(m) ==
    /\ deciding[m].pc = "idle"
    /\ \E r \in Runs, decision \in {"approve", "reject"} :
          /\ InInbox(r)
          /\ deciding' = [deciding EXCEPT ![m] = [pc |-> "resolve", run |-> r, decision |-> decision, ts |-> now]]
    /\ UNCHANGED <<journal, now, items, worker, saved>> /\ Quietly

(* ...and resolve_approval appends the action and the decision, and enqueues   *)
(* the resumption or drops the continuation.                                 *)
Resolve(m) ==
    /\ deciding[m].pc = "resolve"
    /\ LET r == deciding[m].run
           ts == deciding[m].ts
       IN /\ Put(r, <<"action", deciding[m].decision>>, ts)
          /\ IF deciding[m].decision = "approve"
             THEN items' = items \cup {[run |-> r, of |-> "approval", ts |-> ts]} /\ saved' = saved
             ELSE saved' = saved \ {r} /\ items' = items
    /\ deciding' = [deciding EXCEPT ![m].pc = "done"]
    /\ UNCHANGED <<now, worker>> /\ Quietly

System ==
    \/ Tick \/ Invoke \/ Resume \/ Park \/ SaveContinuation \/ Settle \/ Project \/ Raise
    \/ \E r \in Runs : TriggerRun(r)
    \/ \E m \in Managers : AskDecision(m) \/ Resolve(m)

----------------------------------------------------------------------------
(* GET /events.  Each look at the journal reads one instance after the other,  *)
(* and what it found is sent when the last one is read.                      *)

Quiet == UNCHANGED <<system, faults>>
Look(pc, last) == [pc |-> pc, left |-> InstanceIds, copy |-> Nothing, last |-> last]

Connect ==
    /\ stream.pc = "closed"
    /\ stream' = Look("recent", Nothing)
    /\ UNCHANGED shown /\ Quiet

ReadInstance ==
    /\ Cardinality(stream.left) > 1
    /\ LET i == Min(stream.left)
       IN stream' = [stream EXCEPT !.left = @ \ {i}, !.copy[i] = Len(journal[i])]
    /\ UNCHANGED shown /\ Quiet

LastRead == Cardinality(stream.left) = 1
Copy == [i \in InstanceIds |-> IF i \in stream.left THEN Len(journal[i]) ELSE stream.copy[i]]

(* The mark of an instance is the highest seq of its recent events. *)
SendRecent ==
    /\ stream.pc = "recent" /\ LastRead
    /\ LET recent == Newest(RecentLimit, Prefix(Copy))
           highest(i) == Max({0} \cup {e[2] : e \in {f \in recent : f[1] = i}})
       IN /\ shown' = shown \cup recent
          /\ stream' = Look("poll", [i \in InstanceIds |-> highest(i)])
    /\ Quiet

(* A slip: one mark for all instances. *)
BugUnseen(events) == {e \in events : \A i \in InstanceIds : e[2] > stream.last[i]}

(* What a poll finds, with a mark for each instance. *)
Unseen(events) == {e \in events : e[2] > stream.last[e[1]]}

(* A slip: what a poll sends is not marked, only what a connection starts with. *)
BugMarkOnce(i, batch) == stream.last[i]

(* The mark follows the order of the stamps and may go back. *)
MarkAfter(i, batch) ==
    IF \E e \in batch : e[1] = i
    THEN (CHOOSE e \in batch : e[1] = i /\ \A f \in batch : f[1] = i => ~Before(e, f))[2]
    ELSE stream.last[i]

Batch == Unseen(Newest(PollLimit, Prefix(Copy)))
Poll ==
    /\ stream.pc = "poll" /\ LastRead
    /\ shown' = shown \cup Batch
    /\ stream' = Look("poll", [i \in InstanceIds |-> MarkAfter(i, Batch)])
    /\ Quiet

(* 300 polls without an event end it. *)
Close == stream' = [pc |-> "closed", left |-> {}, copy |-> Nothing, last |-> Nothing]
EndIdle ==
    /\ stream.pc = "poll" /\ LastRead /\ Batch = {}
    /\ Close /\ UNCHANGED shown /\ Quiet

(* The connection is lost, whatever the generator is at. *)
Drop ==
    /\ stream.pc # "closed" /\ faults < MaxFaults
    /\ Close /\ faults' = faults + 1
    /\ UNCHANGED <<system, shown>>

Serve == Connect \/ SendRecent \/ Poll \/ ReadInstance
ConsoleNext == System \/ Serve \/ EndIdle \/ Drop

ConsoleSpec == ConsoleInit /\ [][ConsoleNext]_consoleVars
(* The event loop goes on with the generator, and an EventSource reconnects. *)
FairConsoleSpec == ConsoleSpec /\ WF_consoleVars(Serve)

----------------------------------------------------------------------------
Decisions(r) == {e \in EventsOf(r) : Event(e).kind \in {"approve", "reject"}}
DecidedTwice(r) == \E d, e \in Decisions(r) : d # e
Invocations(r) == {e \in EventsOf(r) : Event(e).kind = "created"}
InvokedAgain(r) == \E d, e \in Invocations(r) : d # e

(* The list and the page of a run show one state, although they read the      *)
(* events in two orders: only a second decision, or a trigger that is invoked  *)
(* again and parks or settles after one, puts an older stamp behind a newer     *)
(* one in a run's own events.                                                 *)
ListAgreesWithPage ==
    \A r \in Runs :
        Telling(Listed(r)) = {} \/ DecidedTwice(r) \/ InvokedAgain(r)
        \/ ListState(r) = PageState(r)

(* Why: the stamps of a run follow its events as long as it is invoked once     *)
(* and decided once.                                                         *)
Busy == worker.pc # "idle"
BusyHasAnItem == Busy => worker.item \in Item
AtHand == items \cup {item \in {worker.item} : Busy}
WrittenHome == \A r \in Runs : \A e \in EventsOf(r) : e[1] = InstanceOf[r]

StampedBy(r, ts) == \A e \in EventsOf(r) : Event(e).ts <= ts
StampsArePast ==
    /\ \A r \in Runs : StampedBy(r, now)
    /\ \A item \in AtHand : item.ts <= now
    /\ \A m \in Managers : deciding[m].pc = "resolve" => deciding[m].ts <= now

(* A run has its creation before another event, a parked call before its       *)
(* decision, and the decision before the item that resumes it.               *)
EveryRunBegins ==
    /\ \A r \in Runs : EventsOf(r) # {} \/ (Busy /\ worker.item.run = r) => Invocations(r) # {}
    /\ \A item \in AtHand : item.of = "approval" =>
          \E d \in Decisions(item.run) : Event(d).ts = item.ts
    /\ \A r \in Runs, m \in Managers :
          deciding[m].pc = "resolve" /\ deciding[m].run = r => Has(r, "parked")

Plain(r) == ~DecidedTwice(r) /\ ~InvokedAgain(r)
Sorted(r) == \A e, f \in EventsOf(r) : e[2] <= f[2] => Event(e).ts <= Event(f).ts
JustCreated(r, ts) == \A e \in EventsOf(r) : Event(e).kind = "created" /\ Event(e).ts = ts
StampsFollow ==
    \A r \in Runs : Plain(r) =>
        /\ Sorted(r)
        /\ worker.pc = "run" /\ worker.item.run = r /\ worker.item.of = "trigger"
           => JustCreated(r, worker.item.ts)
        /\ \A item \in AtHand : item.run = r /\ item.of = "approval" => StampedBy(r, item.ts)
        /\ \A m \in Managers :
              deciding[m].pc = "resolve" /\ deciding[m].run = r /\ Decisions(r) = {}
              => StampedBy(r, deciding[m].ts)

ConsoleIInv ==
    /\ SystemTypeOK /\ BusyHasAnItem /\ WrittenHome
    /\ StampsArePast /\ EveryRunBegins /\ StampsFollow

(* The stream sends only what is in the journal, and the mark of an instance is  *)
(* an event it has sent: nothing it has not come across is marked as seen.     *)
MarksWereSent ==
    /\ shown \subseteq Prefix(Heads)
    /\ \A i \in InstanceIds :
          /\ stream.copy[i] <= Len(journal[i])
          /\ stream.last[i] # 0 => <<i, stream.last[i]>> \in shown

(* A browser that tails the stream catches up, again and again, through ends    *)
(* of the stream and lost connections and however old the stamp of a new       *)
(* event: it was sent all but what as many events as a new connection is sent   *)
(* have newer stamps than.  (The bound ends the journal, so it can.)           *)
CrowdedOut(e) == Cardinality(Later(e, Prefix(Heads))) >= RecentLimit
EveryEventIsShown == []<>(\A e \in Prefix(Heads) : e \in shown \/ CrowdedOut(e))

(* A mark that goes back repeats events, but not for ever: an open stream       *)
(* comes to rest, although it polls without a pause while it has something.     *)
TailComesToRest ==
    stream.pc = "poll" ~> (Unseen(Newest(PollLimit, Prefix(Heads))) = {} \/ stream.pc = "closed")

=============================================================================
