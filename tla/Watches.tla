------------------------------- MODULE Watches -------------------------------
(***************************************************************************)
(* Settlement, its projections and deferred settlement: a run settles      *)
(* (SettlementCommitter.commit), registers a watch, the watch's deadline    *)
(* passes, WatchMaturationWorker fires it and matures it.  Every step       *)
(* leaves an event in the journal and a row somewhere else: a fact of the   *)
(* heap, a watch, a billing line, an eval case and the instance's resume,   *)
(* which adds and so can be neither repeated nor raced.                     *)
(*                                                                         *)
(* Two kinds of process write the resume.  The pump is the operator's one   *)
(* _worker_loop: it settles a run, then fires and matures watches, one      *)
(* await at a time and never two at once.  The managers' set_ring requests  *)
(* run in the same event loop and interleave with it at every await.  Both  *)
(* read the document, change their copy and write all of it back.           *)
(***************************************************************************)
EXTENDS Integers, Sequences, FiniteSets, SequencesExt

CONSTANTS
    Instances, Runs,
    InstanceOf,     (* [Runs -> Instances]                                  *)
    Watched,        (* runs that settle facts under a watch window          *)
    Parked,         (* runs that settle through RunLoop.resume              *)
    Ungradable,     (* runs whose trace the judge raises on                 *)
    Reported,       (* runs whose outcome an outside writer reports         *)
    Rings, Managers,
    MaxFaults       (* bound: awaits that raise or are cancelled            *)

ASSUME WatchAssumption ==
    /\ InstanceOf \in [Runs -> Instances]
    /\ Runs # {} /\ Instances # {} /\ Rings # {}
    /\ Watched \subseteq Runs /\ Parked \subseteq Runs
    /\ Ungradable \subseteq Runs /\ Reported \subseteq Runs
    /\ IsFiniteSet(Runs) /\ "none" \notin Rings
    /\ MaxFaults \in Nat

VARIABLES
    journal,        (* the events, in the order they were appended          *)
    fact,           (* [Runs -> status of the run's heap_fact row]          *)
    watch,          (* [Runs -> status of the run's watch row]              *)
    billed,         (* runs with a billing_line row                         *)
    graded,         (* runs with an EvalCase row                            *)
    resume,         (* [Instances -> the resume row]                        *)
    queued,         (* runs whose work item will be claimed                 *)
    due,            (* runs whose watch deadline has passed                 *)
    pump,           (* where _worker_loop is                                *)
    request,        (* [Managers -> the state of a set_ring request]        *)
    faults,         (* faults so far                                        *)
    overlaps        (* history: read-modify-writes of a resume that raced   *)

rows == <<fact, watch, billed, graded>>
env == <<queued, due, faults, overlaps>>
vars == <<journal, rows, resume, pump, request, env>>

NoResume == [ring |-> "none", trust |-> 0, streak |-> 0, settled |-> 0, good |-> 0, bad |-> 0]
NewResume == [NoResume EXCEPT !.ring = "L0"]
Resumes == [ring : Rings \cup {"L0", "none"}, trust : Int, streak : Nat,
            settled : Nat, good : Nat, bad : Nat]

Settled(r) == [kind |-> "settled", instance |-> InstanceOf[r], run |-> r]
Registered(r) == [kind |-> "registered", instance |-> InstanceOf[r], run |-> r]
Fired(r, o) == [kind |-> "fired", instance |-> InstanceOf[r], run |-> r, outcome |-> o]
Deferred(r, o) == [kind |-> "deferred", instance |-> InstanceOf[r], run |-> r, outcome |-> o]
SetRing(i, g) == [kind |-> "set_ring", instance |-> i, ring |-> g]

Outcomes == {"success", "no_signal"}
Events == {Settled(r) : r \in Runs} \cup {Registered(r) : r \in Runs}
          \cup {Fired(r, o) : r \in Runs, o \in Outcomes}
          \cup {Deferred(r, o) : r \in Runs, o \in Outcomes}
          \cup {SetRing(i, g) : i \in Instances, g \in Rings}

(* The run's event of a kind is in the journal. *)
Has(kind, r) == \E n \in DOMAIN journal : journal[n].kind = kind /\ journal[n].run = r

SettlePcs == {"settle", "rows", "read", "write", "register", "watch"}
ScanPcs == {"scan", "fire", "flip"}
MaturePcs == {"list", "mature", "grade", "readTrust", "writeTrust", "defer", "promote"}
NoRun == CHOOSE r \in Runs : TRUE
PumpState == [pc : {"work"} \cup SettlePcs \cup ScanPcs \cup MaturePcs,
              run : Runs, todo : Seq(Runs), copy : Resumes]
RequestState == [pc : {"idle", "append", "read", "write", "done"},
                 instance : Instances, ring : Rings, copy : Resumes]

TypeOK ==
    /\ journal \in Seq(Events)
    /\ fact \in [Runs -> {"none", "probation", "promoted"}]
    /\ watch \in [Runs -> {"none", "pending", "fired"}]
    /\ billed \subseteq Runs /\ graded \subseteq Runs
    /\ resume \in [Instances -> Resumes]
    /\ queued \subseteq Runs /\ due \subseteq Runs
    /\ pump \in PumpState
    /\ request \in [Managers -> RequestState]
    /\ faults \in 0 .. MaxFaults /\ overlaps \in Nat

NoRequest == [pc |-> "idle", instance |-> CHOOSE i \in Instances : TRUE,
              ring |-> CHOOSE g \in Rings : TRUE, copy |-> NoResume]

(* Every run is enqueued and nothing has happened. *)
Init ==
    /\ journal = <<>>
    /\ fact = [r \in Runs |-> "none"] /\ watch = [r \in Runs |-> "none"]
    /\ billed = {} /\ graded = {}
    /\ resume = [i \in Instances |-> NoResume]
    /\ queued = Runs /\ due = {}
    /\ pump = [pc |-> "work", run |-> NoRun, todo |-> <<>>, copy |-> NoResume]
    /\ request = [m \in Managers |-> NoRequest]
    /\ faults = 0 /\ overlaps = 0

At(pc) == pump.pc = pc
Goto(pc) == pump' = [pump EXCEPT !.pc = pc]
Leave(pc) == pump' = [pump EXCEPT !.pc = pc, !.copy = NoResume]
Record(event) == journal' = Append(journal, event)

-----------------------------------------------------------------------------
(* What the projectors make of an event *)

(* ResumeProjector on RunSettled: the delta is trust_on_success, because the
   run loop settles only with success; the counts are written anew. *)
AddSettlement(doc) ==
    [ring |-> IF doc = NoResume THEN "L0" ELSE doc.ring,
     trust |-> doc.trust + 1, streak |-> doc.streak + 1,
     settled |-> doc.settled + 1, good |-> 0, bad |-> 0]

(* _update_resume_for_maturation *)
AddMaturation(doc, outcome) ==
    LET prior == IF doc = NoResume THEN NewResume ELSE doc
    IN  IF outcome = "success"
        THEN [prior EXCEPT !.trust = @ + 1, !.streak = @ + 1, !.good = @ + 1]
        ELSE [prior EXCEPT !.trust = @ - 1, !.streak = 0, !.bad = @ + 1]

(* ResumeProjector on a set_ring ManagerAction. *)
AddRing(doc, ring) == [doc EXCEPT !.ring = ring]

(* HeapProjector and WatchProjector, on the rows of one run. *)
FactAfter(status, event) ==
    CASE event.kind = "settled" -> "probation"
      [] event.kind = "deferred" /\ event.outcome = "success" /\ status # "none" -> "promoted"
      [] OTHER -> status

WatchAfter(status, event) ==
    CASE event.kind = "registered" -> "pending"
      [] event.kind = "fired" /\ status # "none" -> "fired"
      [] OTHER -> status

-----------------------------------------------------------------------------
(* worker.run_once: the run that reaches SettlementCommitter.commit *)

(* A trigger's work item that is claimed again drives the run again; resume
   raises RunNotResumable once the run is settled, at every claim. *)
Work(r) ==
    /\ At("work")
    /\ r \in queued
    /\ pump' = [pump EXCEPT !.run = r,
                  !.pc = IF r \in Parked /\ Has("settled", r) THEN "scan" ELSE "settle"]
    /\ UNCHANGED <<journal, rows, resume, request, env>>

NoWork ==
    /\ At("work")
    /\ Goto("scan")
    /\ UNCHANGED <<journal, rows, resume, request, env>>

(* self._journal.append(RunSettled(...)) *)
AppendSettled ==
    /\ At("settle")
    /\ Record(Settled(pump.run))
    /\ Goto("rows")
    /\ UNCHANGED <<rows, resume, request, env>>

(* self._projections.apply(event): heap, trace, watch, billing, resume and
   thread, in this order; the facts and the billing line are upserts by an id
   that nobody else writes, so one step. *)
ProjectRows ==
    /\ At("rows")
    /\ fact' = IF pump.run \in Watched
               THEN [fact EXCEPT ![pump.run] = FactAfter(@, Settled(pump.run))] ELSE fact
    /\ billed' = billed \cup {pump.run}
    /\ Goto("read")
    /\ UNCHANGED <<journal, watch, graded, resume, request, env>>

ReadResume ==
    /\ At("read")
    /\ pump' = [pump EXCEPT !.pc = "write", !.copy = resume[InstanceOf[pump.run]]]
    /\ UNCHANGED <<journal, rows, resume, request, env>>

(* Another process holds a copy of the instance's resume that it will write. *)
HeldByRequest(i) == \E m \in Managers : request[m].pc = "write" /\ request[m].instance = i
HeldByPump(i) == pump.pc \in {"write", "writeTrust"} /\ InstanceOf[pump.run] = i

WriteByPump(doc) ==
    LET i == InstanceOf[pump.run]
    IN  /\ resume' = [resume EXCEPT ![i] = doc]
        /\ overlaps' = IF HeldByRequest(i) THEN overlaps + 1 ELSE overlaps

(* Mutant: the resume is not written back. *)
BugSkipResume ==
    /\ At("write")
    /\ Goto(IF pump.run \in Watched THEN "register" ELSE "scan")
    /\ queued' = IF pump.run \in Watched THEN queued ELSE queued \ {pump.run}
    /\ UNCHANGED <<journal, rows, resume, request, due, faults, overlaps>>

(* The last write of a run without a watch: its work item completes. *)
WriteResume ==
    /\ At("write")
    /\ WriteByPump(AddSettlement(pump.copy))
    /\ Leave(IF pump.run \in Watched THEN "register" ELSE "scan")
    /\ queued' = IF pump.run \in Watched THEN queued ELSE queued \ {pump.run}
    /\ UNCHANGED <<journal, rows, request, due, faults>>

AppendRegistered ==
    /\ At("register")
    /\ Record(Registered(pump.run))
    /\ Goto("watch")
    /\ UNCHANGED <<rows, resume, request, env>>

ProjectWatch ==
    /\ At("watch")
    /\ watch' = [watch EXCEPT ![pump.run] = WatchAfter(@, Registered(pump.run))]
    /\ queued' = queued \ {pump.run}
    /\ Goto("scan")
    /\ UNCHANGED <<journal, fact, billed, graded, resume, request, due, faults, overlaps>>

-----------------------------------------------------------------------------
(* watch_maturation_worker.run_once: scan_and_emit_watch_fires *)

(* Mutant: the deadline is compared the wrong way round. *)
BugScanEarly ==
    /\ At("scan")
    /\ \E s \in SetToSeqs({r \in Runs \ due : watch[r] = "pending"}) :
          pump' = [pump EXCEPT !.pc = "fire", !.todo = s]
    /\ UNCHANGED <<journal, rows, resume, request, env>>

(* watch_docs = await self._store.find(c.WATCH, {}), past their deadline. *)
Scan ==
    /\ At("scan")
    /\ \E s \in SetToSeqs({r \in due : watch[r] = "pending"}) :
          pump' = [pump EXCEPT !.pc = "fire", !.todo = s]
    /\ UNCHANGED <<journal, rows, resume, request, env>>

(* Mutant: only the row's status says whether the watch has fired. *)
BugFireAgain ==
    /\ At("fire")
    /\ pump.todo # <<>>
    /\ LET r == Head(pump.todo)
       IN  /\ Record(Fired(r, "no_signal"))
           /\ pump' = [pump EXCEPT !.pc = "flip", !.run = r, !.todo = Tail(@)]
    /\ UNCHANGED <<rows, resume, request, env>>

(* _has_fired reads the journal; only this pump fires in src/, so the check
   and the append are one step. *)
Fire ==
    /\ At("fire")
    /\ pump.todo # <<>>
    /\ LET r == Head(pump.todo)
       IN  IF Has("fired", r)
           THEN pump' = [pump EXCEPT !.todo = Tail(@)] /\ UNCHANGED journal
           ELSE /\ Record(Fired(r, "no_signal"))
                /\ pump' = [pump EXCEPT !.pc = "flip", !.run = r, !.todo = Tail(@)]
    /\ UNCHANGED <<rows, resume, request, env>>

(* Mutant: the WatchFired is not folded into the watch row. *)
BugNoFlip ==
    /\ At("flip")
    /\ Goto("fire")
    /\ UNCHANGED <<journal, rows, resume, request, env>>

FlipWatch ==
    /\ At("flip")
    /\ watch' = [watch EXCEPT ![pump.run] = WatchAfter(@, Fired(pump.run, "no_signal"))]
    /\ Goto("fire")
    /\ UNCHANGED <<journal, fact, billed, graded, resume, request, env>>

Scanned ==
    /\ At("fire")
    /\ pump.todo = <<>>
    /\ Goto("list")
    /\ UNCHANGED <<journal, rows, resume, request, env>>

-----------------------------------------------------------------------------
(* watch_maturation_worker.run_once: mature every WatchFired *)

(* The WatchFired events of the instances that have a resume row. *)
ListedFires == {n \in DOMAIN journal :
                  journal[n].kind = "fired" /\ resume[journal[n].instance] # NoResume}

(* Instance by instance, the instances in any order, and the events of each in
   the order of the journal. *)
List ==
    /\ At("list")
    /\ \E s \in SetToSeqs(ListedFires) :
          /\ \A a, b \in DOMAIN s :
                a < b /\ journal[s[a]].instance = journal[s[b]].instance =>
                    /\ s[a] < s[b]
                    /\ \A c \in a .. b : journal[s[c]].instance = journal[s[a]].instance
          /\ pump' = [pump EXCEPT !.pc = "mature",
                        !.todo = [n \in DOMAIN s |-> journal[s[n]].run]]
    /\ UNCHANGED <<journal, rows, resume, request, env>>

OutcomeOf(r) ==
    journal[CHOOSE n \in DOMAIN journal :
              journal[n].kind = "fired" /\ journal[n].run = r].outcome

(* No RunSettled, or the judge raises on the trace read back from the journal. *)
Raises(r) == ~Has("settled", r) \/ r \in Ungradable

(* _already_matured, then the run's RunSettled, the trace and the judge; what
   raises here ends the tick, and the watches after this one wait. *)
Mature ==
    /\ At("mature")
    /\ pump.todo # <<>>
    /\ LET r == Head(pump.todo)
       IN  CASE Has("deferred", r) -> pump' = [pump EXCEPT !.todo = Tail(@)]
             [] ~Has("deferred", r) /\ Raises(r) ->
                   pump' = [pump EXCEPT !.pc = "work", !.todo = <<>>, !.copy = NoResume]
             [] OTHER -> pump' = [pump EXCEPT !.pc = "grade", !.run = r]
    /\ UNCHANGED <<journal, rows, resume, request, env>>

Matured ==
    /\ At("mature")
    /\ pump.todo = <<>>
    /\ Goto("work")
    /\ UNCHANGED <<journal, rows, resume, request, env>>

(* self._store.upsert(c.EVAL_CASE, eval_{run_id}, eval_doc) *)
SaveEvalCase ==
    /\ At("grade")
    /\ graded' = graded \cup {pump.run}
    /\ Goto("readTrust")
    /\ UNCHANGED <<journal, fact, watch, billed, resume, request, env>>

ReadTrust ==
    /\ At("readTrust")
    /\ pump' = [pump EXCEPT !.pc = "writeTrust", !.copy = resume[InstanceOf[pump.run]]]
    /\ UNCHANGED <<journal, rows, resume, request, env>>

(* The resume is updated before DeferredSettled is journaled. *)
WriteTrust ==
    /\ At("writeTrust")
    /\ WriteByPump(AddMaturation(pump.copy, OutcomeOf(pump.run)))
    /\ Leave("defer")
    /\ UNCHANGED <<journal, rows, request, queued, due, faults>>

AppendDeferred ==
    /\ At("defer")
    /\ Record(Deferred(pump.run, OutcomeOf(pump.run)))
    /\ Goto("promote")
    /\ UNCHANGED <<rows, resume, request, env>>

ProjectDeferred ==
    /\ At("promote")
    /\ fact' = [fact EXCEPT ![pump.run] = FactAfter(@, Deferred(pump.run, OutcomeOf(pump.run)))]
    /\ pump' = [pump EXCEPT !.pc = "mature", !.todo = Tail(@)]
    /\ UNCHANGED <<journal, watch, billed, graded, resume, request, env>>

-----------------------------------------------------------------------------
(* KernelControl.set_ring, called by an HTTP request *)

AskRing(m, i, g) ==
    /\ request[m].pc = "idle"
    /\ request' = [request EXCEPT ![m] = [@ EXCEPT !.pc = "append", !.instance = i, !.ring = g]]
    /\ UNCHANGED <<journal, rows, resume, pump, env>>

(* Two requests for one instance race from here on: their writes need not
   come in the order of their events. *)
AppendRing(m) ==
    /\ request[m].pc = "append"
    /\ Record(SetRing(request[m].instance, request[m].ring))
    /\ request' = [request EXCEPT ![m].pc = "read"]
    /\ overlaps' = IF \E n \in Managers \ {m} :
                         /\ request[n].pc \in {"read", "write"}
                         /\ request[n].instance = request[m].instance
                    THEN overlaps + 1 ELSE overlaps
    /\ UNCHANGED <<rows, resume, pump, queued, due, faults>>

ReadForRing(m) ==
    /\ request[m].pc = "read"
    /\ request' = [request EXCEPT ![m] = [@ EXCEPT !.pc = "write", !.copy = resume[request[m].instance]]]
    /\ UNCHANGED <<journal, rows, resume, pump, env>>

WriteRing(m) ==
    /\ request[m].pc = "write"
    /\ resume' = [resume EXCEPT ![request[m].instance] =
                    AddRing(request[m].copy, request[m].ring)]
    /\ overlaps' = LET i == request[m].instance
                       others == \E n \in Managers \ {m} :
                                    request[n].pc = "write" /\ request[n].instance = i
                   IN  IF HeldByPump(i) \/ others THEN overlaps + 1 ELSE overlaps
    /\ request' = [request EXCEPT ![m] = [NoRequest EXCEPT !.pc = "done"]]
    /\ UNCHANGED <<journal, rows, pump, queued, due, faults>>

-----------------------------------------------------------------------------
(* The environment *)

Deadline(r) ==
    /\ watch[r] = "pending" /\ r \notin due
    /\ due' = due \cup {r}
    /\ UNCHANGED <<journal, rows, resume, pump, request, queued, faults, overlaps>>

(* A WatchFired with the reality outcome.  Nothing under src/ but the tests
   appends one: the outcome of a manual task does not reach the journal. *)
Report(r) ==
    /\ r \in Reported
    /\ watch[r] = "pending" /\ ~Has("fired", r)
    /\ Record(Fired(r, "success"))
    /\ watch' = [watch EXCEPT ![r] = WatchAfter(@, Fired(r, "success"))]
    /\ UNCHANGED <<fact, billed, graded, resume, pump, request, env>>

(* An await of the pump raises: the item is pending again and the tick's other
   half runs, or, if it was maturing, the next tick does.  When the operator is
   stopped the claimed item is lost as well. *)
Fault ==
    /\ ~At("work")
    /\ faults < MaxFaults
    /\ faults' = faults + 1
    /\ \/ /\ pump.pc \in SettlePcs
          /\ pump' = [pump EXCEPT !.pc = "scan", !.todo = <<>>, !.copy = NoResume]
          /\ UNCHANGED queued
       \/ /\ pump.pc \notin SettlePcs
          /\ pump' = [pump EXCEPT !.pc = "work", !.todo = <<>>, !.copy = NoResume]
          /\ UNCHANGED queued
       \/ /\ pump.pc \in SettlePcs
          /\ pump' = [pump EXCEPT !.pc = "work", !.todo = <<>>, !.copy = NoResume]
          /\ queued' = queued \ {pump.run}
    /\ UNCHANGED <<journal, rows, resume, request, due, overlaps>>

(* The set_ring request raises after its ManagerAction. *)
RequestFault(m) ==
    /\ request[m].pc \in {"append", "read", "write"}
    /\ faults < MaxFaults
    /\ faults' = faults + 1
    /\ request' = [request EXCEPT ![m] = [NoRequest EXCEPT !.pc = "done"]]
    /\ UNCHANGED <<journal, rows, resume, pump, queued, due, overlaps>>

Settlement == \/ AppendSettled \/ ProjectRows \/ ReadResume
              \/ WriteResume \/ AppendRegistered \/ ProjectWatch
Firing == Scan \/ Fire \/ FlipWatch \/ Scanned
Maturation == \/ List \/ Mature \/ Matured \/ SaveEvalCase \/ ReadTrust
              \/ WriteTrust \/ AppendDeferred \/ ProjectDeferred
Pump == (\E r \in Runs : Work(r)) \/ NoWork \/ Settlement \/ Firing \/ Maturation
Request(m) == \/ \E i \in Instances, g \in Rings : AskRing(m, i, g)
              \/ AppendRing(m) \/ ReadForRing(m) \/ WriteRing(m) \/ RequestFault(m)

Next == \/ Pump \/ Fault
        \/ \E m \in Managers : Request(m)
        \/ \E r \in Runs : Deadline(r) \/ Report(r)

(* The loop never ends and sleeps between two ticks, and time passes. *)
Spec == Init /\ [][Next]_vars /\ WF_vars(Pump) /\ \A r \in Runs : WF_vars(Deadline(r))

-----------------------------------------------------------------------------
(* Properties *)

(* A run's watch fires once and the run is matured once, whatever is retried,
   raced or cut off between the writes: the journal holds at most one
   WatchFired and one DeferredSettled of a run, in that order and after its
   RunSettled, and every DeferredSettled has its EvalCase. *)
MaturesOnce ==
    \A n \in DOMAIN journal :
        /\ journal[n].kind \in {"fired", "deferred"} =>
              /\ \A k \in DOMAIN journal :
                    journal[k].kind = journal[n].kind /\ journal[k].run = journal[n].run
                        => k = n
              /\ \E k \in 1 .. n - 1 :
                    /\ journal[k].kind = IF journal[n].kind = "fired"
                                         THEN "settled" ELSE "fired"
                    /\ journal[k].run = journal[n].run
        /\ journal[n].kind = "deferred" => journal[n].run \in graded

(* The rows a projection keeps are what folding the journal yields, from
   nothing or over the rows already there, once no event is half applied and
   no await failed: rebuild converges on the heap and the watches. *)
ApplyTo(r, row, event) ==
    IF event.kind = "set_ring" \/ event.run # r THEN row
    ELSE [fact |-> FactAfter(row.fact, event), watch |-> WatchAfter(row.watch, event)]

Rebuilt(r, old, events) ==
    LET row[n \in 0 .. Len(events)] ==
          IF n = 0 THEN old ELSE ApplyTo(r, row[n - 1], events[n])
    IN  row[Len(events)]

NoRow == [fact |-> "none", watch |-> "none"]
RowOf(r) == [fact |-> fact[r], watch |-> watch[r]]

RowsAreTheFold ==
    pump.pc \in {"work", "scan", "list"} /\ faults = 0 =>
        \A r \in Watched : \A old \in {NoRow, RowOf(r)} : RowOf(r) = Rebuilt(r, old, journal)

(* The resume, built by adding, is what the journal earned, but for what was
   paid for: an await that failed between a write and its event, or two
   read-modify-writes that overlapped, each moves the trust by one at most. *)
Earn(i, doc, event) ==
    IF event.instance # i THEN doc
    ELSE CASE event.kind = "settled" -> AddSettlement(doc)
           [] event.kind = "deferred" -> AddMaturation(doc, event.outcome)
           [] event.kind = "set_ring" -> AddRing(doc, event.ring)
           [] OTHER -> doc

Earned(i, events) ==
    LET doc[n \in 0 .. Len(events)] ==
          IF n = 0 THEN NoResume ELSE Earn(i, doc[n - 1], events[n])
    IN  doc[Len(events)]

Quiet(i) ==
    /\ pump.pc \in {"work", "scan", "list"}
    /\ \A m \in Managers : request[m].instance = i => request[m].pc \in {"idle", "append", "done"}
Distance(a, b) == IF a < b THEN b - a ELSE a - b

ResumeFollowsJournal ==
    \A i \in Instances : Quiet(i) =>
        /\ Distance(resume[i].trust, Earned(i, journal).trust) <= faults + overlaps
        /\ faults + overlaps = 0 => resume[i] = Earned(i, journal)

(* Every watch that is registered matures, unless the judge raises on a trace
   whose watch fired before it (or, in another instance, at all): run_once goes
   through the WatchFired events in order and one that raises ends every tick. *)
Starved(r) ==
    \E n, k \in DOMAIN journal :
        /\ journal[n].kind = "fired" /\ journal[n].run \in Ungradable
        /\ journal[k].kind = "fired" /\ journal[k].run = r
        /\ n <= k \/ journal[n].instance # journal[k].instance

EveryWatchMatures ==
    \A r \in Runs : watch[r] = "pending" ~> Has("deferred", r) \/ Starved(r)

-----------------------------------------------------------------------------
(* The inductive invariant *)

(* What the pump may rely on where it is, from what it read or wrote before. *)
Grounds ==
    /\ \A r \in Runs : watch[r] # "none" => Has("settled", r) /\ Has("registered", r)
    /\ \A r \in Runs : Has("fired", r) => Has("registered", r)
    /\ pump.pc \in {"rows", "read", "write", "register", "watch"} => Has("settled", pump.run)
    /\ pump.pc = "watch" => Has("registered", pump.run)
    /\ pump.pc \in {"fire", "flip"} =>
          \A n \in DOMAIN pump.todo :
             Has("settled", pump.todo[n]) /\ Has("registered", pump.todo[n])
    /\ pump.pc = "flip" => Has("fired", pump.run)
    /\ pump.pc \in MaturePcs \ {"list"} =>
          \A n \in DOMAIN pump.todo : Has("fired", pump.todo[n])
    /\ pump.pc \in {"grade", "readTrust", "writeTrust", "defer", "promote"} =>
          pump.todo # <<>> /\ Has("fired", pump.run)
    /\ pump.pc \in {"grade", "readTrust", "writeTrust", "defer"} => ~Has("deferred", pump.run)
    /\ pump.pc \in {"readTrust", "writeTrust", "defer"} => pump.run \in graded

(* A rebuild forgets the row it starts from as soon as the event is folded
   that writes the row whole. *)
Rows == [fact : {"none", "probation", "promoted"}, watch : {"none", "pending", "fired"}]
RebuildForgets ==
    \A r \in Runs : \A old \in Rows :
        Rebuilt(r, old, journal) =
          [fact |-> IF Has("settled", r) THEN Rebuilt(r, NoRow, journal).fact ELSE old.fact,
           watch |-> IF Has("registered", r) THEN Rebuilt(r, NoRow, journal).watch ELSE old.watch]

(* The row once the event that is journaled and not yet projected is. *)
RowAhead(r) ==
    IF pump.run # r THEN RowOf(r)
    ELSE CASE pump.pc = "rows" -> ApplyTo(r, RowOf(r), Settled(r))
           [] pump.pc = "watch" -> ApplyTo(r, RowOf(r), Registered(r))
           [] pump.pc = "flip" -> ApplyTo(r, RowOf(r), Fired(r, "no_signal"))
           [] pump.pc = "promote" -> ApplyTo(r, RowOf(r), Deferred(r, OutcomeOf(r)))
           [] OTHER -> RowOf(r)

RowsKeepUp ==
    faults = 0 => \A r \in Watched : Rebuilt(r, NoRow, journal) = RowAhead(r)

(* Without a fault a run settles once: its item is in the queue until its last
   write, and the watch it registered is that last write. *)
QueueIsTrue ==
    faults = 0 =>
        /\ \A r \in Runs : watch[r] # "none" => r \notin queued
        /\ pump.pc \in SettlePcs => pump.run \in queued

(* The trust an instance is owed by what is journaled, without the settlement
   that is not written yet and with the maturation that is not journaled yet;
   the row and every copy of it that will be written are near it. *)
Settling(i) == pump.pc \in {"rows", "read", "write"} /\ InstanceOf[pump.run] = i
Deferring(i) == pump.pc = "defer" /\ InstanceOf[pump.run] = i
Gain(outcome) == IF outcome = "success" THEN 1 ELSE -1
Owed(i) == Earned(i, journal).trust
           - (IF Settling(i) THEN 1 ELSE 0)
           + (IF Deferring(i) THEN Gain(OutcomeOf(pump.run)) ELSE 0)
Near(t, i) == Distance(t, Owed(i)) <= faults + overlaps
Holding(m, i) == request[m].pc = "write" /\ request[m].instance = i
Racing(m, i) == request[m].pc \in {"read", "write"} /\ request[m].instance = i

TrustIsNear ==
    \A i \in Instances :
        /\ Near(resume[i].trust, i)
        /\ \A m \in Managers : Holding(m, i) => Near(request[m].copy.trust, i)
        /\ HeldByPump(i) => Near(pump.copy.trust, i)

(* Until a fault or an overlap the writes still to come make the resume exactly
   what is, or is about to be, journaled. *)
Written(i) == IF Settling(i) THEN AddSettlement(resume[i]) ELSE resume[i]
Journaled(i) == IF Deferring(i) THEN AddMaturation(Earned(i, journal), OutcomeOf(pump.run))
                ELSE Earned(i, journal)
ResumeIsExact ==
    faults + overlaps = 0 => \A i \in Instances :
        /\ \A m \in Managers : Holding(m, i) => request[m].copy = resume[i]
        /\ HeldByPump(i) => pump.copy = resume[i]
        /\ \A m, n \in Managers : Racing(m, i) /\ Racing(n, i) => m = n
        /\ \A m \in Managers : Racing(m, i) => AddRing(Written(i), request[m].ring) = Journaled(i)
        /\ (\A m \in Managers : ~Racing(m, i)) => Written(i) = Journaled(i)

IInv == /\ TypeOK /\ Grounds /\ MaturesOnce
        /\ RebuildForgets /\ RowsKeepUp /\ QueueIsTrue
        /\ TrustIsNear /\ ResumeIsExact
=============================================================================
