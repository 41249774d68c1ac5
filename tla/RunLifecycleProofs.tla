------------------------- MODULE RunLifecycleProofs -------------------------
(***************************************************************************)
(* A risky effect lands only after its card was approved, a rejection is    *)
(* final and a settled run is complete: for any number of calls, managers   *)
(* and requests, whatever raises or is cancelled and however often.         *)
(***************************************************************************)
EXTENDS RunLifecycle, FiniteSetTheorems, TLAPS

(* The harness makes one call that is riskier than its instance's ring, as the
   lead-finder's send is (library/mandate_lead_finder.py). *)
OneRisky == \A j, k \in Calls : Risky(j) /\ Risky(k) => j = k

(* A decision is never taken back. *)
LEMMA DecisionsStand ==
    ASSUME NEW q, Decided(q), request'[q].card = request[q].card,
           \/ resolutions' = resolutions
           \/ \E s : resolutions' = Append(resolutions, s),
           resolutions \in Seq([actor : Actors, decision : Decisions, card : Calls])
    PROVE  Decided(q)'
<1>1. CASE resolutions' = resolutions
  BY <1>1 DEF Decided
<1>2. CASE \E s : resolutions' = Append(resolutions, s)
  <2> PICK s : resolutions' = Append(resolutions, s)
    BY <1>2
  <2> PICK m \in DOMAIN resolutions :
         resolutions[m].card = request[q].card /\ resolutions[m].decision # "reject"
    BY DEF Decided
  <2>1. m \in DOMAIN resolutions' /\ resolutions'[m] = resolutions[m]
    OBVIOUS
  <2> QED
    BY <2>1 DEF Decided
<1> QED
  BY <1>1, <1>2

(* The initial state satisfies the invariant. *)
LEMMA InitInv == Init => IInv
<1> SUFFICES ASSUME Init PROVE IInv
  OBVIOUS
<1>1. TypeOK
  BY RunAssumption DEF Init, TypeOK, IdleWorker, WorkerState, WorkerPcs, Running,
     RequestState, RequestPcs, Items, NoPark, NoArgs, NoCall, Args
<1>2. ParksAreRisky /\ AttemptsStand
  BY DEF Init, ParksAreRisky, AttemptsStand, IdleWorker
<1>3. RequestsHaveCards
  BY RunAssumption DEF Init, RequestsHaveCards, HasCard, Items
<1>4. WorkerHasItem
  BY DEF Init, WorkerHasItem, IdleWorker, Driving
<1>5. CallsInOrder
  BY DEF Init, CallsInOrder, IdleWorker, Driving
<1> QED
  BY <1>1, <1>2, <1>3, <1>4, <1>5 DEF IInv

(* The worker moves to another point of its invocation. *)
LEMMA WorkerMoves ==
    ASSUME TypeOK, NEW pc \in WorkerPcs, Worker(pc)
    PROVE  worker' \in WorkerState
BY DEF TypeOK, WorkerState, Worker

(* ... or on to the next call, or to the settlement. *)
LEMMA WorkerGoesOn ==
    ASSUME TypeOK, worker.call \in Calls, NextCall(worker.call)
    PROVE  worker' \in WorkerState
<1> DEFINE next == worker.call + 1
<1>1. {"settle", "gate"} \subseteq WorkerPcs /\ "proposed" \in Args /\ InstanceRing \in Nat
  BY RunAssumption DEF WorkerPcs, Running, Args
<1>2. worker.call # NCalls => next \in 0 .. NCalls
  BY RunAssumption DEF Calls
<1> HIDE DEF next
<1>3. CASE worker.call = NCalls
  <2>1. worker' = [worker EXCEPT !.pc = "settle"]
    BY <1>3 DEF NextCall
  <2> QED
    BY <1>1, <2>1 DEF TypeOK, WorkerState
<1>4. CASE worker.call # NCalls
  <2>1. worker' = [worker EXCEPT !.pc = "gate", !.call = next,
                       !.args = "proposed", !.ring = InstanceRing]
    BY <1>4 DEF NextCall, next
  <2> QED
    BY <1>1, <1>2, <1>4, <2>1 DEF TypeOK, WorkerState
<1> QED
  BY <1>3, <1>4

(* A manager request moves on. *)
LEMMA RequestMoves ==
    ASSUME TypeOK, NEW q \in Requests, NEW pc \in RequestPcs, Request(q, pc)
    PROVE  request' \in [Requests -> RequestState]
BY ZenonT(60) DEF TypeOK, RequestState, Request

(* Every step of the worker keeps the types. *)
LEMMA WorkerKeepsTypes ==
    ASSUME IInv, WorkerStep
    PROVE  TypeOK'
<1> USE DEF IInv
<1>1. {"completing", "failing", "restore", "settleCall", "execute", "park", "attempt",
       "save", "receipt", "project", "delete", "gate", "settle"} \subseteq WorkerPcs
  BY DEF WorkerPcs, Running
<1>2. IdleWorker \in WorkerState
  BY RunAssumption DEF IdleWorker, WorkerState, WorkerPcs, Items, NoArgs
<1>3. CASE Complete
  BY <1>3, <1>2 DEF Complete, TypeOK, journal, bounds
<1>4. CASE Fail
  BY <1>4, <1>2 DEF Fail, TypeOK, journal, bounds
<1>5. CASE Create
  <2>1. {"gate", "settle"} \subseteq WorkerPcs /\ "proposed" \in Args /\ InstanceRing \in Nat
        /\ 1 \in 0 .. NCalls
    BY RunAssumption DEF WorkerPcs, Running, Args
  <2>2. worker' \in WorkerState
    BY <1>5, <2>1 DEF Create, TypeOK, WorkerState
  <2> QED
    BY <1>5, <2>2 DEF Create, TypeOK, bounds
<1>6. CASE ReadRun
  <2>1. worker' \in WorkerState
    BY <1>6, <1>1, WorkerMoves DEF ReadRun
  <2> QED
    BY <1>6, <2>1 DEF ReadRun, TypeOK, journal, bounds
<1>7. CASE Restore
  <2>1. worker' \in WorkerState
    <3>1. CASE continuation = NoCall
      BY <3>1, <1>7, <1>1, WorkerMoves DEF Restore
    <3>2. CASE continuation # NoCall
      <4>1. continuation.call \in 0 .. NCalls /\ continuation.args \in Args /\ park.ring \in Nat
        BY <3>2, RunAssumption DEF TypeOK, Call, Calls
      <4>2. worker' = [worker EXCEPT !.pc = "gate", !.call = continuation.call,
                          !.args = continuation.args, !.ring = park.ring]
        BY <3>2, <1>7 DEF Restore
      <4>3. "gate" \in WorkerPcs
        BY <1>1
      <4> QED
        BY <4>1, <4>2, <4>3 DEF TypeOK, WorkerState
    <3> QED
      BY <3>1, <3>2
  <2> QED
    BY <1>7, <2>1 DEF Restore, TypeOK, journal, bounds
<1>8. CASE Gate
  <2>1. worker.call \in Calls
    BY <1>8 DEF Gate, WorkerHasItem, Driving
  <2>2. Worker("failing") \/ Worker("settleCall") \/ Worker(Disposition)
        \/ Worker("attempt") \/ NextCall(worker.call)
    BY <1>8, <2>1 DEF Gate, TypeOK, Args, NoArgs
  <2>3. Disposition \in WorkerPcs
    BY <1>1 DEF Disposition
  <2>4. worker' \in WorkerState
    BY <2>1, <2>2, <2>3, <1>1, WorkerMoves, WorkerGoesOn
  <2> QED
    BY <1>8, <2>4 DEF Gate, TypeOK, journal, bounds
<1>9. CASE Attempt
  <2>1. Disposition \in WorkerPcs
    BY <1>1 DEF Disposition
  <2>2. worker' \in WorkerState
    BY <1>9, <2>1, WorkerMoves DEF Attempt
  <2>3. attempted' \in [Calls -> Args \cup {NoArgs}]
    BY <1>9 DEF Attempt, TypeOK, WorkerState
  <2> QED
    BY <1>9, <2>2, <2>3 DEF Attempt, TypeOK, bounds
<1>10. CASE Park
  <2>1. worker' \in WorkerState
    BY <1>10, <1>1, WorkerMoves DEF Park
  <2>2. park' \in [call : 0 .. NCalls, ring : Nat]
    BY <1>10, RunAssumption DEF Park, TypeOK, WorkerHasItem, Driving, WorkerState
  <2> QED
    BY <1>10, <2>1, <2>2 DEF Park, TypeOK, bounds
<1>11. CASE SaveContinuation
  <2>1. worker' \in WorkerState
    BY <1>11, <1>1, WorkerMoves DEF SaveContinuation
  <2>2. continuation' \in Call \cup {NoCall}
    BY <1>11 DEF SaveContinuation, TypeOK, WorkerHasItem, Driving, WorkerState, Call
  <2>3. faults' \in 0 .. MaxFaults /\ lost' \in 0 .. faults' + stops'
    BY <1>11, RunAssumption DEF SaveContinuation, TypeOK
  <2> QED
    BY <1>11, <2>1, <2>2, <2>3 DEF SaveContinuation, TypeOK, journal
<1>12. CASE Execute
  <2>1. worker' \in WorkerState
    BY <1>12, <1>1, WorkerMoves DEF Execute
  <2>2. [call |-> worker.call, args |-> worker.args] \in Call
    BY <1>12 DEF Execute, TypeOK, WorkerHasItem, Driving, WorkerState, Call
  <2>3. effects' \in Seq(Call)
    BY <1>12, <2>2 DEF Execute, TypeOK
  <2> QED
    BY <1>12, <2>1, <2>3 DEF Execute, TypeOK, journal, bounds
<1>13. CASE SaveReceipt
  <2>1. worker' \in WorkerState
    BY <1>13, <1>1, WorkerMoves DEF SaveReceipt
  <2>2. receipted' \in [Calls -> Args \cup {NoArgs}]
    BY <1>13 DEF SaveReceipt, TypeOK, WorkerState
  <2> QED
    BY <1>13, <2>1, <2>2 DEF SaveReceipt, TypeOK, journal, bounds
<1>14. CASE SettleCall
  <2>1. worker.call \in Calls
    BY <1>14 DEF SettleCall, WorkerHasItem, Driving
  <2>2. worker' \in WorkerState
    BY <1>14, <2>1, WorkerGoesOn DEF SettleCall
  <2> QED
    BY <1>14, <2>1, <2>2 DEF SettleCall, TypeOK, bounds
<1>15. CASE Settle
  <2>1. worker' \in WorkerState
    BY <1>15, <1>1, WorkerMoves DEF Settle
  <2>2. runSettled' \in Nat /\ projected' \in 0 .. runSettled'
    BY <1>15 DEF Settle, TypeOK
  <2> QED
    BY <1>15, <2>1, <2>2 DEF Settle, TypeOK, bounds
<1>16. CASE Project
  <2>1. worker' \in WorkerState
    BY <1>16, <1>1, WorkerMoves DEF Project
  <2>2. projected' \in 0 .. runSettled'
    BY <1>16 DEF Project, TypeOK, WorkerHasItem, journal
  <2> QED
    BY <1>16, <2>1, <2>2 DEF Project, TypeOK, journal, bounds
<1>17. CASE DeleteContinuation
  <2>1. worker' \in WorkerState
    BY <1>17, <1>1, WorkerMoves DEF DeleteContinuation
  <2>2. faults' \in 0 .. MaxFaults /\ lost' \in 0 .. faults' + stops'
    BY <1>17, RunAssumption DEF DeleteContinuation, TypeOK
  <2> QED
    BY <1>17, <2>1, <2>2 DEF DeleteContinuation, TypeOK, journal
<1> QED
  BY <1>3, <1>4, <1>5, <1>6, <1>7, <1>8, <1>9, <1>10, <1>11, <1>12, <1>13, <1>14,
     <1>15, <1>16, <1>17 DEF WorkerStep
(* So do a claim, a fault and a cancellation. *)
LEMMA BreaksKeepTypes ==
    ASSUME IInv, (\E i \in Items : Claim(i)) \/ Crash \/ Raise \/ Stop
    PROVE  TypeOK'
<1> USE DEF IInv
<1>1. {"completing", "failing", "create", "resume"} \subseteq WorkerPcs
  BY DEF WorkerPcs, Running
<1>2. IdleWorker \in WorkerState
  BY RunAssumption DEF IdleWorker, WorkerState, WorkerPcs, Items, NoArgs
<1>3. CASE \E i \in Items : Claim(i)
  <2> PICK i \in Items : Claim(i)
    BY <1>3
  <2>1. worker' \in WorkerState
    BY <1>1, <1>2 DEF Claim, WorkerState
  <2> QED
    BY <2>1 DEF Claim, TypeOK, journal, bounds
<1>4. CASE Crash
  <2>1. worker' \in WorkerState
    BY <1>4, <1>1, WorkerMoves DEF Crash
  <2>2. stops' \in 0 .. MaxStops /\ lost' \in 0 .. faults' + stops'
    BY <1>4, RunAssumption DEF Crash, TypeOK
  <2> QED
    BY <1>4, <2>1, <2>2 DEF Crash, TypeOK, journal
<1>5. CASE Raise
  <2>1. worker' \in WorkerState
    BY <1>5, <1>1, WorkerMoves DEF Raise
  <2>2. faults' \in 0 .. MaxFaults /\ lost' \in 0 .. faults' + stops'
    BY <1>5, RunAssumption DEF Raise, LoseExecution, TypeOK
  <2> QED
    BY <1>5, <2>1, <2>2 DEF Raise, TypeOK, journal
<1>6. CASE Stop
  <2>1. stops' \in 0 .. MaxStops /\ lost' \in 0 .. faults' + stops'
    BY <1>6, RunAssumption DEF Stop, LoseExecution, TypeOK
  <2> QED
    BY <1>6, <1>2, <2>1 DEF Stop, TypeOK, journal
<1> QED
  BY <1>3, <1>4, <1>5, <1>6

(* And every step of a manager's request. *)
LEMMA RequestsKeepTypes ==
    ASSUME IInv, NEW q \in Requests,
           \/ \E actor \in Actors, decision \in Decisions : ReadInbox(q, actor, decision)
           \/ RequestStep(q)
           \/ RequestStops(q)
    PROVE  TypeOK'
<1> USE DEF IInv
<1>1. {"resolving", "saving", "enqueueing", "dropping", "done", "stopped", "restoring"}
         \subseteq RequestPcs
  BY DEF RequestPcs
<1>2. CASE \E actor \in Actors, decision \in Decisions : ReadInbox(q, actor, decision)
  <2> PICK actor \in Actors, decision \in Decisions : ReadInbox(q, actor, decision)
    BY <1>2
  <2>1. park.call \in 0 .. NCalls
    BY DEF TypeOK
  <2> DEFINE at == IF decision = "edit" THEN "restoring" ELSE "resolving"
             row == [pc |-> at, actor |-> actor, decision |-> decision,
                     card |-> park.call, copy |-> NoCall]
  <2>2. at \in RequestPcs
    BY <1>1
  <2>3. request' = [request EXCEPT ![q] = row]
    BY DEF ReadInbox
  <2> HIDE DEF at
  <2>4. row \in RequestState
    BY <2>1, <2>2 DEF RequestState
  <2> HIDE DEF row
  <2>5. request' \in [Requests -> RequestState]
    BY <2>3, <2>4 DEF TypeOK
  <2> QED
    BY <2>5 DEF ReadInbox, TypeOK, journal, bounds
<1>3. CASE EditReads(q)
  <2> DEFINE at == IF continuation = NoCall THEN "resolving" ELSE "saving"
             row == [request[q] EXCEPT !.copy = continuation, !.pc = at]
  <2>1. at \in RequestPcs
    BY <1>1
  <2>2. request' = [request EXCEPT ![q] = row]
    BY <1>3 DEF EditReads, TypeOK, RequestState
  <2> HIDE DEF at
  <2>3. row \in RequestState
    BY ZenonT(60), <2>1 DEF TypeOK, RequestState
  <2> HIDE DEF row
  <2>4. request' \in [Requests -> RequestState]
    BY <2>2, <2>3 DEF TypeOK
  <2> QED
    BY <1>3, <2>4 DEF EditReads, TypeOK, journal, bounds
<1>4. CASE EditSaves(q)
  <2>1. request' \in [Requests -> RequestState]
    BY <1>1, <1>4, RequestMoves DEF EditSaves
  <2>2. continuation' \in Call
    BY ZenonT(60), <1>4 DEF EditSaves, TypeOK, RequestState, RequestsHaveCards, HasCard, Call, Args
  <2> QED
    BY <1>4, <2>1, <2>2 DEF EditSaves, TypeOK, journal, bounds
<1>5. CASE Resolve(q)
  <2>1. request' \in [Requests -> RequestState]
    BY <1>1, <1>5, RequestMoves DEF Resolve
  <2>2. [actor |-> request[q].actor, decision |-> request[q].decision,
         card |-> request[q].card] \in [actor : Actors, decision : Decisions, card : Calls]
    BY <1>5 DEF Resolve, RequestsHaveCards, HasCard
  <2>3. resolutions' \in Seq([actor : Actors, decision : Decisions, card : Calls])
    BY <1>5, <2>2 DEF Resolve, TypeOK
  <2> QED
    BY <1>5, <2>1, <2>3 DEF Resolve, TypeOK, bounds
<1>6. CASE Enqueue(q)
  <2>1. request' \in [Requests -> RequestState]
    BY <1>1, <1>6, RequestMoves DEF Enqueue
  <2> QED
    BY <1>6, <2>1 DEF Enqueue, TypeOK, journal, bounds
<1>7. CASE Drop(q)
  <2>1. request' \in [Requests -> RequestState]
    BY <1>1, <1>7, RequestMoves DEF Drop
  <2> QED
    BY <1>7, <2>1 DEF Drop, TypeOK, journal, bounds
<1>8. CASE RequestStops(q)
  <2>1. request' \in [Requests -> RequestState]
    BY <1>1, <1>8, RequestMoves DEF RequestStops
  <2>2. stops' \in 0 .. MaxStops /\ lost' \in 0 .. faults' + stops'
    BY <1>8, RunAssumption DEF RequestStops, TypeOK
  <2> QED
    BY <1>8, <2>1, <2>2 DEF RequestStops, TypeOK, journal
<1> QED
  BY <1>2, <1>3, <1>4, <1>5, <1>6, <1>7, <1>8 DEF RequestStep
(* A park is about a risky call and carries a ring above the instance's. *)
LEMMA ParksStayRisky ==
    ASSUME IInv, Next
    PROVE  ParksAreRisky'
<1> USE DEF IInv
<1>1. CASE Park
  <2>1. worker.call \in Calls /\ worker.ring \in Nat /\ worker.ring >= InstanceRing /\ ~RingAllows
    BY <1>1 DEF Park, WorkerHasItem, Driving, TypeOK, WorkerState
  <2>2. RequiredRing[worker.call] > InstanceRing
    BY <2>1, RunAssumption DEF RingAllows
  <2> QED
    BY <1>1, <2>1, <2>2 DEF Park, ParksAreRisky, Risky
<1>2. CASE UNCHANGED park
  BY <1>2 DEF ParksAreRisky
<1>3. Park \/ UNCHANGED park
  BY DEF Next, WorkerStep, RequestStep, Claim, Complete, Fail, Create, ReadRun, Restore, Gate,
     Attempt, SaveContinuation, Execute, SaveReceipt, SettleCall, Settle, Project,
     DeleteContinuation, Crash, Raise, Stop, ReadInbox, EditReads, EditSaves, Resolve,
     Enqueue, Drop, RequestStops, journal
<1> QED
  BY <1>1, <1>2, <1>3

(* What a request knows stays true while others step. *)
LEMMA CardsLast ==
    ASSUME TypeOK, NEW q, HasCard(q), request'[q] = request[q],
           queue'[q] # "absent" => queue[q] # "absent",
           \/ resolutions' = resolutions
           \/ \E s : resolutions' = Append(resolutions, s)
    PROVE  HasCard(q)'
<1>1. Decided(q) => Decided(q)'
  BY DecisionsStand DEF TypeOK
<1> QED
  BY <1>1 DEF HasCard, Risky

(* The steps of the worker, of the scheduler and of the faults leave every
   request what it knew. *)
LEMMA OthersKeepCards ==
    ASSUME IInv, (\E i \in Items : Claim(i)) \/ WorkerStep \/ Crash \/ Raise \/ Stop
    PROVE  RequestsHaveCards'
<1> USE DEF IInv
<1>1. request' = request /\ resolutions' = resolutions
  BY DEF WorkerStep, Claim, Complete, Fail, Create, ReadRun, Restore, Gate,
     Attempt, Park, SaveContinuation, Execute, SaveReceipt, SettleCall, Settle, Project,
     DeleteContinuation, Crash, Raise, Stop, journal
<1>2. \A q \in Requests : queue'[q] # "absent" => queue[q] # "absent"
  <2>1. CASE \E i \in Items : Claim(i)
    BY <2>1 DEF Claim, TypeOK, Items
  <2>2. CASE Complete \/ Fail
    BY <2>2 DEF Complete, Fail, WorkerHasItem, TypeOK, WorkerState, Items
  <2>3. CASE UNCHANGED queue
    BY <2>3
  <2> QED
    BY <2>1, <2>2, <2>3 DEF WorkerStep, Create, ReadRun, Restore, Gate,
     Attempt, Park, SaveContinuation, Execute, SaveReceipt, SettleCall, Settle, Project,
     DeleteContinuation, Crash, Raise, Stop
<1> QED
  BY <1>1, <1>2, CardsLast DEF RequestsHaveCards

(* A request's own step leaves it and the others with their cards. *)
LEMMA RequestsKeepCards ==
    ASSUME IInv, NEW q \in Requests,
           \/ \E actor \in Actors, decision \in Decisions : ReadInbox(q, actor, decision)
           \/ RequestStep(q)
           \/ RequestStops(q)
    PROVE  RequestsHaveCards'
<1> USE DEF IInv
<1>1. \A r \in Requests \ {q} : request'[r] = request[r] /\ queue'[r] = queue[r]
  BY DEF RequestStep, ReadInbox, EditReads, EditSaves, Resolve, Enqueue, Drop, RequestStops,
     Request, TypeOK, Items
<1>2. \/ resolutions' = resolutions
      \/ \E s : resolutions' = Append(resolutions, s)
  BY DEF RequestStep, ReadInbox, EditReads, EditSaves, Resolve, Enqueue, Drop, RequestStops,
     journal
<1>3. HasCard(q)
  BY DEF RequestsHaveCards
<1>4. Decided(q) /\ request'[q].card = request[q].card => Decided(q)'
  BY <1>2, DecisionsStand DEF TypeOK
<1>5. ASSUME NEW actor \in Actors, NEW decision \in Decisions, ReadInbox(q, actor, decision)
      PROVE  HasCard(q)'
  <2>1. park.call \in Calls /\ Risky(park.call)
    BY <1>5 DEF ReadInbox, InInbox, ParksAreRisky
  <2>2. queue'[q] = "absent"
    BY <1>3, <1>5 DEF ReadInbox, HasCard, TypeOK, Items
  <2>3. request'[q].pc \in {"restoring", "resolving"} /\ request'[q].actor = actor
        /\ request'[q].decision = decision /\ request'[q].card = park.call
    BY <1>5 DEF ReadInbox, TypeOK
  <2> QED
    BY <2>1, <2>2, <2>3 DEF HasCard, Risky
<1>6. EditReads(q) => HasCard(q)'
  BY <1>3, <1>4 DEF EditReads, HasCard, Risky, TypeOK, RequestState
<1>7. EditSaves(q) \/ Drop(q) \/ RequestStops(q) => HasCard(q)'
  <2> SUFFICES ASSUME EditSaves(q) \/ Drop(q) \/ RequestStops(q) PROVE HasCard(q)'
    OBVIOUS
  <2>1. queue' = queue /\ \E pc \in {"resolving", "done", "stopped"} : Request(q, pc)
    BY DEF EditSaves, Drop, RequestStops
  <2>2. /\ request'[q].card = request[q].card /\ request'[q].decision = request[q].decision
        /\ request'[q].actor = request[q].actor
        /\ request'[q].pc \in {"resolving", "done", "stopped"}
    BY <2>1 DEF Request, TypeOK, RequestState
  <2>3. request[q].pc # "idle"
    BY DEF EditSaves, Drop, RequestStops
  <2> QED
    BY <1>3, <1>4, <2>1, <2>2, <2>3 DEF HasCard, Risky
<1>8. Resolve(q) => HasCard(q)'
  <2> SUFFICES ASSUME Resolve(q) PROVE HasCard(q)'
    OBVIOUS
  <2> DEFINE last == Len(resolutions) + 1
  <2>1. /\ request'[q].card = request[q].card /\ request'[q].decision = request[q].decision
        /\ request'[q].actor = request[q].actor /\ queue' = queue
        /\ request'[q].pc \in {"dropping", "enqueueing"}
        /\ request[q].decision = "reject" => request'[q].pc = "dropping"
    BY DEF Resolve, Request, TypeOK, RequestState
  <2>2. last \in DOMAIN resolutions' /\ resolutions'[last].card = request[q].card
        /\ resolutions'[last].decision = request[q].decision
    BY DEF Resolve, TypeOK
  <2>3. request'[q].decision # "reject" => Decided(q)'
    BY <2>1, <2>2 DEF Decided
  <2>4. request[q].pc = "resolving"
    BY DEF Resolve
  <2> QED
    BY <1>3, <2>1, <2>3, <2>4 DEF HasCard, Risky
<1>9. Enqueue(q) => HasCard(q)'
  BY <1>3, <1>4 DEF Enqueue, Request, HasCard, Risky, TypeOK, RequestState, Items
<1>10. HasCard(q)'
  BY <1>5, <1>6, <1>7, <1>8, <1>9 DEF RequestStep
<1> QED
  BY <1>1, <1>2, <1>10, CardsLast DEF RequestsHaveCards
(* The steps of a manager's request leave the worker alone. *)
LEMMA RequestsLeaveWorker ==
    ASSUME NEW q \in Requests,
           \/ \E actor \in Actors, decision \in Decisions : ReadInbox(q, actor, decision)
           \/ RequestStep(q)
           \/ RequestStops(q)
    PROVE  /\ UNCHANGED <<worker, park, runSettled, projected, attempted, effects, callSettled>>
           /\ queue' = queue \/ queue' = [queue EXCEPT ![q] = "pending"]
BY DEF RequestStep, ReadInbox, EditReads, EditSaves, Resolve, Enqueue, Drop, RequestStops, journal

(* What the worker knows of its call when it goes on to the next one. *)
LEMMA NextCallIsReady ==
    ASSUME TypeOK, worker.call \in Calls, NextCall(worker.call)
    PROVE  /\ worker'.item = worker.item
           /\ \/ /\ worker'.pc = "gate" /\ worker'.call = worker.call + 1
                 /\ worker'.call \in Calls /\ worker'.args = "proposed"
                 /\ worker'.ring = InstanceRing
              \/ worker'.pc = "settle" /\ worker.call = NCalls
<1> DEFINE next == worker.call + 1
<1>1. CASE worker.call = NCalls
  <2>1. worker' = [worker EXCEPT !.pc = "settle"]
    BY <1>1 DEF NextCall
  <2> QED
    BY <1>1, <2>1 DEF TypeOK, WorkerState
<1>2. CASE worker.call # NCalls
  <2>1. next \in Calls
    BY <1>2, RunAssumption DEF Calls
  <2>2. worker' = [worker EXCEPT !.pc = "gate", !.call = next,
                       !.args = "proposed", !.ring = InstanceRing]
    BY <1>2 DEF NextCall
  <2> HIDE DEF next
  <2>3. worker'.item = worker.item /\ worker'.pc = "gate" /\ worker'.call = next
        /\ worker'.args = "proposed" /\ worker'.ring = InstanceRing
    BY <2>2 DEF TypeOK, WorkerState
  <2> QED
    BY <2>1, <2>3 DEF next
<1> QED
  BY <1>1, <1>2

(* The worker's claim, park and ring stay in step with what it is driving. *)
LEMMA WorkerKeepsItem ==
    ASSUME IInv, Next
    PROVE  WorkerHasItem'
<1> USE DEF IInv
<1>1. CASE \E q \in Requests :
             \/ \E actor \in Actors, decision \in Decisions : ReadInbox(q, actor, decision)
             \/ RequestStep(q)
             \/ RequestStops(q)
  <2>1. UNCHANGED <<worker, park, runSettled, projected>>
    BY <1>1, RequestsLeaveWorker
  <2>2. worker.item \in Items
    BY DEF TypeOK, WorkerState
  <2>3. queue[worker.item] # "absent" => queue'[worker.item] # "absent"
    BY <1>1, <2>2, RequestsLeaveWorker DEF TypeOK, Items
  <2> QED
    BY <2>1, <2>3 DEF WorkerHasItem, RingAllows
<1>2. CASE Complete \/ Fail \/ Stop
  BY <1>2 DEF Complete, Fail, Stop, WorkerHasItem, IdleWorker, Driving
<1>3. CASE \E i \in Items : Claim(i)
  <2> PICK i \in Items : Claim(i)
    BY <1>3
  <2>1. worker'.item = i /\ worker'.pc = IF i = NoRequest THEN "create" ELSE "resume"
    BY DEF Claim, IdleWorker
  <2>2. queue'[i] = "claimed"
    BY DEF Claim, TypeOK
  <2> QED
    BY <2>1, <2>2 DEF WorkerHasItem, Items, Driving
<1>4. CASE Create
  BY SMTT(60), <1>4, RunAssumption DEF Create, WorkerHasItem, TypeOK, WorkerState, Driving, Calls, NoArgs
<1>5. CASE ReadRun
  <2>1. PICK pc \in {"failing", "restore"} :
           Worker(pc) /\ (pc = "restore" => park # NoPark)
    BY <1>5 DEF ReadRun
  <2>2. worker'.item = worker.item /\ worker'.pc = pc
    BY <2>1 DEF Worker, TypeOK, WorkerState
  <2> QED
    BY <1>5, <2>1, <2>2 DEF ReadRun, WorkerHasItem, Driving, journal
<1>6. CASE Restore
  <2>1. CASE continuation = NoCall
    BY <1>6, <2>1 DEF Restore, Worker, WorkerHasItem, Driving, TypeOK, WorkerState
  <2>2. CASE continuation # NoCall
    <3>1. continuation.call \in Calls /\ continuation.args # NoArgs /\ park.ring > InstanceRing
          /\ park.ring \in Nat
      BY <1>6, <2>2 DEF Restore, TypeOK, Call, Args, NoArgs, WorkerHasItem, ParksAreRisky
    <3>2. worker'.item = worker.item /\ worker'.pc = "gate" /\ worker'.call = continuation.call
          /\ worker'.args = continuation.args /\ worker'.ring = park.ring
      BY <1>6, <2>2 DEF Restore, TypeOK, WorkerState
    <3>3. worker.item \in Requests /\ worker.item # NoRequest /\ queue' = queue
          /\ queue[worker.item] # "absent" /\ InstanceRing \in Nat
      BY <1>6, RunAssumption DEF Restore, WorkerHasItem
    <3> QED
      BY <3>1, <3>2, <3>3 DEF WorkerHasItem, Driving
  <2> QED
    BY <2>1, <2>2
<1>7. CASE Gate
  <2>1. worker.call \in Calls /\ worker.ring >= InstanceRing /\ queue' = queue
        /\ (worker.item = NoRequest => worker.ring = InstanceRing) /\ worker.args # NoArgs
    BY <1>7 DEF Gate, WorkerHasItem, Driving
  <2>2. Worker("failing") \/ Worker("settleCall") \/ Worker(Disposition)
        \/ Worker("attempt") \/ NextCall(worker.call)
    BY <1>7, <2>1 DEF Gate, TypeOK, Args, NoArgs
  <2>3. CASE NextCall(worker.call)
    BY <1>7, <2>1, <2>3, NextCallIsReady, RunAssumption DEF Gate, WorkerHasItem, Driving, NoArgs
  <2>4. CASE Worker(Disposition)
    BY <1>7, <2>1, <2>4 DEF Gate, Worker, Disposition, RingAllows, WorkerHasItem, Driving, TypeOK, WorkerState
  <2>5. CASE Worker("failing") \/ Worker("settleCall") \/ Worker("attempt")
    BY <1>7, <2>1, <2>5 DEF Gate, Worker, WorkerHasItem, Driving, TypeOK, WorkerState
  <2> QED
    BY <2>2, <2>3, <2>4, <2>5
<1>8. CASE Attempt
  BY <1>8 DEF Attempt, Worker, Disposition, RingAllows, WorkerHasItem, Driving, TypeOK, WorkerState
<1>9. CASE Park \/ SaveContinuation \/ Execute \/ SaveReceipt
  BY <1>9 DEF Park, SaveContinuation, Execute, SaveReceipt, Worker, WorkerHasItem, Driving,
     TypeOK, WorkerState, NoPark, journal
<1>10. CASE SettleCall
  <2>1. worker.call \in Calls /\ queue' = queue /\ queue[worker.item] # "absent"
    BY <1>10 DEF SettleCall, WorkerHasItem, Driving
  <2> QED
    BY <1>10, <2>1, NextCallIsReady, RunAssumption DEF SettleCall, WorkerHasItem, Driving, NoArgs
<1>11. CASE Settle \/ Crash \/ Raise
  <2>1. PICK pc \in {"project", "completing", "failing"} :
           Worker(pc) /\ (pc = "project" => runSettled' = runSettled + 1 /\ projected' = projected)
    BY <1>11 DEF Settle, Crash, Raise
  <2>2. worker'.item = worker.item /\ worker'.pc = pc
    BY <2>1 DEF Worker, TypeOK, WorkerState
  <2>3. queue' = queue /\ worker.pc # "idle"
    BY <1>11 DEF Settle, Crash, Raise, Running
  <2>4. pc = "project" => projected' < runSettled'
    BY <2>1 DEF TypeOK
  <2> QED
    BY <2>2, <2>3, <2>4 DEF WorkerHasItem, Driving
<1>12. CASE Project \/ DeleteContinuation
  <2>1. PICK pc \in {"delete", "completing", "failing"} : Worker(pc)
    BY <1>12 DEF Project, DeleteContinuation
  <2>2. worker'.item = worker.item /\ worker'.pc = pc
    BY <2>1 DEF Worker, TypeOK, WorkerState
  <2>3. queue' = queue /\ worker.pc # "idle"
    BY <1>12 DEF Project, DeleteContinuation
  <2> QED
    BY <2>2, <2>3 DEF WorkerHasItem, Driving
<1> QED
  BY <1>1, <1>2, <1>3, <1>4, <1>5, <1>6, <1>7, <1>8, <1>9, <1>10, <1>11, <1>12
     DEF Next, WorkerStep

(* The calls before the worker's, the continuation's and an edit's copy are
   settled, and so are all of a settled run. *)
LEMMA CallsStayInOrder ==
    ASSUME IInv, Next
    PROVE  CallsInOrder'
<1> USE DEF IInv
<1> DEFINE Settled(k) == \A j \in Calls : j < k => j \in callSettled'
<1>1. callSettled \subseteq callSettled'
  BY DEF Next, WorkerStep, RequestStep, Claim, Complete, Fail, Create, ReadRun, Restore, Gate,
     Attempt, Park, SaveContinuation, Execute, SaveReceipt, SettleCall, Settle, Project,
     DeleteContinuation, Crash, Raise, Stop, ReadInbox, EditReads, EditSaves, Resolve,
     Enqueue, Drop, RequestStops, journal
<1>2. \A k : DoneBefore(k) => Settled(k)
  BY <1>1 DEF DoneBefore
<1> HIDE DEF Settled
<1>3. runSettled' > 0 => Settled(NCalls + 1)
  <2>1. CASE Settle
    BY <2>1, <1>2 DEF Settle, CallsInOrder
  <2>2. CASE UNCHANGED runSettled
    BY <2>2, <1>2 DEF CallsInOrder
  <2> QED
    BY <2>1, <2>2 DEF Next, WorkerStep, RequestStep, Claim, Complete, Fail, Create, ReadRun,
     Restore, Gate, Attempt, Park, SaveContinuation, Execute, SaveReceipt, SettleCall, Project,
     DeleteContinuation, Crash, Raise, Stop, ReadInbox, EditReads, EditSaves, Resolve,
     Enqueue, Drop, RequestStops, journal
<1>4. continuation' # NoCall => Settled(continuation'.call)
  <2>1. CASE SaveContinuation
    BY <2>1, <1>2 DEF SaveContinuation, CallsInOrder, Driving
  <2>2. ASSUME NEW q \in Requests, EditSaves(q)
        PROVE  Settled(continuation'.call)
    <3>1. request[q].copy # NoCall /\ continuation'.call = request[q].copy.call
      BY <2>2 DEF EditSaves, RequestsHaveCards, HasCard, TypeOK, RequestState, Call
    <3> QED
      BY <3>1, <1>2 DEF CallsInOrder
  <2>3. CASE continuation' \in {continuation, NoCall}
    BY <2>3, <1>2 DEF CallsInOrder
  <2> QED
    BY <2>1, <2>2, <2>3 DEF Next, WorkerStep, RequestStep, Claim, Complete, Fail, Create, ReadRun,
     Restore, Gate, Attempt, Park, Execute, SaveReceipt, SettleCall, Settle, Project,
     DeleteContinuation, Crash, Raise, Stop, ReadInbox, EditReads, Resolve,
     Enqueue, Drop, RequestStops
<1>5. \A q \in Requests : request'[q].copy # NoCall => Settled(request'[q].copy.call)
  <2> SUFFICES ASSUME NEW q \in Requests, request'[q].copy # NoCall
               PROVE  Settled(request'[q].copy.call)
    OBVIOUS
  <2>1. request'[q].copy \in {NoCall, continuation, request[q].copy}
    <3>1. CASE UNCHANGED request
      BY <3>1
    <3>2. ASSUME NEW r \in Requests,
                 \/ \E actor \in Actors, decision \in Decisions : ReadInbox(r, actor, decision)
                 \/ RequestStep(r)
                 \/ RequestStops(r)
          PROVE  request'[q].copy \in {NoCall, continuation, request[q].copy}
      <4>1. CASE q # r
        BY <3>2, <4>1 DEF RequestStep, ReadInbox, EditReads, EditSaves, Resolve, Enqueue, Drop,
           RequestStops, Request, TypeOK
      <4>2. CASE q = r /\ EditReads(r)
        BY <4>2 DEF EditReads, TypeOK, RequestState
      <4>3. CASE q = r /\ \E actor \in Actors, decision \in Decisions : ReadInbox(r, actor, decision)
        BY <4>3 DEF ReadInbox, TypeOK
      <4>4. CASE q = r /\ \E pc : Request(r, pc)
        BY <4>4 DEF Request, TypeOK, RequestState
      <4> QED
        BY <3>2, <4>1, <4>2, <4>3, <4>4 DEF RequestStep, EditSaves, Resolve, Enqueue, Drop,
           RequestStops
    <3> QED
      BY <3>1, <3>2 DEF Next, WorkerStep, Claim, Complete, Fail, Create, ReadRun,
       Restore, Gate, Attempt, Park, SaveContinuation, Execute, SaveReceipt, SettleCall, Settle,
       Project, DeleteContinuation, Crash, Raise, Stop
  <2> QED
    BY <2>1, <1>2 DEF CallsInOrder
<1>6. /\ worker'.pc \in Driving => Settled(worker'.call)
      /\ worker'.pc = "settle" => Settled(NCalls + 1)
  <2>1. CASE UNCHANGED worker
    BY <2>1, <1>2 DEF CallsInOrder
  <2>2. CASE (\E i \in Items : Claim(i)) \/ Complete \/ Fail \/ Stop
    <3>1. worker'.pc \in {"create", "resume", "idle"}
      <4>1. CASE \E i \in Items : Claim(i)
        <5> PICK i \in Items : Claim(i)
          BY <4>1
        <5>1. worker'.pc = IF i = NoRequest THEN "create" ELSE "resume"
          BY DEF Claim, IdleWorker
        <5> QED
          BY <5>1
      <4> QED
        BY <2>2, <4>1 DEF Complete, Fail, Stop, IdleWorker
    <3> QED
      BY <3>1 DEF Driving
  <2>3. CASE Create
    BY <2>3 DEF Create, TypeOK, WorkerState, Settled, Calls
  <2>4. CASE ReadRun
    <3>1. PICK pc \in {"failing", "restore"} : Worker(pc)
      BY <2>4 DEF ReadRun
    <3> QED
      BY <3>1 DEF Worker, TypeOK, WorkerState, Driving
  <2>5. CASE Restore
    <3>1. CASE continuation = NoCall
      BY <2>5, <3>1 DEF Restore, Worker, Driving, TypeOK, WorkerState
    <3>2. CASE continuation # NoCall
      <4>1. worker'.pc = "gate" /\ worker'.call = continuation.call
        BY <2>5, <3>2 DEF Restore, TypeOK, WorkerState
      <4> QED
        BY <3>2, <4>1, <1>2 DEF CallsInOrder
    <3> QED
      BY <3>1, <3>2
  <2>6. ASSUME NextCall(worker.call), worker.call \in Calls,
               worker.call \in callSettled', Settled(worker.call)
        PROVE  /\ worker'.pc \in Driving => Settled(worker'.call)
               /\ worker'.pc = "settle" => Settled(NCalls + 1)
    <3>1. Settled(worker.call + 1)
      BY <2>6, RunAssumption DEF Settled, Calls
    <3> QED
      BY <2>6, <3>1, NextCallIsReady DEF Driving
  <2>7. CASE Gate
    <3>1. worker.call \in Calls /\ DoneBefore(worker.call)
      BY <2>7 DEF Gate, WorkerHasItem, CallsInOrder, Driving
    <3>2. \/ Worker("failing") \/ Worker("settleCall") \/ Worker(Disposition)
          \/ Worker("attempt")
          \/ NextCall(worker.call) /\ worker.call \in callSettled
      <4>1. receipted[worker.call] \in Args \cup {NoArgs}
            /\ attempted[worker.call] \in Args \cup {NoArgs}
            /\ worker.args # NoArgs
        BY <2>7, <3>1 DEF TypeOK, Gate, WorkerHasItem, Driving
      <4>2. CASE receipted[worker.call] = worker.args
        BY <2>7, <4>1, <4>2 DEF Gate
      <4>3. CASE receipted[worker.call] # worker.args
        BY <2>7, <4>1, <4>3 DEF Gate
      <4> QED
        BY <4>2, <4>3
    <3>3. CASE NextCall(worker.call) /\ worker.call \in callSettled
      BY <2>6, <3>1, <3>3, <1>1, <1>2
    <3>4. CASE Worker(Disposition)
      BY <3>1, <3>4, <1>2 DEF Worker, Disposition, TypeOK, WorkerState
    <3>5. CASE Worker("failing") \/ Worker("settleCall") \/ Worker("attempt")
      BY <3>1, <3>5, <1>2 DEF Worker, TypeOK, WorkerState
    <3> QED
      BY <3>2, <3>3, <3>4, <3>5
  <2>8. CASE Attempt \/ Park \/ Execute \/ SaveReceipt
    <3>1. PICK pc \in Driving : worker.pc \in Driving /\ Worker(pc)
      BY <2>8 DEF Attempt, Park, Execute, SaveReceipt, Disposition, Driving
    <3>2. worker'.call = worker.call /\ worker'.pc # "settle"
      BY <3>1 DEF Worker, TypeOK, WorkerState, Driving
    <3> QED
      BY <3>1, <3>2, <1>2 DEF CallsInOrder
  <2>9. CASE SettleCall
    <3>1. worker.call \in Calls /\ DoneBefore(worker.call) /\ worker.call \in callSettled'
          /\ NextCall(worker.call)
      BY <2>9 DEF SettleCall, WorkerHasItem, CallsInOrder, Driving
    <3> QED
      BY <2>6, <3>1, <1>2
  <2>10. CASE SaveContinuation \/ Settle \/ Project \/ DeleteContinuation \/ Crash \/ Raise
    <3>1. PICK pc \in {"project", "delete", "completing", "failing"} : Worker(pc)
      BY <2>10 DEF SaveContinuation, Settle, Project, DeleteContinuation, Crash, Raise
    <3> QED
      BY <3>1 DEF Worker, TypeOK, WorkerState, Driving
  <2> QED
    BY <2>1, <2>2, <2>3, <2>4, <2>5, <2>7, <2>8, <2>9, <2>10, RequestsLeaveWorker
       DEF Next, WorkerStep
<1> QED
  BY <1>3, <1>4, <1>5, <1>6 DEF CallsInOrder, DoneBefore, Settled
(* What is attempted stays attempted, and is what lands. *)
LEMMA AttemptsStayAsTheyAre ==
    ASSUME IInv, Next
    PROVE  AttemptsStand'
<1> USE DEF IInv
<1>1. CASE Attempt
  <2> DEFINE k == worker.call
  <2>1. k \in Calls /\ attempted[k] = NoArgs /\ worker.args \in Args /\ NoArgs \notin Args
    BY <1>1 DEF Attempt, WorkerHasItem, AttemptsStand, Driving, TypeOK, WorkerState, Args, NoArgs
  <2>2. attempted' = [attempted EXCEPT ![k] = worker.args] /\ effects' = effects
    BY <1>1 DEF Attempt
  <2>3. worker'.pc # "attempt" /\ worker'.call = k /\ worker'.args = worker.args
    BY <1>1 DEF Attempt, Worker, Disposition, TypeOK, WorkerState
  <2>4. attempted'[k] = worker.args
    BY <2>1, <2>2 DEF TypeOK
  <2>5. \A n \in DOMAIN effects : attempted'[effects[n].call] = effects[n].args
    <3> TAKE n \in DOMAIN effects
    <3>1. effects[n] \in Call /\ attempted[effects[n].call] = effects[n].args
      BY DEF TypeOK, AttemptsStand
    <3>2. effects[n].call # k
      BY <2>1, <3>1 DEF Call
    <3> QED
      BY <2>2, <3>1, <3>2 DEF Call, TypeOK
  <2> QED
    BY <2>2, <2>3, <2>4, <2>5 DEF AttemptsStand
<1>2. CASE Execute
  <2>1. attempted' = attempted /\ attempted[worker.call] = worker.args
    BY <1>2 DEF Execute, AttemptsStand, journal
  <2>2. worker'.pc = "receipt"
    BY <1>2 DEF Execute, Worker, TypeOK, WorkerState
  <2>3. \A n \in DOMAIN effects' : attempted[effects'[n].call] = effects'[n].args
    BY <1>2, <2>1 DEF Execute, AttemptsStand, TypeOK
  <2> QED
    BY <2>1, <2>2, <2>3 DEF AttemptsStand
<1>3. CASE Gate
  <2>1. attempted' = attempted /\ effects' = effects /\ worker.call \in Calls
        /\ attempted[worker.call] \in Args \cup {NoArgs}
        /\ receipted[worker.call] \in Args \cup {NoArgs} /\ worker.args # NoArgs
    BY <1>3 DEF Gate, WorkerHasItem, Driving, TypeOK, journal
  <2>2. \/ Worker("failing") \/ Worker("settleCall") \/ NextCall(worker.call)
        \/ Worker(Disposition) /\ attempted[worker.call] = worker.args
        \/ Worker("attempt") /\ attempted[worker.call] = NoArgs
    <3>1. CASE receipted[worker.call] = worker.args
      BY <1>3, <2>1, <3>1 DEF Gate
    <3>2. CASE receipted[worker.call] # worker.args
      BY <1>3, <2>1, <3>2 DEF Gate
    <3> QED
      BY <3>1, <3>2
  <2>3. CASE NextCall(worker.call)
    BY <2>1, <2>3, NextCallIsReady DEF AttemptsStand
  <2>4. CASE Worker(Disposition) /\ attempted[worker.call] = worker.args
    BY <2>1, <2>4 DEF Worker, Disposition, AttemptsStand, TypeOK, WorkerState
  <2>5. CASE Worker("attempt") /\ attempted[worker.call] = NoArgs
    BY <2>1, <2>5 DEF Worker, AttemptsStand, TypeOK, WorkerState
  <2>6. CASE Worker("failing") \/ Worker("settleCall")
    BY <2>1, <2>6 DEF Worker, AttemptsStand, TypeOK, WorkerState
  <2> QED
    BY <2>2, <2>3, <2>4, <2>5, <2>6
<1>4. CASE SettleCall
  <2>1. worker.call \in Calls /\ NextCall(worker.call)
        /\ attempted' = attempted /\ effects' = effects
    BY <1>4 DEF SettleCall, WorkerHasItem, Driving
  <2> QED
    BY <2>1, NextCallIsReady DEF AttemptsStand
<1>5. CASE worker'.pc \notin {"attempt", "park", "execute"} /\ UNCHANGED <<attempted, effects>>
  BY <1>5 DEF AttemptsStand
<1>6. CASE UNCHANGED <<worker, attempted, effects>>
  BY <1>6 DEF AttemptsStand
<1>7. CASE (\E i \in Items : Claim(i)) \/ Complete \/ Fail \/ Stop
  <2>1. CASE \E i \in Items : Claim(i)
    <3> PICK i \in Items : Claim(i)
      BY <2>1
    <3>1. worker'.pc = IF i = NoRequest THEN "create" ELSE "resume"
      BY DEF Claim, IdleWorker
    <3> QED
      BY <1>5, <3>1 DEF Claim, journal
  <2>2. CASE Complete \/ Fail \/ Stop
    BY <1>5, <2>2 DEF Complete, Fail, Stop, IdleWorker, journal
  <2> QED
    BY <1>7, <2>1, <2>2
<1>8. CASE Create
  BY <1>5, <1>8 DEF Create, TypeOK, WorkerState
<1>9. CASE Restore
  <2>1. worker'.pc \in {"failing", "gate"}
    BY <1>9 DEF Restore, Worker, TypeOK, WorkerState
  <2> QED
    BY <1>5, <1>9, <2>1 DEF Restore, journal
<1>10. CASE ReadRun \/ Park \/ SaveContinuation \/ SaveReceipt \/ Settle \/ Project
            \/ DeleteContinuation \/ Crash \/ Raise
  <2>1. PICK pc \in {"failing", "restore", "save", "completing", "settleCall", "project", "delete"} :
           Worker(pc)
    BY <1>10 DEF ReadRun, Park, SaveContinuation, SaveReceipt, Settle, Project,
       DeleteContinuation, Crash, Raise
  <2>2. worker'.pc = pc
    BY <2>1 DEF Worker, TypeOK, WorkerState
  <2> QED
    BY <1>5, <1>10, <2>2 DEF ReadRun, Park, SaveContinuation, SaveReceipt, Settle, Project,
       DeleteContinuation, Crash, Raise, journal
<1> QED
  BY <1>1, <1>2, <1>3, <1>4, <1>6, <1>7, <1>8, <1>9, <1>10, RequestsLeaveWorker
     DEF Next, WorkerStep

(* The invariant is inductive. *)
LEMMA NextKeepsInv == IInv /\ [Next]_vars => IInv'
<1> SUFFICES ASSUME IInv, [Next]_vars PROVE IInv'
  OBVIOUS
<1>1. CASE Next
  <2>1. TypeOK' /\ RequestsHaveCards'
    BY <1>1, WorkerKeepsTypes, BreaksKeepTypes, RequestsKeepTypes, OthersKeepCards,
       RequestsKeepCards DEF Next
  <2> QED
    BY <1>1, <2>1, ParksStayRisky, WorkerKeepsItem, CallsStayInOrder, AttemptsStayAsTheyAre DEF IInv
<1>2. CASE UNCHANGED vars
  BY <1>2 DEF vars, IInv, TypeOK, ParksAreRisky, RequestsHaveCards, HasCard, Decided,
     WorkerHasItem, RingAllows, CallsInOrder, DoneBefore, AttemptsStand
<1> QED
  BY <1>1, <1>2

(* Every behaviour keeps it. *)
LEMMA Invariance == Spec => []IInv
BY InitInv, NextKeepsInv, PTL DEF Spec

(* The journal's reading of a run, its documents, the rows of its queue and the
   requests about it are always of their types. *)
THEOREM TypeCorrect == Spec => []TypeOK
<1>1. IInv => TypeOK
  BY DEF IInv
<1> QED
  BY <1>1, Invariance, PTL

(* A run settles once every syscall of it settled, and what landed is what was
   journaled as attempted (SettlementCommitter.commit after the gateway). *)
THEOREM SettlementIsComplete == Spec => []SettledRunIsComplete
<1>1. IInv => SettledRunIsComplete
  <2> SUFFICES ASSUME IInv, runSettled > 0, NEW k \in Calls
               PROVE  k \in callSettled /\ \A n \in EffectsOf(k) : effects[n].args = attempted[k]
    BY DEF SettledRunIsComplete
  <2>1. k < NCalls + 1
    BY RunAssumption DEF Calls
  <2>2. k \in callSettled
    BY <2>1 DEF IInv, CallsInOrder, DoneBefore
  <2>3. \A n \in EffectsOf(k) : effects[n].args = attempted[k]
    BY DEF IInv, AttemptsStand, EffectsOf
  <2> QED
    BY <2>2, <2>3
<1> QED
  BY <1>1, Invariance, PTL

(* The worker executes a risky call for a decision about that very card. *)
LEMMA RiskIsGranted ==
    ASSUME OneRisky, IInv, Execute, Risky(worker.call)
    PROVE  \E q \in Requests : /\ request[q].card = worker.call
                              /\ request[q].decision # "reject" /\ Decided(q)
<1> DEFINE q == worker.item
<1>1. worker.call \in Calls /\ worker.ring >= RequiredRing[worker.call] /\ worker.ring \in Nat
      /\ queue[q] # "absent" /\ q \in Items /\ (q = NoRequest => worker.ring = InstanceRing)
  BY DEF IInv, Execute, WorkerHasItem, RingAllows, Driving, TypeOK, WorkerState
<1>2. q \in Requests
  BY <1>1, RunAssumption DEF Risky, Items
<1>3. request[q].card \in Calls /\ Risky(request[q].card)
      /\ request[q].decision # "reject" /\ Decided(q)
  BY <1>1, <1>2 DEF IInv, RequestsHaveCards, HasCard
<1>4. request[q].card = worker.call
  BY <1>1, <1>3 DEF OneRisky
<1> QED
  BY <1>2, <1>3, <1>4

(* When an instance's harness makes one risky call, its effect lands only after
   a manager approved the card that showed it (HumanApprovalGate, Gateway). *)
THEOREM RiskIsApproved == ASSUME OneRisky PROVE Spec => []EffectNeedsApproval
<1>1. Init => EffectNeedsApproval
  BY DEF Init, EffectNeedsApproval
<1>2. ASSUME IInv, EffectNeedsApproval, [Next]_vars
      PROVE  EffectNeedsApproval'
  <2>1. CASE Execute
    <3> DEFINE landed == [call |-> worker.call, args |-> worker.args]
    <3>1. effects' = Append(effects, landed) /\ resolutions' = resolutions
      BY <2>1 DEF Execute, journal
    <3>2. Risky(worker.call) =>
             \E m \in DOMAIN resolutions : resolutions[m].card = worker.call
                                           /\ resolutions[m].decision # "reject"
      BY <1>2, <2>1, RiskIsGranted DEF Decided
    <3>3. \A n \in DOMAIN effects' : \/ n \in DOMAIN effects /\ effects'[n] = effects[n]
                                    \/ effects'[n] = landed
      BY <1>2, <3>1 DEF IInv, TypeOK
    <3> QED
      BY <1>2, <3>1, <3>2, <3>3 DEF EffectNeedsApproval, Risky
  <2>2. CASE UNCHANGED effects
    <3>1. ASSUME NEW m \in DOMAIN resolutions
          PROVE  m \in DOMAIN resolutions' /\ resolutions'[m] = resolutions[m]
      <4>1. resolutions' = resolutions \/ \E s : resolutions' = Append(resolutions, s)
        BY <1>2 DEF Next, WorkerStep, RequestStep, Claim, Complete, Fail, Create, ReadRun, Restore,
         Gate, Attempt, Park, SaveContinuation, Execute, SaveReceipt, SettleCall, Settle, Project,
         DeleteContinuation, Crash, Raise, Stop, ReadInbox, EditReads, EditSaves, Resolve,
         Enqueue, Drop, RequestStops, journal, vars
      <4>2. CASE \E s : resolutions' = Append(resolutions, s)
        <5> PICK s : resolutions' = Append(resolutions, s)
          BY <4>2
        <5>1. resolutions \in Seq([actor : Actors, decision : Decisions, card : Calls])
          BY <1>2 DEF IInv, TypeOK
        <5> QED
          BY <3>1, <5>1
      <4> QED
        BY <3>1, <4>1, <4>2
    <3> QED
      BY <1>2, <2>2, <3>1 DEF EffectNeedsApproval, Risky
  <2> QED
    BY <1>2, <2>1, <2>2 DEF Next, WorkerStep, RequestStep, Claim, Complete, Fail, Create, ReadRun,
     Restore, Gate, Attempt, Park, SaveContinuation, SaveReceipt, SettleCall, Settle, Project,
     DeleteContinuation, Crash, Raise, Stop, ReadInbox, EditReads, EditSaves, Resolve,
     Enqueue, Drop, RequestStops, vars
<1>3. IInv /\ EffectNeedsApproval /\ [Next]_vars => EffectNeedsApproval'
  BY <1>2
<1> QED
  BY <1>1, <1>3, Invariance, PTL DEF Spec

(* When an instance's harness makes one risky call, the reject of a card nobody
   granted is the last word on it (KernelControl.resolve_approval, RunLoop.resume). *)
THEOREM RejectsAreFinal == ASSUME OneRisky PROVE Spec => RejectIsFinal
<1> DEFINE Rejected(q) == /\ request[q].pc = "done" /\ request[q].decision = "reject"
                          /\ ~Granted(request[q].card)
<1>1. ASSUME IInv, [Next]_vars, NEW q \in Requests, Rejected(q)
      PROVE  EffectsOf(request[q].card)' = EffectsOf(request[q].card)
  <2>1. request[q].card \in Calls /\ Risky(request[q].card)
    BY <1>1 DEF IInv, RequestsHaveCards, HasCard
  <2>2. request'[q].card = request[q].card
    BY <1>1 DEF Next, WorkerStep, RequestStep, Claim, Complete, Fail, Create, ReadRun,
     Restore, Gate, Attempt, Park, SaveContinuation, Execute, SaveReceipt, SettleCall, Settle,
     Project, DeleteContinuation, Crash, Raise, Stop, ReadInbox, EditReads, EditSaves, Resolve,
     Enqueue, Drop, RequestStops, Request, IInv, TypeOK, vars
  <2>3. CASE Execute
    <3>1. worker.call # request[q].card
      BY <1>1, <2>1, <2>3, RiskIsGranted DEF Granted
    <3>2. effects \in Seq(Call)
          /\ effects' = Append(effects, [call |-> worker.call, args |-> worker.args])
      BY <1>1, <2>3 DEF Execute, IInv, TypeOK
    <3>3. \A n : n \in DOMAIN effects' /\ effects'[n].call = request[q].card
                <=> n \in DOMAIN effects /\ effects[n].call = request[q].card
      BY <3>1, <3>2
    <3> QED
      BY <2>2, <3>3 DEF EffectsOf
  <2>4. CASE UNCHANGED effects
    BY <2>2, <2>4 DEF EffectsOf
  <2> QED
    BY <1>1, <2>3, <2>4 DEF Next, WorkerStep, RequestStep, Claim, Complete, Fail, Create, ReadRun,
     Restore, Gate, Attempt, Park, SaveContinuation, SaveReceipt, SettleCall, Settle, Project,
     DeleteContinuation, Crash, Raise, Stop, ReadInbox, EditReads, EditSaves, Resolve,
     Enqueue, Drop, RequestStops, vars
<1>2. IInv /\ [Next]_vars =>
         [\A q \in Requests :
             (request[q].pc = "done" /\ request[q].decision = "reject"
                /\ ~Granted(request[q].card))
                => EffectsOf(request[q].card)' = EffectsOf(request[q].card)]_vars
  BY <1>1
<1> QED
  BY <1>2, Invariance, PTL DEF Spec, RejectIsFinal

-----------------------------------------------------------------------------
(* The continuation of an undisturbed run. *)

(* The worker in another place is the same invocation. *)
LEMMA WorkerStays ==
    ASSUME TypeOK, NEW pc \in WorkerPcs, Worker(pc)
    PROVE  /\ worker'.pc = pc /\ worker'.item = worker.item /\ worker'.call = worker.call
           /\ worker'.args = worker.args /\ worker'.ring = worker.ring
BY DEF TypeOK, WorkerState, Worker

LEMMA WorkerPlaces ==
    {"completing", "failing", "restore", "settleCall", "execute", "park", "attempt", "save",
     "receipt", "project", "delete", "gate", "settle", "create", "resume", "idle"} \subseteq WorkerPcs
BY DEF WorkerPcs, Running

LEMMA NextCallArgs ==
    ASSUME TypeOK, worker.call \in Calls, NextCall(worker.call)
    PROVE  worker'.args \in {worker.args, "proposed"}
<1> DEFINE next == worker.call + 1
<1>1. CASE worker.call = NCalls
  BY <1>1 DEF NextCall, TypeOK, WorkerState
<1>2. CASE worker.call # NCalls
  <2>1. worker' = [worker EXCEPT !.pc = "gate", !.call = next, !.args = "proposed",
                      !.ring = InstanceRing]
    BY <1>2 DEF NextCall
  <2> HIDE DEF next
  <2> QED
    BY <2>1 DEF TypeOK, WorkerState
<1> QED
  BY <1>1, <1>2

(* A request in another place is the same request. *)
LEMMA RequestStays ==
    ASSUME TypeOK, NEW q \in Requests, NEW pc \in RequestPcs, Request(q, pc)
    PROVE  /\ request'[q].pc = pc /\ request'[q].decision = request[q].decision
           /\ \A r \in Requests \ {q} : request'[r] = request[r]
BY DEF TypeOK, RequestState, Request

(* A request that was made is about a park, and keeps what it asks for. *)
LEMMA RequestsInPlace ==
    ASSUME IInv, QuietInv, NEW q \in Requests,
           \/ \E actor \in Actors, decision \in Decisions : ReadInbox(q, actor, decision)
           \/ RequestStep(q)
           \/ RequestStops(q)
    PROVE  /\ park # NoPark /\ UNCHANGED <<park, worker>>
           /\ \A r \in Requests \ {q} : request'[r] = request[r]
           /\ request[q].decision = "edit" => request'[q].decision = "edit"
           /\ request'[q].pc # "idle"
           /\ request'[q].pc \in {"restoring", "saving"} => request'[q].decision = "edit"
<1> USE DEF IInv
<1>0. {"resolving", "saving", "enqueueing", "dropping", "done", "stopped", "restoring"}
         \subseteq RequestPcs
  BY DEF RequestPcs
<1>1. UNCHANGED <<park, worker>>
  BY RequestsLeaveWorker
<1>2. CASE \E actor \in Actors, decision \in Decisions : ReadInbox(q, actor, decision)
  <2> PICK actor \in Actors, decision \in Decisions : ReadInbox(q, actor, decision)
    BY <1>2
  <2>1. /\ request[q].pc = "idle" /\ park # NoPark
        /\ request' = [request EXCEPT ![q] =
                     [pc |-> IF decision = "edit" THEN "restoring" ELSE "resolving",
                      actor |-> actor, decision |-> decision, card |-> park.call,
                      copy |-> NoCall]]
    BY DEF ReadInbox, InInbox
  <2>2. request[q].decision = "none"
    BY <2>1 DEF QuietInv
  <2>3. /\ request'[q].pc = (IF decision = "edit" THEN "restoring" ELSE "resolving")
        /\ request'[q].decision = decision
        /\ \A r \in Requests \ {q} : request'[r] = request[r]
    BY <2>1 DEF TypeOK
  <2> QED
    BY <1>1, <2>1, <2>2, <2>3
<1>3. CASE RequestStep(q) \/ RequestStops(q)
  <2>1. request[q].pc # "idle"
    BY <1>3 DEF RequestStep, EditReads, EditSaves, Resolve, Enqueue, Drop, RequestStops
  <2>2. park # NoPark
    BY <2>1 DEF QuietInv
  <2>3. CASE EditReads(q)
    <3>1. /\ request[q].pc = "restoring"
          /\ request' = [request EXCEPT ![q].copy = continuation,
                     ![q].pc = IF continuation = NoCall THEN "resolving" ELSE "saving"]
      BY <2>3 DEF EditReads
    <3>2. request[q].decision = "edit"
      BY <3>1 DEF QuietInv
    <3>3. request[q] \in RequestState /\ request \in [Requests -> RequestState]
      BY DEF TypeOK
    <3>4. /\ request'[q].pc \in {"resolving", "saving"}
          /\ request'[q].decision = request[q].decision
          /\ \A r \in Requests \ {q} : request'[r] = request[r]
      BY <3>1, <3>3 DEF RequestState
    <3> QED
      BY <1>1, <2>2, <3>2, <3>4
  <2>4. CASE EditSaves(q) \/ Resolve(q) \/ Enqueue(q) \/ Drop(q) \/ RequestStops(q)
    <3>1. \E pc \in {"resolving", "enqueueing", "dropping", "done", "stopped"} : Request(q, pc)
      BY <2>4 DEF EditSaves, Resolve, Enqueue, Drop, RequestStops
    <3> QED
      BY <3>1, <1>0, <1>1, <2>2, RequestStays
  <2> QED
    BY <1>3, <2>3, <2>4 DEF RequestStep
<1> QED
  BY <1>2, <1>3

(* An undisturbed run was undisturbed before, and nothing disturbed it since. *)
LEMMA QuietBefore ==
    ASSUME IInv, QuietInv, Next, Quiet'
    PROVE  /\ Quiet /\ faults' = faults /\ stops' = stops
           /\ ~Crash /\ ~Raise /\ ~Stop /\ \A q \in Requests : ~RequestStops(q)
<1>1. faults' >= faults /\ stops' >= stops /\ faults \in Nat /\ stops \in Nat
  <2>1. faults \in Nat /\ stops \in Nat
    BY RunAssumption DEF IInv, TypeOK
  <2>2. faults' \in {faults, faults + 1} /\ stops' \in {stops, stops + 1}
    BY DEF Next, WorkerStep, RequestStep, Claim, Complete, Fail, Create, ReadRun,
       Restore, Gate, Attempt, Park, SaveContinuation, Execute, SaveReceipt, SettleCall, Settle,
       Project, DeleteContinuation, Crash, Raise, Stop, ReadInbox, EditReads, EditSaves, Resolve,
       Enqueue, Drop, RequestStops, bounds
  <2> QED
    BY <2>1, <2>2
<1>2. faults' = 0 /\ stops' = 0 /\ \A q \in Requests : request'[q].decision # "edit"
  BY DEF Quiet, NobodyEdits
<1>3. faults = 0 /\ stops = 0
  BY <1>1, <1>2
<1>4. ~Crash /\ ~Raise /\ ~Stop /\ \A q \in Requests : ~RequestStops(q)
  BY <1>2, <1>3 DEF Crash, Raise, Stop, RequestStops
<1>5. \A q \in Requests : request[q].decision = "edit" => request'[q].decision = "edit"
  <2>1. CASE \E q \in Requests :
               \/ \E actor \in Actors, decision \in Decisions : ReadInbox(q, actor, decision)
               \/ RequestStep(q)
               \/ RequestStops(q)
    BY <2>1, RequestsInPlace
  <2>2. CASE (\E i \in Items : Claim(i)) \/ WorkerStep \/ Crash \/ Raise \/ Stop
    <3>1. request' = request
      BY <2>2 DEF WorkerStep, Claim, Complete, Fail, Create, ReadRun, Restore, Gate,
     Attempt, Park, SaveContinuation, Execute, SaveReceipt, SettleCall, Settle, Project,
     DeleteContinuation, Crash, Raise, Stop
    <3> QED
      BY <3>1
  <2> QED
    BY <2>1, <2>2 DEF Next
<1> QED
  BY <1>2, <1>3, <1>4, <1>5 DEF Quiet, NobodyEdits

(* Nobody resolved the park: no item but the trigger's exists. *)
LEMMA OnlyTheTrigger ==
    ASSUME IInv, resolutions = <<>>
    PROVE  /\ \A q \in Requests : queue[q] = "absent"
           /\ worker.pc # "idle" => worker.item = NoRequest
<1>1. \A q \in Requests : queue[q] = "absent"
  BY DEF IInv, RequestsHaveCards, HasCard, Decided
<1>2. worker.item \in Items
  BY DEF IInv, TypeOK, WorkerState
<1> QED
  BY <1>1, <1>2 DEF IInv, WorkerHasItem, Items

(* Undisturbed, the gateway is never asked for other arguments. *)
LEMMA GateAgrees ==
    ASSUME IInv, AsProposed, Gate
    PROVE  /\ \/ Worker("attempt") \/ Worker(Disposition) \/ Worker("settleCall")
              \/ NextCall(worker.call)
           /\ worker.call \in Calls
<1>1. worker.call \in Calls /\ worker.args = "proposed"
  BY DEF Gate, IInv, WorkerHasItem, Driving, AsProposed
<1>2. attempted[worker.call] \in {NoArgs, "proposed"} /\ receipted[worker.call] \in {NoArgs, "proposed"}
  BY <1>1 DEF AsProposed
<1>3. NoArgs # "proposed"
  BY DEF NoArgs
<1> QED
  BY <1>1, <1>2, <1>3 DEF Gate

(* The arguments stay those the harness proposed. *)
LEMMA StaysAsProposed ==
    ASSUME IInv, QuietInv, Quiet, Next, ~Crash, ~Raise, ~Stop,
           \A q \in Requests : ~RequestStops(q)
    PROVE  AsProposed'
<1> USE DEF IInv
<1>0. AsProposed /\ IdleWorker.args = NoArgs /\ NoCall.args = NoArgs
  BY DEF QuietInv, IdleWorker, NoCall
<1>1. CASE \E q \in Requests :
             \/ \E actor \in Actors, decision \in Decisions : ReadInbox(q, actor, decision)
             \/ RequestStep(q)
  <2> PICK q \in Requests :
             \/ \E actor \in Actors, decision \in Decisions : ReadInbox(q, actor, decision)
             \/ RequestStep(q)
    BY <1>1
  <2>1. UNCHANGED <<worker, attempted>>
    BY RequestsLeaveWorker
  <2>2. receipted' = receipted
    BY DEF RequestStep, ReadInbox, EditReads, EditSaves, Resolve, Enqueue, Drop
  <2>3. ~EditSaves(q)
    BY DEF EditSaves, QuietInv, Quiet, NobodyEdits
  <2>4. continuation' \in {continuation, NoCall}
    BY <2>3 DEF RequestStep, ReadInbox, EditReads, Resolve, Enqueue, Drop
  <2> QED
    BY <2>1, <2>2, <2>4, <1>0 DEF AsProposed
<1>2. CASE \E i \in Items : Claim(i)
  BY <1>2, <1>0 DEF Claim, AsProposed, IdleWorker, journal
<1>3. CASE Complete \/ Fail
  BY <1>3, <1>0 DEF Complete, Fail, AsProposed, journal
<1>4. CASE Create
  <2>1. UNCHANGED <<attempted, receipted, continuation>> /\ worker'.args = "proposed"
    BY <1>4 DEF Create, TypeOK, WorkerState
  <2> QED
    BY <2>1, <1>0 DEF AsProposed
<1>5. CASE ReadRun \/ Park \/ Execute \/ Settle \/ Project
  <2>1. UNCHANGED <<attempted, receipted, continuation>> /\ worker'.args = worker.args
    BY <1>5, WorkerStays, WorkerPlaces
       DEF ReadRun, Park, Execute, Settle, Project, journal
  <2> QED
    BY <2>1, <1>0 DEF AsProposed
<1>6. CASE Restore
  <2>1. UNCHANGED <<attempted, receipted, continuation>>
    BY <1>6 DEF Restore, journal
  <2>2. worker'.args \in {worker.args, continuation.args}
    BY <1>6, WorkerStays, WorkerPlaces DEF Restore, TypeOK, WorkerState
  <2> QED
    BY <2>1, <2>2, <1>0 DEF AsProposed
<1>7. CASE Gate
  <2>1. UNCHANGED <<attempted, receipted, continuation>>
    BY <1>7 DEF Gate, journal
  <2>2. Disposition \in WorkerPcs
    BY WorkerPlaces DEF Disposition
  <2>3. worker'.args \in {worker.args, "proposed"}
    BY <1>0, <1>7, <2>2, GateAgrees, WorkerStays, WorkerPlaces, NextCallArgs
  <2> QED
    BY <2>1, <2>3, <1>0 DEF AsProposed
<1>8. CASE Attempt
  <2>1. UNCHANGED <<receipted, continuation>> /\ attempted' = [attempted EXCEPT ![worker.call] = worker.args]
    BY <1>8 DEF Attempt
  <2>2. worker'.args = worker.args
    BY <1>8, WorkerStays, WorkerPlaces DEF Attempt, Disposition
  <2>3. \A k \in Calls : attempted'[k] \in {attempted[k], worker.args}
    BY <2>1 DEF TypeOK
  <2> QED
    BY <2>1, <2>2, <2>3, <1>0 DEF AsProposed
<1>9. CASE SaveContinuation
  <2>1. UNCHANGED <<attempted, receipted>> /\ continuation'.args = worker.args
    BY <1>9 DEF SaveContinuation, journal
  <2>2. worker'.args = worker.args
    BY <1>9, WorkerStays, WorkerPlaces DEF SaveContinuation
  <2> QED
    BY <2>1, <2>2, <1>0 DEF AsProposed
<1>10. CASE SaveReceipt
  <2>1. /\ UNCHANGED <<attempted, continuation>>
        /\ receipted' = [receipted EXCEPT ![worker.call] = worker.args]
    BY <1>10 DEF SaveReceipt, journal
  <2>2. worker'.args = worker.args
    BY <1>10, WorkerStays, WorkerPlaces DEF SaveReceipt
  <2>3. \A k \in Calls : receipted'[k] \in {receipted[k], worker.args}
    BY <2>1 DEF TypeOK
  <2> QED
    BY <2>1, <2>2, <2>3, <1>0 DEF AsProposed
<1>11. CASE SettleCall
  <2>1. UNCHANGED <<attempted, receipted, continuation>>
    BY <1>11 DEF SettleCall
  <2>2. worker.call \in Calls
    BY <1>11 DEF SettleCall, WorkerHasItem, Driving
  <2>3. worker'.args \in {worker.args, "proposed"}
    BY <1>11, <2>2, NextCallArgs DEF SettleCall
  <2> QED
    BY <2>1, <2>3, <1>0 DEF AsProposed
<1>12. CASE DeleteContinuation
  <2>1. UNCHANGED <<attempted, receipted>> /\ continuation' = NoCall
    BY <1>12 DEF DeleteContinuation, journal
  <2>2. worker'.args = worker.args
    BY <1>12, WorkerStays, WorkerPlaces DEF DeleteContinuation
  <2> QED
    BY <2>1, <2>2, <1>0 DEF AsProposed
<1> QED
  BY <1>1, <1>2, <1>3, <1>4, <1>5, <1>6, <1>7, <1>8, <1>9, <1>10, <1>11, <1>12 DEF Next, WorkerStep

(* The trigger's item is not tried again. *)
LEMMA TriggerStaysOnce ==
    ASSUME IInv, QuietInv, Quiet, Quiet', Next, ~Crash, ~Raise, ~Stop,
           \A q \in Requests : ~RequestStops(q)
    PROVE  TriggerRunsOnce'
<1> USE DEF IInv
<1>0. AsProposed /\ TriggerRunsOnce /\ faults = 0 /\ faults' = 0
  BY DEF QuietInv, Quiet
<1>1. CASE \E q \in Requests :
             \/ \E actor \in Actors, decision \in Decisions : ReadInbox(q, actor, decision)
             \/ RequestStep(q)
  <2> PICK q \in Requests :
             \/ \E actor \in Actors, decision \in Decisions : ReadInbox(q, actor, decision)
             \/ RequestStep(q)
    BY <1>1
  <2>1. UNCHANGED <<worker, park, runSettled>>
    BY RequestsInPlace
       DEF RequestStep, ReadInbox, EditReads, EditSaves, Resolve, Enqueue, Drop, journal
  <2>2. queue' = queue \/ queue' = [queue EXCEPT ![q] = "pending"]
    BY DEF RequestStep, ReadInbox, EditReads, EditSaves, Resolve, Enqueue, Drop
  <2>3. q # NoRequest
    BY RunAssumption
  <2>4. queue'[NoRequest] = queue[NoRequest]
    <3>1. CASE queue' = [queue EXCEPT ![q] = "pending"]
      BY <2>3, <3>1 DEF TypeOK, Items
    <3> QED
      BY <2>2, <3>1
  <2> QED
    BY <2>1, <2>4, <1>0 DEF TriggerRunsOnce
<1>2. CASE \E i \in Items : Claim(i)
  <2> PICK i \in Items : Claim(i)
    BY <1>2
  <2>1. /\ worker'.pc \in {"create", "resume"} /\ queue[i] = "pending"
        /\ queue' = [queue EXCEPT ![i] = "claimed"]
    BY DEF Claim, IdleWorker
  <2>2. CASE i = NoRequest
    <3>1. queue'[NoRequest] = "claimed"
      BY <2>1, <2>2 DEF TypeOK
    <3> QED
      BY <2>1, <3>1 DEF TriggerRunsOnce
  <2>3. CASE i # NoRequest
    <3>1. i \in Requests
      BY <2>3 DEF Items
    <3>2. request[i].pc # "idle"
      BY <2>1, <3>1 DEF RequestsHaveCards, HasCard
    <3>3. park # NoPark
      BY <3>1, <3>2 DEF QuietInv
    <3>4. queue'[NoRequest] = queue[NoRequest]
      BY <2>1, <2>3 DEF TypeOK
    <3> QED
      BY <2>1, <3>3, <3>4, <1>0 DEF TriggerRunsOnce
  <2> QED
    BY <2>2, <2>3
<1>3. CASE Complete
  <2>1. queue' = [queue EXCEPT ![worker.item] = "completed"] /\ worker' = IdleWorker
        /\ worker.pc = "completing"
    BY <1>3 DEF Complete
  <2>2. queue[NoRequest] # "pending"
    BY <2>1, <1>0 DEF TriggerRunsOnce
  <2>3. queue'[NoRequest] # "pending"
    BY <2>1, <2>2 DEF TypeOK
  <2> QED
    BY <2>1, <2>3 DEF TriggerRunsOnce, IdleWorker
<1>4. CASE Fail
  <2>1. queue' = [queue EXCEPT ![worker.item] = "pending"] /\ worker' = IdleWorker
        /\ worker.pc = "failing"
    BY <1>4 DEF Fail
  <2>2. queue[NoRequest] # "pending" /\ worker.item # NoRequest
    BY <2>1, <1>0, RunAssumption DEF TriggerRunsOnce
  <2>3. queue'[NoRequest] # "pending"
    BY <2>1, <2>2 DEF TypeOK
  <2> QED
    BY <2>1, <2>3 DEF TriggerRunsOnce, IdleWorker
<1>5. CASE ReadRun \/ Restore
  <2>1. queue' = queue /\ worker.pc \in {"resume", "restore"}
    BY <1>5 DEF ReadRun, Restore
  <2>2. worker.item \in Requests /\ queue[NoRequest] # "pending"
    BY <2>1, <1>0 DEF WorkerHasItem, TriggerRunsOnce
  <2>3. worker'.item = worker.item
    <3>1. CASE ReadRun
      BY <3>1, WorkerStays, WorkerPlaces DEF ReadRun
    <3>2. CASE Restore
      <4>1. Worker("failing") => worker'.item = worker.item
        BY WorkerStays, WorkerPlaces
      <4>2. worker' = [worker EXCEPT !.pc = "gate", !.call = continuation.call,
                          !.args = continuation.args, !.ring = park.ring]
              => worker'.item = worker.item
        BY DEF TypeOK, WorkerState
      <4> QED
        BY <3>2, <4>1, <4>2 DEF Restore
    <3> QED
      BY <1>5, <3>1, <3>2
  <2> QED
    BY <2>1, <2>2, <2>3 DEF TriggerRunsOnce
<1>6. CASE Create \/ Gate \/ Attempt \/ Park \/ SaveContinuation \/ Execute \/ SaveReceipt
           \/ SettleCall \/ Settle \/ Project \/ DeleteContinuation
  <2>1. queue' = queue /\ worker.pc # "idle"
    BY <1>6 DEF Create, Gate, Attempt, Park, SaveContinuation, Execute, SaveReceipt,
       SettleCall, Settle, Project, DeleteContinuation
  <2>2. queue[NoRequest] # "pending"
    BY <2>1, <1>0 DEF TriggerRunsOnce
  <2>3. worker'.pc # "failing"
    <3>1. CASE Create
      BY <3>1 DEF Create, TypeOK, WorkerState
    <3>2. CASE Gate \/ SettleCall
      <4>1. /\ \/ Worker("attempt") \/ Worker(Disposition) \/ Worker("settleCall")
               \/ NextCall(worker.call)
            /\ worker.call \in Calls
        BY <3>2, <1>0, GateAgrees DEF SettleCall, WorkerHasItem, Driving
      <4>2. NextCall(worker.call) => worker'.pc \in {"settle", "gate"}
        BY DEF NextCall, TypeOK, WorkerState
      <4> QED
        BY <4>1, <4>2, WorkerStays, WorkerPlaces DEF Disposition
    <3>3. CASE Attempt \/ Park \/ Execute \/ SaveReceipt \/ Settle \/ Project
      BY <3>3, WorkerStays, WorkerPlaces
         DEF Attempt, Disposition, Park, Execute, SaveReceipt, Settle, Project
    <3>4. CASE SaveContinuation \/ DeleteContinuation
      BY <3>4, <1>0, WorkerStays, WorkerPlaces DEF SaveContinuation, DeleteContinuation
    <3> QED
      BY <1>6, <3>1, <3>2, <3>3, <3>4
  <2> QED
    BY <2>1, <2>2, <2>3 DEF TriggerRunsOnce
<1> QED
  BY <1>1, <1>2, <1>3, <1>4, <1>5, <1>6 DEF Next, WorkerStep

(* Undisturbed, no request gives the run a continuation, and none takes one from
   a park that nobody resolved. *)
LEMMA RequestsLeaveContinuation ==
    ASSUME IInv, QuietInv, Quiet, NEW q \in Requests,
           \/ \E actor \in Actors, decision \in Decisions : ReadInbox(q, actor, decision)
           \/ RequestStep(q)
    PROVE  /\ continuation' \in {continuation, NoCall}
           /\ resolutions' = <<>> => continuation' = continuation /\ resolutions = <<>>
           /\ UNCHANGED <<attempted, runSettled, worker, park>>
<1> USE DEF IInv
<1>1. ~EditSaves(q)
  BY DEF EditSaves, QuietInv, Quiet, NobodyEdits
<1>2. UNCHANGED <<attempted, runSettled, worker, park>>
  BY RequestsInPlace
     DEF RequestStep, ReadInbox, EditReads, EditSaves, Resolve, Enqueue, Drop, journal
<1>3. CASE Drop(q)
  <2>1. continuation' = NoCall /\ resolutions' = resolutions /\ request[q].pc = "dropping"
    BY <1>3 DEF Drop, journal
  <2>2. resolutions # <<>>
    BY <2>1 DEF QuietInv
  <2> QED
    BY <1>2, <2>1, <2>2
<1>4. CASE Resolve(q)
  <2>1. continuation' = continuation /\ \E s : resolutions' = Append(resolutions, s)
    BY <1>4 DEF Resolve
  <2>2. resolutions \in Seq([actor : Actors, decision : Decisions, card : Calls])
    BY DEF TypeOK
  <2>3. resolutions' # <<>>
    BY <2>1, <2>2
  <2> QED
    BY <1>2, <2>1, <2>3
<1>5. CASE (\E actor \in Actors, decision \in Decisions : ReadInbox(q, actor, decision))
           \/ EditReads(q) \/ Enqueue(q)
  BY <1>5, <1>2 DEF ReadInbox, EditReads, Enqueue, journal
<1> QED
  BY <1>1, <1>3, <1>4, <1>5 DEF RequestStep

(* A park stays the last word of its invocation until someone resolves it. *)
LEMMA ParkStaysLast ==
    ASSUME IInv, QuietInv, Quiet, Quiet', Next, ~Crash, ~Raise, ~Stop,
           \A q \in Requests : ~RequestStops(q)
    PROVE  ParkIsLast'
<1> SUFFICES ASSUME InInbox' PROVE ParkIsLast'
  BY DEF ParkIsLast
<1> USE DEF IInv
<1>0. ParkIsLast /\ TriggerRunsOnce /\ faults = 0 /\ faults' = 0 /\ resolutions' = <<>>
  BY DEF QuietInv, Quiet, InInbox
<1>1. CASE \E q \in Requests :
             \/ \E actor \in Actors, decision \in Decisions : ReadInbox(q, actor, decision)
             \/ RequestStep(q)
  <2>1. /\ continuation' = continuation /\ resolutions = <<>>
        /\ UNCHANGED <<attempted, worker, park>>
    BY <1>1, <1>0, RequestsLeaveContinuation
  <2> QED
    BY <2>1, <1>0 DEF ParkIsLast, InInbox
<1>2. CASE Park
  <2>1. /\ worker.pc = "park" /\ UNCHANGED attempted
        /\ park' = [call |-> worker.call, ring |-> RequiredRing[worker.call]]
    BY <1>2 DEF Park
  <2>2. worker'.pc = "save" /\ worker'.call = worker.call /\ worker'.args = worker.args
    BY <1>2, WorkerStays, WorkerPlaces DEF Park
  <2>3. attempted[worker.call] = worker.args
    BY <2>1 DEF AttemptsStand
  <2> QED
    BY <2>1, <2>2, <2>3 DEF ParkIsLast
<1>3. CASE ~Park /\ ((\E i \in Items : Claim(i)) \/ WorkerStep)
  <2>1. UNCHANGED <<park, resolutions>>
    BY <1>3 DEF WorkerStep, Claim, Complete, Fail, Create, ReadRun, Restore, Gate,
       Attempt, SaveContinuation, Execute, SaveReceipt, SettleCall, Settle, Project,
       DeleteContinuation, journal
  <2>2. InInbox
    BY <2>1 DEF InInbox
  <2>3. /\ worker.pc \in {"save", "completing", "idle"}
        /\ worker.pc = "save" => worker.call = park.call /\ worker.args = attempted[park.call]
        /\ worker.pc # "save" =>
             continuation = [call |-> park.call, args |-> attempted[park.call]]
    BY <2>2, <1>0 DEF ParkIsLast
  <2>4. \A i \in Items : ~Claim(i)
    <3> SUFFICES ASSUME NEW i \in Items, Claim(i) PROVE FALSE
      OBVIOUS
    <3>1. queue[i] = "pending"
      BY DEF Claim
    <3>2. i = NoRequest
      BY <3>1, <1>0, <2>1, OnlyTheTrigger DEF Items
    <3> QED
      BY <3>1, <3>2, <1>0, <2>2 DEF TriggerRunsOnce, InInbox
  <2>5. SaveContinuation \/ Complete
    BY <1>3, <2>3, <2>4 DEF WorkerStep, Fail, Create, ReadRun, Restore, Gate,
       Attempt, Execute, SaveReceipt, SettleCall, Settle, Project, DeleteContinuation
  <2>6. CASE SaveContinuation
    <3>1. /\ worker.pc = "save" /\ UNCHANGED attempted
          /\ continuation' = [call |-> worker.call, args |-> worker.args]
      BY <2>6 DEF SaveContinuation, journal
    <3>2. worker'.pc = "completing"
      BY <2>6, <1>0, WorkerStays, WorkerPlaces DEF SaveContinuation
    <3> QED
      BY <2>1, <2>3, <3>1, <3>2 DEF ParkIsLast
  <2>7. CASE Complete
    <3>1. worker.pc = "completing" /\ UNCHANGED <<attempted, continuation>> /\ worker'.pc = "idle"
      BY <2>7 DEF Complete, journal, IdleWorker
    <3> QED
      BY <2>1, <2>3, <3>1 DEF ParkIsLast
  <2> QED
    BY <2>5, <2>6, <2>7
<1> QED
  BY <1>1, <1>2, <1>3 DEF Next, WorkerStep

(* A settled run is deleted, and nothing it was resumed for comes after it. *)
LEMMA SettledStaysDeleted ==
    ASSUME IInv, QuietInv, Quiet, Quiet', Next, ~Crash, ~Raise, ~Stop,
           \A q \in Requests : ~RequestStops(q)
    PROVE  SettledIsDeleted'
<1> SUFFICES ASSUME runSettled' > 0 PROVE SettledIsDeleted'
  BY DEF SettledIsDeleted
<1> USE DEF IInv
<1>0. SettledIsDeleted /\ TriggerRunsOnce /\ faults = 0 /\ faults' = 0
  BY DEF QuietInv, Quiet
<1>1. CASE \E q \in Requests :
             \/ \E actor \in Actors, decision \in Decisions : ReadInbox(q, actor, decision)
             \/ RequestStep(q)
  <2>1. continuation' \in {continuation, NoCall} /\ UNCHANGED <<runSettled, worker>>
    BY <1>1, RequestsLeaveContinuation
  <2> QED
    BY <2>1, <1>0 DEF SettledIsDeleted
<1>2. CASE Settle
  <2>1. worker'.pc = "project"
    BY <1>2, WorkerStays, WorkerPlaces DEF Settle
  <2> QED
    BY <2>1 DEF SettledIsDeleted
<1>3. CASE ~Settle /\ ((\E i \in Items : Claim(i)) \/ WorkerStep)
  <2>1. runSettled' = runSettled
    BY <1>3 DEF WorkerStep, Claim, Complete, Fail, Create, ReadRun, Restore, Gate,
       Attempt, Park, SaveContinuation, Execute, SaveReceipt, SettleCall, Project,
       DeleteContinuation, journal
  <2>2. /\ runSettled > 0
        /\ worker.pc \in {"project", "delete", "completing", "idle", "resume", "failing"}
        /\ worker.pc \notin {"project", "delete"} => continuation = NoCall
    BY <2>1, <1>0 DEF SettledIsDeleted
  <2>3. CASE \E i \in Items : Claim(i)
    <3> PICK i \in Items : Claim(i)
      BY <2>3
    <3>1. worker.pc = "idle" /\ queue[i] = "pending" /\ UNCHANGED continuation
      BY DEF Claim
    <3>2. i # NoRequest
      BY <3>1, <2>2, <1>0 DEF TriggerRunsOnce, TypeOK
    <3>3. worker'.pc = "resume"
      BY <3>2 DEF Claim, IdleWorker
    <3> QED
      BY <2>2, <3>1, <3>3 DEF SettledIsDeleted
  <2>4. CASE WorkerStep
    <3>1. Project \/ DeleteContinuation \/ Complete \/ Fail \/ ReadRun
      BY <1>3, <2>4, <2>2 DEF WorkerStep, Create, Restore, Gate, Attempt, Park,
         SaveContinuation, Execute, SaveReceipt, SettleCall
    <3>2. CASE Project
      BY <3>2, WorkerStays, WorkerPlaces DEF Project, SettledIsDeleted
    <3>3. CASE DeleteContinuation
      BY <3>3, WorkerStays, WorkerPlaces DEF DeleteContinuation, SettledIsDeleted
    <3>4. CASE Complete \/ Fail
      <4>1. /\ worker.pc \in {"completing", "failing"}
            /\ UNCHANGED continuation /\ worker'.pc = "idle"
        BY <3>4 DEF Complete, Fail, IdleWorker
      <4> QED
        BY <4>1, <2>2 DEF SettledIsDeleted
    <3>5. CASE ReadRun
      <4>1. /\ worker.pc = "resume" /\ UNCHANGED continuation /\ Worker("failing")
        BY <3>5, <2>2 DEF ReadRun
      <4>2. worker'.pc = "failing"
        BY <4>1, WorkerStays, WorkerPlaces
      <4> QED
        BY <4>1, <4>2, <2>2 DEF SettledIsDeleted
    <3> QED
      BY <3>1, <3>2, <3>3, <3>4, <3>5
  <2> QED
    BY <1>3, <2>3, <2>4
<1> QED
  BY <1>1, <1>2, <1>3 DEF Next, WorkerStep

(* Requests are made about a park, and only a resolution drops a continuation. *)
LEMMA RequestsStayInPlace ==
    ASSUME IInv, QuietInv, Next
    PROVE  /\ park' = NoPark => \A q \in Requests : request'[q].pc = "idle"
           /\ \A q \in Requests :
                 /\ request'[q].pc = "idle" => request'[q].decision = "none"
                 /\ request'[q].pc \in {"restoring", "saving"} => request'[q].decision = "edit"
                 /\ request'[q].pc = "dropping" => resolutions' # <<>>
<1> USE DEF IInv
<1>1. resolutions' # <<>> \/ resolutions' = resolutions
  <2>1. resolutions' = resolutions \/ \E s : resolutions' = Append(resolutions, s)
    BY DEF Next, WorkerStep, RequestStep, Claim, Complete, Fail, Create, ReadRun, Restore, Gate,
       Attempt, Park, SaveContinuation, Execute, SaveReceipt, SettleCall, Settle, Project,
       DeleteContinuation, Crash, Raise, Stop, ReadInbox, EditReads, EditSaves, Resolve,
       Enqueue, Drop, RequestStops, journal
  <2>2. resolutions \in Seq([actor : Actors, decision : Decisions, card : Calls])
    BY DEF TypeOK
  <2> QED
    BY <2>1, <2>2
<1>2. CASE \E q \in Requests :
             \/ \E actor \in Actors, decision \in Decisions : ReadInbox(q, actor, decision)
             \/ RequestStep(q)
             \/ RequestStops(q)
  <2> PICK q \in Requests :
             \/ \E actor \in Actors, decision \in Decisions : ReadInbox(q, actor, decision)
             \/ RequestStep(q)
             \/ RequestStops(q)
    BY <1>2
  <2>1. /\ park # NoPark /\ park' = park
        /\ \A r \in Requests \ {q} : request'[r] = request[r]
        /\ request'[q].pc # "idle"
        /\ request'[q].pc \in {"restoring", "saving"} => request'[q].decision = "edit"
    BY RequestsInPlace
  <2>2. request'[q].pc = "dropping" => resolutions' # <<>>
    <3>1. CASE Resolve(q)
      <4>1. resolutions \in Seq([actor : Actors, decision : Decisions, card : Calls])
        BY DEF TypeOK
      <4>2. \E s : resolutions' = Append(resolutions, s)
        BY <3>1 DEF Resolve
      <4> QED
        BY <4>1, <4>2
    <3>2. CASE EditSaves(q) \/ Enqueue(q) \/ Drop(q) \/ RequestStops(q)
      <4>1. \E pc \in {"resolving", "done", "stopped"} : Request(q, pc)
        BY <3>2 DEF EditSaves, Enqueue, Drop, RequestStops
      <4>2. {"resolving", "done", "stopped"} \subseteq RequestPcs
        BY DEF RequestPcs
      <4> QED
        BY <4>1, <4>2, RequestStays
    <3>3. CASE \E actor \in Actors, decision \in Decisions : ReadInbox(q, actor, decision)
      BY <3>3 DEF ReadInbox, TypeOK
    <3>4. CASE EditReads(q)
      <4>1. request' = [request EXCEPT ![q].copy = continuation,
                     ![q].pc = IF continuation = NoCall THEN "resolving" ELSE "saving"]
        BY <3>4 DEF EditReads
      <4>2. request[q] \in RequestState /\ request \in [Requests -> RequestState]
        BY DEF TypeOK
      <4>3. request'[q].pc \in {"resolving", "saving"}
        BY <4>1, <4>2 DEF RequestState
      <4> QED
        BY <4>3
    <3> QED
      BY <3>1, <3>2, <3>3, <3>4 DEF RequestStep
  <2>3. \A r \in Requests \ {q} :
           /\ request'[r].pc = "idle" => request'[r].decision = "none"
           /\ request'[r].pc \in {"restoring", "saving"} => request'[r].decision = "edit"
           /\ request'[r].pc = "dropping" => resolutions' # <<>>
    BY <1>1, <2>1 DEF QuietInv
  <2> QED
    BY <2>1, <2>2, <2>3
<1>3. CASE (\E i \in Items : Claim(i)) \/ WorkerStep \/ Crash \/ Raise \/ Stop
  <2>1. request' = request
    BY <1>3 DEF WorkerStep, Claim, Complete, Fail, Create, ReadRun, Restore, Gate,
       Attempt, Park, SaveContinuation, Execute, SaveReceipt, SettleCall, Settle, Project,
       DeleteContinuation, Crash, Raise, Stop
  <2>2. park' = NoPark => park = NoPark
    <3>1. CASE Park
      <4>1. worker.call \in Calls /\ park'.call = worker.call
        BY <3>1 DEF Park, WorkerHasItem, Driving
      <4> QED
        BY <4>1, RunAssumption DEF NoPark, Calls
    <3>2. CASE ~Park
      BY <1>3, <3>2 DEF WorkerStep, Claim, Complete, Fail, Create, ReadRun, Restore, Gate,
         Attempt, SaveContinuation, Execute, SaveReceipt, SettleCall, Settle, Project,
         DeleteContinuation, Crash, Raise, Stop, journal
    <3> QED
      BY <3>1, <3>2
  <2> QED
    BY <1>1, <2>1, <2>2 DEF QuietInv
<1> QED
  BY <1>2, <1>3 DEF Next

(* Every step keeps what an undisturbed run can be told. *)
LEMMA QuietNext == ASSUME IInv, QuietInv, [Next]_vars PROVE QuietInv'
<1>1. CASE UNCHANGED vars
  BY <1>1 DEF QuietInv, Quiet, NobodyEdits, AsProposed, TriggerRunsOnce, ParkIsLast,
     SettledIsDeleted, InInbox, vars
<1>2. CASE Next
  <2>1. ASSUME Quiet'
        PROVE  AsProposed' /\ TriggerRunsOnce' /\ ParkIsLast' /\ SettledIsDeleted'
    <3>1. /\ Quiet /\ ~Crash /\ ~Raise /\ ~Stop
          /\ \A q \in Requests : ~RequestStops(q)
      BY <1>2, <2>1, QuietBefore
    <3> QED
      BY <1>2, <2>1, <3>1, StaysAsProposed, TriggerStaysOnce, ParkStaysLast,
         SettledStaysDeleted
  <2> QED
    BY <1>2, <2>1, RequestsStayInPlace DEF QuietInv
<1> QED
  BY <1>1, <1>2

LEMMA QuietInit == Init => QuietInv
BY RunAssumption DEF Init, QuietInv, AsProposed, TriggerRunsOnce, ParkIsLast, SettledIsDeleted,
   InInbox, IdleWorker, NoCall, NoPark, Items

(* Between two work items of an undisturbed run, the call the inbox shows is the
   one its continuation resumes, and a settled run has none (RunLoop.invoke,
   RunLoop.resume, KernelControl.approval_inbox). *)
THEOREM ContinuationsMatchTheirRun == Spec => []ContinuationMatchesRun
<1>1. QuietInv => ContinuationMatchesRun
  BY DEF QuietInv, ContinuationMatchesRun, Quiet, ParkIsLast, SettledIsDeleted, AtRest
<1>2. IInv /\ QuietInv /\ [Next]_vars => QuietInv'
  BY QuietNext
<1> QED
  BY <1>1, <1>2, QuietInit, Invariance, PTL DEF Spec

-----------------------------------------------------------------------------
(* The work queue under the run. *)

(* In the middle of an invocation the worker keeps its item and nobody's row
   changes. *)
LEMMA InvocationGoesOn ==
    ASSUME IInv, WorkerStep \/ Crash \/ Raise, ~Complete, ~Fail
    PROVE  /\ worker.pc # "idle" /\ worker'.pc # "idle" /\ worker'.item = worker.item
           /\ UNCHANGED <<queue, request>>
<1> USE DEF IInv
<1> DEFINE Places == {"failing", "restore", "attempt", "park", "execute", "save", "receipt",
                      "settleCall", "project", "delete", "completing"}
<1>1. worker.pc # "idle" /\ UNCHANGED <<queue, request>>
  BY DEF WorkerStep, Create, ReadRun, Restore, Gate, Attempt, Park, SaveContinuation, Execute,
     SaveReceipt, SettleCall, Settle, Project, DeleteContinuation, Crash, Raise, Running
<1> SUFFICES worker'.pc # "idle" /\ worker'.item = worker.item
  BY <1>1
<1>2. ASSUME \E pc \in Places : Worker(pc)
      PROVE  worker'.pc # "idle" /\ worker'.item = worker.item
  <2>1. PICK pc \in WorkerPcs \ {"idle"} : Worker(pc)
    BY <1>2, WorkerPlaces
  <2> QED
    BY <2>1, WorkerStays
<1>3. CASE Create \/ Restore
  <2>1. \/ \E pc \in Places : Worker(pc)
        \/ worker'.pc = "gate" /\ worker'.item = worker.item
    BY <1>3 DEF Create, Restore, TypeOK, WorkerState
  <2> QED
    BY <1>2, <2>1
<1>4. CASE Gate \/ SettleCall
  <2>1. worker.call \in Calls
    BY <1>4 DEF Gate, SettleCall, WorkerHasItem, Driving
  <2>2. NextCall(worker.call) \/ \E pc \in Places : Worker(pc)
    BY <1>4, <2>1 DEF Gate, SettleCall, TypeOK, Args, NoArgs, Disposition
  <2>3. NextCall(worker.call) => worker'.pc # "idle" /\ worker'.item = worker.item
    BY <2>1, NextCallIsReady
  <2> QED
    BY <1>2, <2>2, <2>3
<1>5. CASE ReadRun \/ Attempt \/ Park \/ SaveContinuation \/ Execute \/ SaveReceipt
  <2>1. \E pc \in Places : Worker(pc)
    BY <1>5 DEF ReadRun, Attempt, Park, SaveContinuation, Execute, SaveReceipt, Disposition
  <2> QED
    BY <1>2, <2>1
<1>6. CASE Settle \/ Project \/ DeleteContinuation \/ Crash \/ Raise
  <2>1. \E pc \in Places : Worker(pc)
    BY <1>6 DEF Settle, Project, DeleteContinuation, Crash, Raise
  <2> QED
    BY <1>2, <2>1
<1> QED
  BY <1>3, <1>4, <1>5, <1>6 DEF WorkerStep

(* A request that is answered stays answered, and its item is its last write. *)
LEMMA RequestsEnd ==
    ASSUME IInv, NEW q \in Requests,
           \/ \E actor \in Actors, decision \in Decisions : ReadInbox(q, actor, decision)
           \/ RequestStep(q)
           \/ RequestStops(q)
    PROVE  /\ request[q].pc # "done" /\ \A r \in Requests \ {q} : request'[r] = request[r]
           /\ queue' # queue => Enqueue(q) /\ request'[q].pc = "done"
<1>1. request[q].pc # "done"
  BY DEF RequestStep, ReadInbox, EditReads, EditSaves, Resolve, Enqueue, Drop, RequestStops
<1>2. \A r \in Requests \ {q} : request'[r] = request[r]
  BY DEF IInv, TypeOK, RequestStep, ReadInbox, EditReads, EditSaves, Resolve, Enqueue, Drop,
     RequestStops, Request
<1>3. queue' # queue => Enqueue(q)
  BY DEF RequestStep, ReadInbox, EditReads, EditSaves, Resolve, Drop, RequestStops
<1>4. Enqueue(q) => request'[q].pc = "done"
  BY DEF IInv, TypeOK, RequestState, Enqueue, Request
<1> QED
  BY <1>1, <1>2, <1>3, <1>4

LEMMA RowsInit == Init => RowsFollow
BY RunAssumption DEF Init, RowsFollow, IdleWorker, Items

(* A claimed row is the worker's until the worker gives it up, and a row is
   claimed, completed or put back only once it was there. *)
LEMMA RowsNext == ASSUME IInv, RowsFollow, [Next]_vars PROVE RowsFollow'
<1> USE DEF IInv
<1>0. /\ queue \in [Items -> {"absent", "pending", "claimed", "completed"}]
      /\ worker \in WorkerState /\ worker.item \in Items
      /\ Requests \subseteq Items
  BY DEF TypeOK, WorkerState, Items
<1>1. ASSUME NEW i \in Items, Claim(i)
      PROVE  RowsFollow'
  <2>1. /\ queue[i] = "pending" /\ queue' = [queue EXCEPT ![i] = "claimed"]
        /\ request' = request /\ worker'.item = i
    BY <1>1 DEF Claim, IdleWorker
  <2> QED
    BY <1>0, <2>1 DEF RowsFollow
<1>2. CASE Complete \/ Fail
  <2>1. PICK s : queue' = [queue EXCEPT ![worker.item] = s]
    BY <1>2 DEF Complete, Fail
  <2>2. worker'.pc = "idle" /\ request' = request /\ queue[worker.item] = "claimed"
    BY <1>2 DEF Complete, Fail, IdleWorker, RowsFollow
  <2> QED
    BY <1>0, <2>1, <2>2 DEF RowsFollow
<1>3. CASE (WorkerStep \/ Crash \/ Raise) /\ ~Complete /\ ~Fail
  BY <1>3, InvocationGoesOn DEF RowsFollow
<1>4. CASE Stop
  BY <1>4 DEF Stop, IdleWorker, RowsFollow
<1>5. ASSUME NEW q \in Requests,
             \/ \E actor \in Actors, decision \in Decisions : ReadInbox(q, actor, decision)
             \/ RequestStep(q)
             \/ RequestStops(q)
      PROVE  RowsFollow'
  <2>1. /\ worker' = worker /\ request[q].pc # "done"
        /\ \A r \in Requests \ {q} : request'[r] = request[r]
    BY <1>5, RequestsLeaveWorker, RequestsEnd
  <2>2. queue[q] = "absent"
    BY <2>1 DEF RowsFollow
  <2>3. worker.pc # "idle" => worker.item # q
    BY <2>2 DEF RowsFollow
  <2>4. CASE queue' = queue
    BY <2>1, <2>2, <2>4 DEF RowsFollow
  <2>5. CASE queue' # queue
    <3>1. queue' = [queue EXCEPT ![q] = "pending"] /\ request'[q].pc = "done"
      BY <1>5, <2>5, RequestsLeaveWorker, RequestsEnd
    <3> QED
      BY <1>0, <2>1, <2>3, <3>1 DEF RowsFollow
  <2> QED
    BY <2>4, <2>5
<1>6. CASE UNCHANGED vars
  BY <1>6 DEF vars, RowsFollow
<1> QED
  BY <1>1, <1>2, <1>3, <1>4, <1>5, <1>6 DEF Next, WorkerStep

(* The operations of the worker and of the requests on the rows are those of the
   queue; a stopped worker drops what it has; everything else stutters. *)
LEMMA QueueStepRefines ==
    ASSUME IInv, RowsFollow, [Next]_vars
    PROVE  Queue!Next \/ UNCHANGED Queue!vars
<1> USE DEF IInv
<1>0. /\ worker \in WorkerState /\ worker.item \in Items /\ Requests \subseteq Items
      /\ Held = [k \in {"worker"} |-> IF worker.pc = "idle" THEN {} ELSE {worker.item}]
  BY DEF TypeOK, WorkerState, Items, Held
<1>1. ASSUME NEW i \in Items, Claim(i)
      PROVE  Queue!Next
  <2>1. worker'.item = i /\ worker'.pc # "idle" /\ worker.pc = "idle"
    BY <1>1 DEF Claim, IdleWorker
  <2>2. Held["worker"] = {} /\ Held' = [Held EXCEPT !["worker"] = {i}]
    BY <2>1 DEF Held
  <2>3. Queue!Claim("worker", i)
    BY <1>1, <2>2 DEF Claim, Queue!Claim, Queue!Set, Queue!Hands
  <2> QED
    BY <2>3 DEF Queue!Next
<1>2. CASE Complete \/ Fail
  <2>1. worker.pc # "idle" /\ worker'.pc = "idle" /\ queue[worker.item] = "claimed"
    BY <1>2 DEF Complete, Fail, IdleWorker, RowsFollow
  <2>2. Held["worker"] = {worker.item} /\ Held' = [Held EXCEPT !["worker"] = {}]
    BY <2>1 DEF Held
  <2>3. Queue!Complete("worker", worker.item) \/ Queue!Fail("worker", worker.item)
    BY <1>2, <2>1, <2>2 DEF Complete, Fail, Queue!Complete, Queue!Fail, Queue!Set, Queue!Hands
  <2> QED
    BY <1>0, <2>3 DEF Queue!Next
<1>3. CASE (WorkerStep \/ Crash \/ Raise) /\ ~Complete /\ ~Fail
  BY <1>3, InvocationGoesOn DEF Held, Queue!vars
<1>4. CASE Stop
  <2>1. worker.pc # "idle" /\ worker'.pc = "idle" /\ queue' = queue
    BY <1>4 DEF Stop, IdleWorker
  <2>2. Held["worker"] # {} /\ Held' = [Held EXCEPT !["worker"] = {}]
    BY <2>1 DEF Held
  <2> QED
    BY <2>1, <2>2 DEF Queue!Next, Queue!Drop, Queue!Hands
<1>5. ASSUME NEW q \in Requests,
             \/ \E actor \in Actors, decision \in Decisions : ReadInbox(q, actor, decision)
             \/ RequestStep(q)
             \/ RequestStops(q)
      PROVE  Queue!Next \/ UNCHANGED Queue!vars
  <2>1. UNCHANGED Held /\ queue[q] = "absent"
    BY <1>5, RequestsLeaveWorker, RequestsEnd DEF Held, RowsFollow
  <2>2. queue' = queue \/ queue' = [queue EXCEPT ![q] = "pending"]
    BY <1>5, RequestsLeaveWorker
  <2>3. UNCHANGED Queue!vars \/ Queue!Enqueue(q)
    BY <2>1, <2>2 DEF Queue!vars, Queue!Enqueue, Queue!Set
  <2> QED
    BY <1>0, <2>3 DEF Queue!Next
<1>6. CASE UNCHANGED vars
  BY <1>6 DEF vars, Held, Queue!vars
<1> QED
  BY <1>1, <1>2, <1>3, <1>4, <1>5, <1>6 DEF Next, WorkerStep

(* The run, its manager requests and their cancellations use the scheduler's rows
   as WorkQueue allows: what Scheduler implements is enough for RunLifecycle. *)
THEOREM RunUsesWorkQueue == Spec => ImplementsWorkQueue
<1>1. Init => Queue!Init
  BY DEF Init, Queue!Init, Held, IdleWorker
<1>2. IInv /\ RowsFollow /\ [Next]_vars => [Queue!Next]_(Queue!vars)
  BY QueueStepRefines
<1>3. Spec => []RowsFollow
  BY RowsInit, RowsNext, Invariance, PTL DEF Spec
<1> QED
  BY <1>1, <1>2, <1>3, Invariance, PTL DEF Spec, ImplementsWorkQueue, Queue!Spec

(* A row leaves "claimed" only in the hands of the worker that takes the step. *)
LEMMA QueueRestStep ==
    ASSUME TypeOK, [Queue!Next]_(Queue!vars), NEW i \in Items
    PROVE  /\ queue[i] = "completed" => queue'[i] = "completed"
           /\ Queue!Abandoned(i) => Queue!Abandoned(i)'
<1>0. /\ queue \in [Items -> {"absent", "pending", "claimed", "completed"}]
      /\ Held = [k \in {"worker"} |-> Held["worker"]]
  BY DEF TypeOK, Held
<1> USE DEF Queue!Abandoned
<1>1. ASSUME NEW j \in Items, Queue!Enqueue(j)
      PROVE  /\ queue[i] = "completed" => queue'[i] = "completed"
             /\ Queue!Abandoned(i) => Queue!Abandoned(i)'
  BY <1>0, <1>1 DEF Queue!Enqueue, Queue!Set
<1>2. ASSUME NEW k \in {"worker"}, NEW j \in Items,
             Queue!Claim(k, j) \/ Queue!Complete(k, j) \/ Queue!Fail(k, j)
      PROVE  /\ queue[i] = "completed" => queue'[i] = "completed"
             /\ Queue!Abandoned(i) => Queue!Abandoned(i)'
  <2>1. queue[j] \in {"pending", "claimed"} /\ (queue[j] = "claimed" => j \in Held[k])
    BY <1>2 DEF Queue!Claim, Queue!Complete, Queue!Fail
  <2>2. PICK s, items : /\ queue' = [queue EXCEPT ![j] = s]
                        /\ Held' = [Held EXCEPT ![k] = items] /\ items \subseteq {j}
    BY <1>2 DEF Queue!Claim, Queue!Complete, Queue!Fail, Queue!Set, Queue!Hands
  <2>3. CASE i = j
    BY <2>1, <2>3
  <2>4. CASE i # j
    BY <1>0, <2>2, <2>4
  <2> QED
    BY <2>3, <2>4
<1>3. ASSUME NEW k \in {"worker"}, Queue!Drop(k)
      PROVE  /\ queue[i] = "completed" => queue'[i] = "completed"
             /\ Queue!Abandoned(i) => Queue!Abandoned(i)'
  BY <1>0, <1>3 DEF Queue!Drop, Queue!Hands
<1>4. CASE UNCHANGED Queue!vars
  BY <1>4 DEF Queue!vars
<1> QED
  BY <1>1, <1>2, <1>3, <1>4 DEF Queue!Next

(* A trigger or a resolution that was completed is not run again, and one whose
   worker was stopped neither goes on nor is completed, however often the worker
   is started: an approval that was answered may come to nothing that way. *)
THEOREM StoppedItemsRest == Spec => Queue!ItemsRest
<1> DEFINE Rest == \A i \in Items :
                      /\ queue[i] = "completed" => queue'[i] = "completed"
                      /\ Queue!Abandoned(i) => Queue!Abandoned(i)'
<1>1. TypeOK /\ [Queue!Next]_(Queue!vars) => [Rest]_(Queue!vars)
  BY QueueRestStep
<1> HIDE DEF Rest
<1>2. Spec => [][Rest]_(Queue!vars)
  BY <1>1, TypeCorrect, RunUsesWorkQueue, PTL DEF ImplementsWorkQueue, Queue!Spec
<1> QED
  BY <1>2 DEF Rest, Queue!ItemsRest

-----------------------------------------------------------------------------
(* Repetitions.  The effects of a call are counted. *)

LEMMA EffectsCounted ==
    ASSUME TypeOK, NEW k
    PROVE  IsFiniteSet(EffectsOf(k)) /\ Cardinality(EffectsOf(k)) \in Nat
<1>1. DOMAIN effects = 1 .. Len(effects) /\ Len(effects) \in Nat
  BY DEF TypeOK
<1>2. IsFiniteSet(1 .. Len(effects))
  BY <1>1, FS_Interval
<1>3. EffectsOf(k) \subseteq 1 .. Len(effects)
  BY <1>1 DEF EffectsOf
<1>4. IsFiniteSet(EffectsOf(k))
  BY <1>2, <1>3, FS_Subset
<1> QED
  BY <1>4, FS_CardinalityType

(* An effect that lands is one more of its call and of no other. *)
LEMMA EffectsGrow ==
    ASSUME TypeOK, Execute, NEW k
    PROVE  Cardinality(EffectsOf(k)') =
              IF k = worker.call THEN Cardinality(EffectsOf(k)) + 1
              ELSE Cardinality(EffectsOf(k))
<1> DEFINE last == Len(effects) + 1
<1>1. /\ DOMAIN effects = 1 .. Len(effects) /\ Len(effects) \in Nat
      /\ effects' = Append(effects, [call |-> worker.call, args |-> worker.args])
      /\ effects \in Seq(Call)
  BY DEF TypeOK, Execute
<1>2. DOMAIN effects' = (DOMAIN effects) \cup {last} /\ last \notin DOMAIN effects
  BY <1>1
<1>3. /\ \A n \in DOMAIN effects : effects'[n] = effects[n]
      /\ effects'[last].call = worker.call
  BY <1>1
<1>4. CASE k = worker.call
  <2>1. EffectsOf(k)' = EffectsOf(k) \cup {last} /\ last \notin EffectsOf(k)
    BY <1>2, <1>3, <1>4 DEF EffectsOf
  <2> QED
    BY <1>4, <2>1, EffectsCounted, FS_AddElement
<1>5. CASE k # worker.call
  <2>1. EffectsOf(k)' = EffectsOf(k)
    BY <1>2, <1>3, <1>5 DEF EffectsOf
  <2> QED
    BY <1>5, <2>1
<1> QED
  BY <1>4, <1>5

(* Whether the bound on the effects of a call allows one more than was lost. *)
Landed(k) == receipted[k] # NoArgs \/ (worker.pc = "receipt" /\ worker.call = k)

(* A step under which no effect lands keeps the bound if a call that was allowed
   one more still is, or has lost one more. *)
LEMMA BoundStays ==
    ASSUME TypeOK, ReceiptsFollow, effects' = effects, lost \in Nat, lost' \in Nat, lost' >= lost,
           \A k \in Calls : Landed(k) => Landed(k)' \/ lost' >= lost + 1,
           worker'.pc \in {"attempt", "park", "execute", "receipt"} =>
              receipted'[worker'.call] = NoArgs
    PROVE  ReceiptsFollow'
<1> SUFFICES ASSUME NEW k \in Calls
             PROVE  Cardinality(EffectsOf(k)') <= IF Landed(k)' THEN 1 + lost' ELSE lost'
  BY DEF ReceiptsFollow, Landed
<1>1. EffectsOf(k)' = EffectsOf(k) /\ Cardinality(EffectsOf(k)) \in Nat
  BY EffectsCounted DEF EffectsOf
<1>2. Cardinality(EffectsOf(k)) <= IF Landed(k) THEN 1 + lost ELSE lost
  BY DEF ReceiptsFollow, Landed
<1> QED
  BY <1>1, <1>2

(* What was lost never gets less. *)
LEMMA LossesStand == ASSUME IInv, Next PROVE lost \in Nat /\ lost' \in {lost, lost + 1}
<1>1. lost \in Nat
  BY RunAssumption DEF IInv, TypeOK
<1>2. lost' \in {lost, lost + 1}
  BY DEF Next, WorkerStep, RequestStep, Claim, Complete, Fail, Create, ReadRun, Restore, Gate,
     Attempt, Park, SaveContinuation, Execute, SaveReceipt, SettleCall, Settle, Project,
     DeleteContinuation, Crash, Raise, Stop, LoseExecution, ReadInbox, EditReads, EditSaves,
     Resolve, Enqueue, Drop, RequestStops, bounds
<1> QED
  BY <1>1, <1>2

(* The worker executes a call that has no receipt, and a call that lost its
   receipt is paid for. *)
LEMMA ReceiptsNext == ASSUME IInv, ReceiptsFollow, [Next]_vars PROVE ReceiptsFollow'
<1> USE DEF IInv
<1> DEFINE Open == {"attempt", "park", "execute", "receipt"}
<1>0. Next => lost \in Nat /\ lost' \in Nat /\ lost' >= lost
  BY LossesStand
<1>1. CASE Execute
  <2>1. /\ worker.pc = "execute" /\ worker'.pc = "receipt" /\ worker'.call = worker.call
        /\ UNCHANGED <<receipted, lost>>
    BY <1>1, WorkerStays, WorkerPlaces DEF Execute, bounds
  <2>2. receipted[worker.call] = NoArgs /\ worker.call \in Calls
    BY <2>1 DEF ReceiptsFollow, WorkerHasItem, Driving
  <2>3. ASSUME NEW k \in Calls
        PROVE  Cardinality(EffectsOf(k)') <=
                  IF receipted[k] # NoArgs \/ worker.call = k THEN 1 + lost ELSE lost
    <3>1. Cardinality(EffectsOf(k)) <= IF receipted[k] # NoArgs THEN 1 + lost ELSE lost
      BY <2>1 DEF ReceiptsFollow
    <3>2. Cardinality(EffectsOf(k)) \in Nat /\ lost \in Nat
      BY EffectsCounted, RunAssumption DEF TypeOK
    <3>3. Cardinality(EffectsOf(k)') = IF k = worker.call THEN Cardinality(EffectsOf(k)) + 1
                                       ELSE Cardinality(EffectsOf(k))
      BY <1>1, EffectsGrow
    <3> QED
      BY <2>2, <3>1, <3>2, <3>3
  <2> QED
    BY <2>1, <2>2, <2>3 DEF ReceiptsFollow
<1>2. CASE SaveReceipt
  <2>1. /\ worker.pc = "receipt" /\ worker'.pc = "settleCall"
        /\ receipted' = [receipted EXCEPT ![worker.call] = worker.args]
        /\ UNCHANGED <<effects, lost>>
    BY <1>2, WorkerStays, WorkerPlaces DEF SaveReceipt, bounds
  <2>2. worker.call \in Calls /\ worker.args # NoArgs
    BY <2>1 DEF WorkerHasItem, Driving
  <2>3. \A k \in Calls : Landed(k) => Landed(k)'
    BY <2>1, <2>2 DEF Landed, TypeOK
  <2> QED
    BY <1>0, <1>2, <2>1, <2>3, BoundStays DEF Next, WorkerStep
<1>3. CASE (Raise \/ Stop) /\ worker.pc = "receipt"
  <2>1. lost' = lost + 1 /\ UNCHANGED <<effects, receipted>>
    BY <1>3 DEF Raise, Stop, LoseExecution
  <2>2. worker'.pc \notin Open
    BY <1>3, WorkerStays, WorkerPlaces DEF Raise, Stop, IdleWorker
  <2> QED
    BY <1>0, <1>3, <2>1, <2>2, BoundStays DEF Next
<1>4. ASSUME worker.pc # "receipt", UNCHANGED <<effects, receipted>>, Next,
             worker'.pc \in Open => receipted[worker'.call] = NoArgs
      PROVE  ReceiptsFollow'
  BY <1>0, <1>4, BoundStays DEF Landed
<1>5. CASE Attempt
  <2>1. /\ worker.pc = "attempt" /\ UNCHANGED <<effects, receipted>>
        /\ worker'.call = worker.call
    BY <1>5, WorkerStays, WorkerPlaces DEF Attempt, Disposition
  <2> QED
    BY <1>4, <1>5, <2>1 DEF Next, WorkerStep, ReceiptsFollow
<1>6. CASE Gate
  <2>1. worker.pc = "gate" /\ UNCHANGED <<effects, receipted>> /\ worker.call \in Calls
    BY <1>6 DEF Gate, WorkerHasItem, Driving
  <2>2. CASE receipted[worker.call] = NoArgs
    <3>1. Worker("failing") \/ Worker(Disposition) \/ Worker("attempt")
      BY <1>6, <2>1, <2>2 DEF Gate, TypeOK, WorkerHasItem, Driving, Args
    <3>2. worker'.call = worker.call
      BY <3>1, WorkerStays, WorkerPlaces DEF Disposition
    <3> QED
      BY <1>4, <1>6, <2>1, <2>2, <3>2 DEF Next, WorkerStep
  <2>3. CASE receipted[worker.call] # NoArgs
    <3>1. Worker("failing") \/ Worker("settleCall") \/ NextCall(worker.call)
      BY <1>6, <2>1, <2>3 DEF Gate, TypeOK, Args
    <3>2. worker'.pc \notin Open
      BY <2>1, <3>1, WorkerStays, WorkerPlaces, NextCallIsReady
    <3> QED
      BY <1>4, <1>6, <2>1, <3>2 DEF Next, WorkerStep
  <2> QED
    BY <2>2, <2>3
<1>7. CASE SettleCall
  <2>1. worker.call \in Calls /\ worker.pc = "settleCall" /\ UNCHANGED <<effects, receipted>>
    BY <1>7 DEF SettleCall, WorkerHasItem, Driving
  <2>2. worker'.pc \notin Open
    BY <1>7, <2>1, NextCallIsReady DEF SettleCall
  <2> QED
    BY <1>4, <1>7, <2>1, <2>2 DEF Next, WorkerStep
<1>8. CASE Create \/ ReadRun \/ Restore \/ Park \/ SaveContinuation
  <2>1. worker.pc # "receipt" /\ UNCHANGED <<effects, receipted>>
    BY <1>8 DEF Create, ReadRun, Restore, Park, SaveContinuation
  <2>2. \/ worker'.pc = "gate"
        \/ \E pc \in {"failing", "restore", "save", "completing"} : Worker(pc)
    BY <1>8 DEF Create, ReadRun, Restore, Park, SaveContinuation, TypeOK, WorkerState
  <2>3. worker'.pc \notin Open
    BY <2>2, WorkerStays, WorkerPlaces
  <2> QED
    BY <1>4, <1>8, <2>1, <2>3 DEF Next, WorkerStep
<1>9. CASE Settle \/ Project \/ DeleteContinuation \/ Crash \/ (Raise /\ worker.pc # "receipt")
  <2>1. worker.pc # "receipt" /\ UNCHANGED <<effects, receipted>>
    BY <1>9 DEF Settle, Project, DeleteContinuation, Crash, Raise
  <2>2. \E pc \in {"project", "delete", "failing", "completing"} : Worker(pc)
    BY <1>9 DEF Settle, Project, DeleteContinuation, Crash, Raise
  <2>3. worker'.pc \notin Open
    BY <2>2, WorkerStays, WorkerPlaces
  <2> QED
    BY <1>4, <1>9, <2>1, <2>3 DEF Next, WorkerStep
<1>10. CASE (\E i \in Items : Claim(i)) \/ Complete \/ Fail \/ (Stop /\ worker.pc # "receipt")
  <2>1. worker.pc # "receipt" /\ UNCHANGED <<effects, receipted>>
    <3>1. ASSUME NEW i \in Items, Claim(i)
          PROVE  worker.pc # "receipt" /\ UNCHANGED <<effects, receipted>>
      BY <3>1 DEF Claim
    <3> QED
      BY <1>10, <3>1 DEF Complete, Fail, Stop
  <2>2. worker'.pc \in {"create", "resume", "idle"}
    <3>1. ASSUME NEW i \in Items, Claim(i)
          PROVE  worker'.pc \in {"create", "resume"}
      BY <3>1 DEF Claim, IdleWorker
    <3> QED
      BY <1>10, <3>1 DEF Complete, Fail, Stop, IdleWorker
  <2> QED
    BY <1>4, <1>10, <2>1, <2>2 DEF Next, WorkerStep
<1>11. ASSUME UNCHANGED <<worker, effects, receipted, lost>>
       PROVE  ReceiptsFollow'
  BY <1>11 DEF ReceiptsFollow, EffectsOf
<1>12. ASSUME NEW q \in Requests,
              \/ \E actor \in Actors, decision \in Decisions : ReadInbox(q, actor, decision)
              \/ RequestStep(q)
              \/ RequestStops(q)
       PROVE  ReceiptsFollow'
  <2>1. UNCHANGED <<worker, effects>>
    BY <1>12, RequestsLeaveWorker
  <2>2. UNCHANGED <<receipted, lost>>
    BY <1>12 DEF RequestStep, ReadInbox, EditReads, EditSaves, Resolve, Enqueue, Drop,
       RequestStops, bounds
  <2> QED
    BY <1>11, <2>1, <2>2
<1>13. CASE UNCHANGED vars
  BY <1>11, <1>13 DEF vars
<1> QED
  BY <1>1, <1>2, <1>3, <1>5, <1>6, <1>7, <1>8, <1>9, <1>10, <1>12, <1>13 DEF Next, WorkerStep

LEMMA ReceiptsInit == Init => ReceiptsFollow
<1> SUFFICES ASSUME Init PROVE ReceiptsFollow
  OBVIOUS
<1>1. \A k \in Calls : EffectsOf(k) = {}
  BY DEF Init, EffectsOf
<1>2. \A k \in Calls : Cardinality(EffectsOf(k)) = 0
  BY <1>1, FS_EmptySet
<1>3. worker.pc = "idle" /\ lost = 0 /\ \A k \in Calls : receipted[k] = NoArgs
  BY DEF Init, IdleWorker
<1> QED
  BY <1>2, <1>3 DEF ReceiptsFollow

(* However often a trigger is run again, a resumption is tried again or a worker
   is stopped, a call lands once more only for a fault that took its receipt
   (Gateway._prior_outcome). *)
THEOREM RepeatsAreFaults == Spec => []RepeatsArePaidFor
<1>1. IInv /\ ReceiptsFollow => RepeatsArePaidFor
  <2> SUFFICES ASSUME IInv, ReceiptsFollow, NEW k \in Calls
               PROVE  Cardinality(EffectsOf(k)) <= 1 + lost
    BY DEF RepeatsArePaidFor
  <2>1. lost \in Nat /\ Cardinality(EffectsOf(k)) \in Nat
    BY EffectsCounted, RunAssumption DEF IInv, TypeOK
  <2>2. Cardinality(EffectsOf(k)) <= IF Landed(k) THEN 1 + lost ELSE lost
    BY DEF ReceiptsFollow, Landed
  <2> QED
    BY <2>1, <2>2
<1> QED
  BY <1>1, ReceiptsInit, ReceiptsNext, Invariance, PTL DEF Spec
=============================================================================
