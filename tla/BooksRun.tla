------------------------------- MODULE BooksRun -------------------------------
(***************************************************************************)
(* The books-prep mandate run by the deterministic harness: every statement *)
(* of a batch is ingested (syscall: books.py), its rows are categorised     *)
(* against the ledger rows the heap already holds (mandate:                 *)
(* books_prep_playbook.py), the doubtful ones are queued for the accountant  *)
(* and the ledger is exported, one gateway call each, and the clean ones are *)
(* verified (kernel: verifier.py), settled and projected into the heap.     *)
(*                                                                         *)
(* Batches of one instance wait in the scheduler; an exception anywhere      *)
(* fails the work item, which is invoked again from the start, behind what   *)
(* was due before it, under the same run id and the same idempotency keys.   *)
(* What it then reads in the heap may have changed.                         *)
(***************************************************************************)
EXTENDS Integers, Sequences, FiniteSets, SequencesExt

CONSTANTS
    Batches,        (* books-prep triggers of one instance, one run id each  *)
    Docs,           (* files in the intake directory                         *)
    Statements,     (* what such a file may hold: sequences of Entry         *)
    Targets,        (* charter.target.documents: sequences of Docs           *)
    NoBalance,      (* a balance cell that does not parse                    *)
    MaxFaults       (* bound: exceptions out of invoke, and error results     *)

Entry == [line : Nat, amount : Int, balance : Int \cup {NoBalance}, sure : BOOLEAN, dated : BOOLEAN]

ASSUME BooksAssumption ==
    /\ IsFiniteSet(Batches)
    /\ Statements \subseteq Seq(Entry) /\ Targets \subseteq Seq(Docs)
    /\ MaxFaults \in Nat

VARIABLES
    files, target,  (* the intake directory; the documents of each batch     *)
    line,           (* work items, in the order claim_next takes them        *)
    run,            (* the invocation in progress                            *)
    attempts,       (* SyscallAttempted events, by batch                     *)
    receipts,       (* SyscallReceipts, by batch                             *)
    tasks,          (* manual tasks: <<batch, row>>                          *)
    settled,        (* RunSettled: the rows claimed, by batch                *)
    heap,           (* HEAP_FACT: ledger_transaction facts                   *)
    outcome,        (* what the completed work item returned                 *)
    plans,          (* history: the ledgers categorised, by batch            *)
    faults

vars == <<files, target, line, run, attempts, receipts, tasks, settled, heap, outcome, plans, faults>>

----------------------------------------------------------------------------
(* Ingesting one statement.  A line carries its number in the document (a    *)
(* PDF numbers each page from 1), the signed amount, the balance printed     *)
(* after it, whether it has a date, and whether its narration matches a      *)
(* ledger-head rule at or above the confidence threshold.                    *)

(* What of a sequence stands at some of its places, in its order. *)
Kept(s, places) ==
    LET kept[n \in 0 .. Len(s)] ==
          IF n = 0 THEN <<>>
          ELSE IF n \in places THEN Append(kept[n - 1], s[n]) ELSE kept[n - 1]
    IN  kept[Len(s)]

(* A line with no date is no transaction, and nobody hears of it. *)
Extract == [s \in Statements |-> Kept(s, {i \in DOMAIN s : s[i].dated})]

Printed(rows, i) == {j \in 1 .. (i - 1) : rows[j].balance # NoBalance}

(* The row does not follow from the last balance read, or has none. *)
Suspect(rows, i) ==
    \/ rows[i].balance = NoBalance
    \/ /\ Printed(rows, i) # {}
       /\ rows[Max(Printed(rows, i))].balance + rows[i].amount # rows[i].balance

Suspects == [s \in Statements |-> {i \in DOMAIN Extract[s] : Suspect(Extract[s], i)}]

(* The whole document goes back: nothing readable in it, or more than half  *)
(* of its rows suspect.                                                      *)
Bounced(s) ==
    Extract[s] = <<>> \/ 2 * Cardinality(Suspects[s]) > Len(Extract[s])

(* A transaction is named by its dedupe key: the account, which is the        *)
(* document, and what the row holds, for which its place there stands.      *)
Transactions(d) == [i \in DOMAIN Extract[files[d]] |-> <<d, i>>]
Doc(t) == t[1]
Row(t) == Extract[files[Doc(t)]][t[2]]

----------------------------------------------------------------------------
(* Categorising.  The series a balance runs in is the document's account.    *)

InSeries(txns, i) == {j \in 1 .. (i - 1) : Doc(txns[j]) = Doc(txns[i])}

BalanceBreak(txns, i) ==
    /\ InSeries(txns, i) # {}
    /\ LET prev == Row(txns[Max(InSeries(txns, i))])
           row == Row(txns[i]) IN
       prev.balance # NoBalance /\ row.balance # NoBalance /\ prev.balance + row.amount # row.balance

Repeated(txns, i) == \E j \in 1 .. (i - 1) : txns[j] = txns[i]

Queued(txns, i) ==
    ~Row(txns[i]).sure \/ txns[i][2] \in Suspects[files[Doc(txns[i])]] \/ Repeated(txns, i)

(* A slip: the dedupe keys the heap holds are not looked up. *)
BugNoHeapKeys(txns, known) == txns

(* What the heap already holds is skipped. *)
Fresh(txns, known) == Kept(txns, {i \in DOMAIN txns : txns[i] \notin known})

Ledger(txns) ==
    [i \in DOMAIN txns |->
        [txn |-> txns[i], break |-> BalanceBreak(txns, i), queued |-> Queued(txns, i)]]

Facts(rows) == Kept(rows, {i \in DOMAIN rows : ~rows[i].queued})

(* queue_manual_action is keyed by the row's place in the ledger ... *)
RowCalls(rows) == [i \in DOMAIN rows |-> [key |-> i, args |-> <<rows[i]>>]]

(* A slip: a row is queued for its narration, never for its balance. *)
BugQueueUnsure(rows) ==
    Kept(RowCalls(rows), {i \in DOMAIN rows : ~Row(rows[i].txn).sure})

QueueCalls(rows) ==
    Kept(RowCalls(rows), {i \in DOMAIN rows : rows[i].queued})

(* ... and the export by the run: key 0 stands for it.                        *)
Calls(rows) == Append(QueueCalls(rows), [key |-> 0, args |-> rows])

----------------------------------------------------------------------------
(* RulesVerifier on the claimed rows.  A series is sorted by line number     *)
(* alone, and the claimed rows are all it sees of the statement.             *)

Before(facts, i, j) ==
    /\ Doc(facts[i].txn) = Doc(facts[j].txn)
    /\ \/ Row(facts[i].txn).line < Row(facts[j].txn).line
       \/ Row(facts[i].txn).line = Row(facts[j].txn).line /\ i < j

Adjacent(facts, i, j) ==
    Before(facts, i, j) /\ ~\E k \in DOMAIN facts : Before(facts, i, k) /\ Before(facts, k, j)

BalanceContinuity(facts) ==
    \A i, j \in DOMAIN facts : Adjacent(facts, i, j) =>
        \/ facts[j].break
        \/ Row(facts[i].txn).balance + Row(facts[j].txn).amount = Row(facts[j].txn).balance

UniqueKeys(facts) == \A i, j \in DOMAIN facts : facts[i].txn = facts[j].txn => i = j

Confident(facts) == \A i \in DOMAIN facts : Row(facts[i].txn).sure

(* The postconditions of the charter.  Those on a row's source, ledger head    *)
(* and GST treatment hold of every row the playbook makes.                    *)
Postconditions(facts) ==
    [has_transactions |-> Len(facts) >= 1, low_confidence_queued |-> Confident(facts),
     balance_continuity |-> BalanceContinuity(facts), no_duplicate_commit |-> UniqueKeys(facts)]

Verified(facts) == FALSE \notin Range(Postconditions(facts))

----------------------------------------------------------------------------
NoRun == [at |-> "none"]
NewRun(b) == [at |-> "hydrate", batch |-> b, known |-> {}, docs |-> <<>>, txns |-> <<>>,
              calls |-> <<>>, facts |-> <<>>, result |-> "none"]
At(place) == run.at = place

Init ==
    /\ files \in [Docs -> Statements]
    /\ target \in [Batches -> Targets]
    /\ line = SetToSeq(Batches)
    /\ run = NoRun
    /\ attempts = [b \in Batches |-> {}]
    /\ receipts = [b \in Batches |-> {}]
    /\ tasks = {}
    /\ settled = [b \in Batches |-> {}]
    /\ heap = {}
    /\ outcome = [b \in Batches |-> "open"]
    /\ plans = [b \in Batches |-> {}]
    /\ faults = 0

world == <<files, target>>
gateway == <<attempts, receipts, tasks>>
ledger == <<settled, heap>>

(* The worker claims the item that has been due longest; invoke appends      *)
(* RunCreated without asking whether the run has settled.                    *)
Claim ==
    /\ At("none") /\ line # <<>>
    /\ run' = NewRun(Head(line))
    /\ line' = Tail(line)
    /\ UNCHANGED <<world, gateway, ledger, outcome, plans, faults>>

(* The snapshot: every ledger_transaction of the instance. *)
Hydrate ==
    /\ At("hydrate")
    /\ run' = [run EXCEPT !.at = "ingest", !.docs = target[run.batch], !.known = {f.row : f \in heap}]
    /\ UNCHANGED <<world, line, gateway, ledger, outcome, plans, faults>>

(* One ingest_document read.  A document that bounces is an error result,    *)
(* which the harness does not look at.                                       *)
Ingest ==
    /\ At("ingest") /\ run.docs # <<>>
    /\ LET d == Head(run.docs) IN
       run' = [run EXCEPT !.docs = Tail(@), !.txns = IF Bounced(files[d]) THEN @ ELSE @ \o Transactions(d)]
    /\ UNCHANGED <<world, line, gateway, ledger, outcome, plans, faults>>

(* The playbook resumes after the last read. *)
Categorize ==
    /\ At("ingest") /\ run.docs = <<>>
    /\ \E txns \in {Fresh(run.txns, run.known)} : \E rows \in {Ledger(txns)} :
       /\ run' = [run EXCEPT !.at = "call", !.calls = Calls(rows), !.facts = Facts(rows)]
       /\ plans' = [plans EXCEPT ![run.batch] = @ \cup {rows}]
    /\ UNCHANGED <<world, line, gateway, ledger, outcome, faults>>

(* A slip: the work item is left claimed. *)
BugLoseItem == run' = NoRun /\ line' = line

(* The work item fails: due again now, behind what was due before. *)
Fail == run' = NoRun /\ line' = Append(line, run.batch)

Same(log, call) == \E e \in log[run.batch] : e.key = call.key
Conflict(log, call) == \E e \in log[run.batch] : e.key = call.key /\ e.args # call.args

(* A key whose receipt or attempt was made with other args: the gateway      *)
(* raises IdempotencyRequestConflict.                                        *)
Clash ==
    /\ At("call") /\ run.calls # <<>>
    /\ Conflict(receipts, Head(run.calls)) \/ Conflict(attempts, Head(run.calls))
    /\ Fail
    /\ UNCHANGED <<world, gateway, ledger, outcome, plans, faults>>

(* The receipt of an earlier invocation answers the call. *)
Replay ==
    /\ At("call") /\ run.calls # <<>>
    /\ Same(receipts, Head(run.calls)) /\ ~Conflict(receipts, Head(run.calls))
    /\ run' = [run EXCEPT !.calls = Tail(@)]
    /\ UNCHANGED <<world, line, gateway, ledger, outcome, plans, faults>>

Attempt ==
    /\ At("call") /\ run.calls # <<>>
    /\ ~Same(receipts, Head(run.calls)) /\ ~Conflict(attempts, Head(run.calls))
    /\ attempts' = [attempts EXCEPT ![run.batch] = @ \cup {Head(run.calls)}]
    /\ run' = [run EXCEPT !.at = "execute"]
    /\ UNCHANGED <<world, line, receipts, tasks, ledger, outcome, plans, faults>>

(* The adapter queues the row or writes the workbook, or answers an error. *)
Execute ==
    /\ At("execute")
    /\ \E result \in {"ok", "error"} :
       /\ faults' = IF result = "error" THEN faults + 1 ELSE faults
       /\ faults' <= MaxFaults
       /\ run' = [run EXCEPT !.at = "receipt", !.result = result]
       /\ tasks' = IF result = "ok" /\ Head(run.calls).key # 0
                     THEN tasks \cup {<<run.batch, Head(run.calls).args[1].txn>>} ELSE tasks
    /\ UNCHANGED <<world, line, attempts, receipts, ledger, outcome, plans>>

Receipt ==
    /\ At("receipt")
    /\ receipts' = [receipts EXCEPT ![run.batch] = @ \cup
            {[key |-> Head(run.calls).key, args |-> Head(run.calls).args, result |-> run.result]}]
    /\ run' = [run EXCEPT !.at = "call", !.calls = Tail(@)]
    /\ UNCHANGED <<world, line, attempts, tasks, ledger, outcome, plans, faults>>

Complete(result) == run' = NoRun /\ outcome' = [outcome EXCEPT ![run.batch] = result]

(* Finish: a run whose claims do not verify is a result like any other, and  *)
(* completes its work item.                                                  *)
Reject ==
    /\ At("call") /\ run.calls = <<>> /\ ~Verified(run.facts)
    /\ Complete("crashed")
    /\ UNCHANGED <<world, line, gateway, ledger, plans, faults>>

(* SettlementCommitter appends RunSettled ... *)
Settle ==
    /\ At("call") /\ run.calls = <<>> /\ Verified(run.facts)
    /\ settled' = [settled EXCEPT ![run.batch] = @ \cup {run.facts[i].txn : i \in DOMAIN run.facts}]
    /\ run' = [run EXCEPT !.at = "project"]
    /\ UNCHANGED <<world, line, gateway, heap, outcome, plans, faults>>

(* ... and the heap projector upserts its facts one at a time, by fact id.   *)
Project ==
    /\ At("project") /\ run.facts # <<>>
    /\ heap' = heap \cup {[run |-> run.batch, row |-> Head(run.facts).txn]}
    /\ run' = [run EXCEPT !.facts = Tail(@)]
    /\ UNCHANGED <<world, line, gateway, settled, outcome, plans, faults>>

Return ==
    /\ At("project") /\ run.facts = <<>>
    /\ Complete("settled")
    /\ UNCHANGED <<world, line, gateway, ledger, plans, faults>>

(* A store raises at whatever the run awaits next. *)
Raise ==
    /\ ~At("none") /\ faults < MaxFaults
    /\ Fail
    /\ faults' = faults + 1
    /\ UNCHANGED <<world, gateway, ledger, outcome, plans>>

Work == \/ Claim \/ Hydrate \/ Ingest \/ Categorize
        \/ Clash \/ Replay \/ Attempt \/ Execute \/ Receipt
        \/ Reject \/ Settle \/ Project \/ Return

Next == Work \/ Raise

Spec == Init /\ [][Next]_vars
(* _worker_loop goes on whatever an item raises. *)
FairSpec == Spec /\ WF_vars(Work)

----------------------------------------------------------------------------
(* A batch is invoked with the documents of its charter, rows of documents     *)
(* become rows of a ledger, and those calls and facts.                        *)
Transaction == Docs \X (Nat \ {0})
LedgerRow == [txn : Transaction, break : BOOLEAN, queued : BOOLEAN]
SysCall == {c \in [key : Nat, args : Seq(LedgerRow)] : c.key # 0 => c.args # <<>>}
Invocation ==
    [at : {"hydrate", "ingest", "call", "execute", "receipt", "project"}, batch : Batches,
     known : SUBSET Transaction, docs : Seq(Docs), txns : Seq(Transaction),
     calls : Seq(SysCall), facts : Seq(LedgerRow), result : {"none", "ok", "error"}]

TypeOK ==
    /\ files \in [Docs -> Statements] /\ target \in [Batches -> Targets]
    /\ line \in Seq(Batches)
    /\ run \in {NoRun} \cup Invocation
    /\ attempts \in [Batches -> SUBSET SysCall]
    /\ receipts \in [Batches -> SUBSET [key : Nat, args : Seq(LedgerRow), result : {"ok", "error"}]]
    /\ tasks \subseteq Batches \X Transaction
    /\ settled \in [Batches -> SUBSET Transaction]
    /\ heap \subseteq [run : Batches, row : Transaction]
    /\ outcome \in [Batches -> {"open", "settled", "crashed"}]
    /\ plans \in [Batches -> SUBSET Seq(LedgerRow)]
    /\ faults \in 0 .. MaxFaults

RowsIn(docs) == UNION {Range(Transactions(d)) : d \in {e \in docs : ~Bounced(files[e])}}
RowsOf(b) == RowsIn(Range(target[b]))
HeapRows == {f.row : f \in heap}
(* A queue call that answered an error: the playbook does not look. *)
Unqueued(b) == {r.args[1].txn : r \in {q \in receipts[b] : q.key # 0 /\ q.result = "error"}}
Accounted(b) == Unqueued(b) \cup {t[2] : t \in {u \in tasks : u[1] = b}}

(* Once a batch has settled, every row read out of its documents is accounted *)
(* for, over all the invocations it took: it is a fact of the ledger, or it   *)
(* is in the accountant's queue, or queueing it was answered by an error.     *)
NoRowIsLost ==
    \A b \in Batches : outcome[b] = "settled" =>
        RowsOf(b) \subseteq HeapRows \cup Accounted(b)

(* One transaction of a statement is one fact of the ledger, whichever        *)
(* batches name the statement and however often they were invoked: the        *)
(* cross-batch deduplication of the playbook, with one worker.                *)
HeapHoldsEachRowOnce == \A f, g \in heap : f.row = g.row => f = g

(* The batches' items make a work queue: one that waits is claimed from the head  *)
(* of the line and is nowhere else, what fails is put back once, what has an      *)
(* outcome is never claimed again.                                            *)
ItemOf(b) ==
    IF outcome[b] # "open" THEN "completed"
    ELSE IF b \in Range(line) THEN "pending" ELSE "claimed"
Held == [k \in {"worker"} |-> IF At("none") THEN {} ELSE {run.batch}]

Queue == INSTANCE WorkQueue WITH
    Items <- Batches, Workers <- {"worker"},
    row <- [b \in Batches |-> ItemOf(b)], holds <- Held

ImplementsWorkQueue == Queue!Spec

(* A batch comes to an outcome, unless one of its retries categorised a       *)
(* different ledger: its calls are keyed by place, and one that was made with  *)
(* another row raises at every retry from then on.                            *)
EveryBatchEnds ==
    \A b \in Batches : [](Cardinality(plans[b]) <= 1) => <>(outcome[b] # "open")

Reconciles(s) == s # <<>> /\ Suspects[s] = {} /\ \A i \in DOMAIN s : s[i].dated

(* A batch of statements that reconcile settles if it has a row to claim: a   *)
(* break of the running balance fails verification, and there is none         *)
(* (verifier.py: consecutive balances reconcile OR the break is flagged).     *)
ReconciledStatementSettles ==
    \A b \in Batches :
        outcome[b] = "crashed" /\ (\A d \in Range(target[b]) : Reconciles(files[d]))
            => \A rows \in plans[b] : Facts(rows) = <<>>

----------------------------------------------------------------------------
(* The strengthening of the safety properties.  With one worker the heap is    *)
(* what the invocation read in it until it projects its own facts, and these   *)
(* are none of those; a row of the batch is read, or still to be, and once the *)
(* ledger is made it is where NoRowIsLost looks for it, or a call or a fact    *)
(* of the invocation still brings it there.                                 *)
Deciding == {"call", "execute", "receipt"}

HeapIsKnown ==
    /\ run.at \in {"ingest"} \cup Deciding => run.known = HeapRows
    /\ run.at \in Deciding \cup {"project"} =>
          \A i \in DOMAIN run.facts : run.facts[i].txn \notin HeapRows
    /\ At("project") => UniqueKeys(run.facts)

CallsPending ==
    /\ run.at \in {"execute", "receipt"} => run.calls # <<>>
    /\ At("receipt") => run.result # "none"
    /\ At("receipt") /\ run.result = "ok" /\ Head(run.calls).key # 0 =>
          <<run.batch, Head(run.calls).args[1].txn>> \in tasks
    /\ \A b \in Batches : \A r \in receipts[b] :
          r.key # 0 /\ r.result = "ok" => <<b, r.args[1].txn>> \in tasks

ToCall == {c.args[1].txn : c \in {d \in Range(run.calls) : d.key # 0}}
ToProject == {f.txn : f \in Range(run.facts)}

RowsAreCarried ==
    /\ At("ingest") => RowsOf(run.batch) \subseteq Range(run.txns) \cup RowsIn(Range(run.docs))
    /\ run.at \in Deciding =>
          RowsOf(run.batch) \subseteq HeapRows \cup Accounted(run.batch) \cup ToCall \cup ToProject
    /\ At("project") =>
          RowsOf(run.batch) \subseteq HeapRows \cup Accounted(run.batch) \cup ToProject

(* The strengthening of ImplementsWorkQueue: a batch waits in one place of the    *)
(* line, or is in the worker's hands, or has its outcome.                     *)
LineInv ==
    /\ \A i, j \in DOMAIN line : line[i] = line[j] => i = j
    /\ \A i \in DOMAIN line : outcome[line[i]] = "open"
    /\ ~At("none") => run.batch \notin Range(line) /\ outcome[run.batch] = "open"

IInv == /\ TypeOK /\ HeapHoldsEachRowOnce /\ HeapIsKnown /\ CallsPending
        /\ RowsAreCarried /\ NoRowIsLost
=============================================================================
