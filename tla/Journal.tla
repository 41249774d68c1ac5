------------------------------ MODULE Journal -------------------------------
(***************************************************************************)
(* MongoJournalStore.append (packages/kernel/.../stores/mongo.py): the seq  *)
(* of an event is max_seq + 1, read and then inserted under two UNIQUE      *)
(* indexes (db/.../indexes.py).  Nothing locks the journal between the two  *)
(* steps, so API handlers, the scheduler worker and the watch worker race   *)
(* for the same seq; the loser recomputes and tries again a bounded number  *)
(* of times.                                                                *)
(*                                                                         *)
(* An event is abstracted to its instance, its idempotency key and the      *)
(* coroutine that wrote it.  The journal is a SET of documents, as the      *)
(* collection is: order, uniqueness and the absence of gaps are properties  *)
(* of the protocol and not of the data type.                                *)
(***************************************************************************)
EXTENDS Integers, FiniteSets, Sequences

CONSTANTS
    Instances,      (* instance_id values                                   *)
    Keys,           (* idempotency keys                                     *)
    NoKey,          (* idempotency_key = None                               *)
    Writers,        (* coroutines that may call append                      *)
    MaxSeqRetries,  (* _MAX_SEQ_RETRIES                                     *)
    MaxCalls        (* bound: append calls in one behaviour                 *)

ASSUME JournalAssumption ==
    /\ NoKey \notin Keys
    /\ "none" \notin Instances
    /\ MaxSeqRetries \in Nat \ {0}
    /\ MaxCalls \in Nat

VARIABLES
    docs,           (* the journal collection                               *)
    call,           (* [Writers -> the state of the writer's append call]   *)
    calls           (* append calls begun so far (bounded by MaxCalls)      *)

vars == <<docs, call, calls>>

Busy == {"read", "insert"}
Outcomes == {"idle", "returned", "duplicate", "contention", "cancelled"}

Doc == [instance_id : Instances, seq : Nat \ {0},
        idempotency_key : Keys \cup {NoKey}, writer : Writers]

CallState == [pc : Busy \cup Outcomes, instance_id : Instances \cup {"none"},
              idempotency_key : Keys \cup {NoKey}, attempt : Nat, seq : Nat,
              head : Nat]

TypeOK ==
    /\ docs \subseteq Doc
    /\ call \in [Writers -> CallState]
    /\ calls \in 0 .. MaxCalls

-----------------------------------------------------------------------------
(* The collection's queries *)

SeqsOf(i) == {d.seq : d \in {e \in docs : e.instance_id = i}}

Greatest(S) == IF S = {} THEN 0 ELSE CHOOSE m \in S : \A n \in S : n <= m

(* max_seq: the seq of the first document in descending order, 0 if none. *)
MaxSeq(i) == Greatest(SeqsOf(i))

(* Bug* operators are plausible mistakes, used only as mutants: here, a unique
   index that was never created. *)
BugNoSeqIndex(i, n) == FALSE
BugNoKeyIndex(k) == FALSE

(* The unique index ix_journal_instance_seq rejects the document. *)
SeqTaken(i, n) == \E d \in docs : d.instance_id = i /\ d.seq = n

(* The sparse unique index ix_journal_idem rejects the document. *)
KeyTaken(k) == k # NoKey /\ \E d \in docs : d.idempotency_key = k

-----------------------------------------------------------------------------
Init ==
    /\ docs = {}
    /\ call = [w \in Writers |->
                 [pc |-> "idle", instance_id |-> "none",
                  idempotency_key |-> NoKey, attempt |-> 0, seq |-> 0,
                  head |-> 0]]
    /\ calls = 0

(* A coroutine enters append.  `head` is history: the head of the ledger when
   the call began. *)
BeginAppend(w, i, k) ==
    /\ calls < MaxCalls
    /\ call[w].pc \in Outcomes
    /\ call' = [call EXCEPT ![w] =
                  [pc |-> "read", instance_id |-> i, idempotency_key |-> k,
                   attempt |-> 0, seq |-> 0, head |-> MaxSeq(i)]]
    /\ calls' = calls + 1
    /\ UNCHANGED docs

(* seq = await self.max_seq(...) + 1 *)
ReadMaxSeq(w) ==
    /\ call[w].pc = "read"
    /\ call' = [call EXCEPT ![w].pc = "insert",
                            ![w].seq = MaxSeq(call[w].instance_id) + 1]
    /\ UNCHANGED <<docs, calls>>

NewDoc(w) == [instance_id |-> call[w].instance_id, seq |-> call[w].seq,
              idempotency_key |-> call[w].idempotency_key, writer |-> w]

(* Mutant: a lost reply is answered with another attempt. *)
BugRetryLostReply(w) ==
    /\ call[w].pc = "insert"
    /\ ~SeqTaken(call[w].instance_id, call[w].seq)
    /\ ~KeyTaken(call[w].idempotency_key)
    /\ docs' = docs \cup {NewDoc(w)}
    /\ \E next \in {"returned", "read"} : call' = [call EXCEPT ![w].pc = next]
    /\ UNCHANGED calls

(* insert_one passes both indexes.  A caller cancelled while the reply is on
   its way (stop_worker, a dropped connection) never learns of it. *)
InsertSucceeds(w) ==
    /\ call[w].pc = "insert"
    /\ ~SeqTaken(call[w].instance_id, call[w].seq)
    /\ ~KeyTaken(call[w].idempotency_key)
    /\ docs' = docs \cup {NewDoc(w)}
    /\ \E outcome \in {"returned", "cancelled"} :
          call' = [call EXCEPT ![w].pc = outcome]
    /\ UNCHANGED calls

(* DuplicateKeyError on ix_journal_idem.  When both indexes reject the
   document the server reports either of them. *)
InsertHitsKey(w) ==
    /\ call[w].pc = "insert"
    /\ KeyTaken(call[w].idempotency_key)
    /\ call' = [call EXCEPT ![w].pc = "duplicate"]
    /\ UNCHANGED <<docs, calls>>

(* Mutant: every collision of an event with a key taken for a spent key. *)
BugSeqTakenForKey(w) ==
    /\ call[w].pc = "insert"
    /\ SeqTaken(call[w].instance_id, call[w].seq)
    /\ call' = [call EXCEPT
                  ![w].attempt = @ + 1,
                  ![w].pc = IF call[w].idempotency_key # NoKey THEN "duplicate"
                            ELSE IF call[w].attempt + 1 < MaxSeqRetries
                                 THEN "read" ELSE "contention"]
    /\ UNCHANGED <<docs, calls>>

(* Mutant: the seq is computed once, before the loop. *)
BugStaleSeq(w) ==
    /\ call[w].pc = "insert"
    /\ SeqTaken(call[w].instance_id, call[w].seq)
    /\ call' = [call EXCEPT
                  ![w].attempt = @ + 1,
                  ![w].pc = IF call[w].attempt + 1 < MaxSeqRetries
                            THEN "insert" ELSE "contention"]
    /\ UNCHANGED <<docs, calls>>

(* Mutant: a stale seq and no budget. *)
BugRetryForever(w) ==
    /\ call[w].pc = "insert"
    /\ SeqTaken(call[w].instance_id, call[w].seq)
    /\ UNCHANGED vars

(* DuplicateKeyError on ix_journal_instance_seq: continue, or fall out of the
   loop when that was the last attempt. *)
InsertHitsSeq(w) ==
    /\ call[w].pc = "insert"
    /\ SeqTaken(call[w].instance_id, call[w].seq)
    /\ call' = [call EXCEPT
                  ![w].attempt = @ + 1,
                  ![w].pc = IF call[w].attempt + 1 < MaxSeqRetries
                            THEN "read" ELSE "contention"]
    /\ UNCHANGED <<docs, calls>>

(* CancelledError at either await, before the insert took effect. *)
Cancel(w) ==
    /\ call[w].pc \in Busy
    /\ call' = [call EXCEPT ![w].pc = "cancelled"]
    /\ UNCHANGED <<docs, calls>>

Step(w) ==
    \/ ReadMaxSeq(w)
    \/ InsertSucceeds(w)
    \/ InsertHitsKey(w)
    \/ InsertHitsSeq(w)

Next == \E w \in Writers :
    \/ \E i \in Instances, k \in Keys \cup {NoKey} : BeginAppend(w, i, k)
    \/ Step(w)
    \/ Cancel(w)

Spec == Init /\ [][Next]_vars

(* The event loop runs every coroutine that can run, and a query or an insert
   gets an answer. *)
Fairness == \A w \in Writers : WF_vars(Step(w))
FairSpec == Spec /\ Fairness

-----------------------------------------------------------------------------
(* Properties *)

(* "Per-instance monotonic sequence number - the total order of the ledger"
   (contracts/journal.py): whatever the interleaving of appenders and
   cancellations, the stored seqs of an instance are 1, 2, ..., n with no gap
   and no two events share one. *)
TotalOrder ==
    /\ \A i \in Instances : SeqsOf(i) = 1 .. MaxSeq(i)
    /\ \A d, e \in docs :
          d.instance_id = e.instance_id /\ d.seq = e.seq => d = e

(* "the journal enforces uniqueness so retries never double-append": an
   idempotency key is in at most one event of the whole journal. *)
KeySpentOnce ==
    \A d, e \in docs :
       d.idempotency_key # NoKey /\ d.idempotency_key = e.idempotency_key => d = e

(* A caller is told the truth: a stamped event that was returned is stored
   with that seq, and DuplicateIdempotencyKey means the key is in the journal. *)
OutcomeIsTrue ==
    \A w \in Writers :
       /\ call[w].pc = "returned" => NewDoc(w) \in docs
       /\ call[w].pc = "duplicate" => KeyTaken(call[w].idempotency_key)

(* "This is raised only if every retry lost the race" (errors.py): each failed
   attempt of a call is paid for by another event appended to the same
   instance since the call began, so a contention error implies at least
   MaxSeqRetries rival appends. *)
EveryRetryLostARace ==
    \A w \in Writers :
       call[w].pc \in Busy \cup {"contention"} =>
          call[w].head + call[w].attempt <= MaxSeq(call[w].instance_id)

(* An append only ever adds the event right after the head a reader may have
   seen: nothing is rewritten, removed, or slipped in behind a tailing reader. *)
GrowsAtHead ==
    [][ /\ docs \subseteq docs'
        /\ \A d \in docs' \ docs : d.seq = MaxSeq(d.instance_id) + 1 ]_docs

(* The retry loop ends: every append call comes to an outcome. *)
EveryAppendEnds ==
    \A w \in Writers : call[w].pc \in Busy ~> call[w].pc \in Outcomes

(* What makes the above inductive: an attempt's seq is beyond every rival that
   had committed when it was read, and never beyond the next free position. *)
AttemptNearHead ==
    \A w \in Writers :
       /\ call[w].pc # "idle" => call[w].instance_id \in Instances
       /\ call[w].pc = "insert" =>
             call[w].seq \in (call[w].head + call[w].attempt + 1)
                                .. (MaxSeq(call[w].instance_id) + 1)

HeadsAreNat == \A i \in Instances : MaxSeq(i) \in Nat

IInv ==
    /\ TypeOK
    /\ HeadsAreNat
    /\ TotalOrder
    /\ KeySpentOnce
    /\ OutcomeIsTrue
    /\ EveryRetryLostARace
    /\ AttemptNearHead

-----------------------------------------------------------------------------
(* Refinement of the abstract ledger *)

DocAt(i, n) == CHOOSE d \in docs : d.instance_id = i /\ d.seq = n

LedgerOf(i) ==
    [n \in 1 .. MaxSeq(i) |->
        [idempotency_key |-> DocAt(i, n).idempotency_key,
         writer |-> DocAt(i, n).writer]]

OpenCall(w) ==
    IF call[w].pc \in Busy
    THEN [instance_id |-> call[w].instance_id,
          idempotency_key |-> call[w].idempotency_key]
    ELSE [instance_id |-> "none", idempotency_key |-> NoKey]

Abstract == INSTANCE Ledger WITH
    ledger <- [i \in Instances |-> LedgerOf(i)],
    open <- [w \in Writers |-> OpenCall(w)]

(* The racing read-then-insert protocol is an atomic append: each call commits
   at most once, at one instant, at the end of its instance's order. *)
AppendIsAtomic == Abstract!Spec
=============================================================================
