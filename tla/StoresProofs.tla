---------------------------- MODULE StoresProofs -----------------------------
(***************************************************************************)
(* The kernel's two stores.  The journal's guarantees for any number of     *)
(* instances, keys, writers and any retry budget, and the proof that the    *)
(* Mongo protocol implements the atomic ledger; then the work queue's       *)
(* safety for any number of items, workers, failures and crashes.           *)
(***************************************************************************)
EXTENDS Journal, Scheduler, SequenceTheorems, TLAPS

-----------------------------------------------------------------------------
(* The journal *)

(* The greatest element of an initial segment of the positive naturals. *)
LEMMA GreatestOfInterval == \A n \in Nat : Greatest(1 .. n) = n
<1> SUFFICES ASSUME NEW n \in Nat PROVE Greatest(1 .. n) = n
  OBVIOUS
<1>1. CASE n = 0
  BY <1>1 DEF Greatest
<1>2. CASE n # 0
  <2>1. n \in 1 .. n /\ \A m \in 1 .. n : m <= n
    BY <1>2
  <2>2. \A m \in 1 .. n : (\A k \in 1 .. n : k <= m) => m = n
    BY <2>1
  <2>3. (CHOOSE m \in 1 .. n : \A k \in 1 .. n : k <= m) = n
    BY <2>1, <2>2
  <2> QED
    BY <1>2, <2>1, <2>3 DEF Greatest
<1> QED
  BY <1>1, <1>2

(* An insert that passes both indexes lands exactly after the head, and moves
   the head of its own instance only. *)
LEMMA InsertLandsAfterHead ==
  ASSUME IInv, NEW w \in Writers, InsertSucceeds(w),
         NEW j \in Instances, call[w].instance_id = j
  PROVE  /\ call[w].seq = MaxSeq(j) + 1
         /\ \A i \in Instances \ {j} :
               SeqsOf(i)' = SeqsOf(i) /\ MaxSeq(i)' = MaxSeq(i)
         /\ SeqsOf(j)' = 1 .. (MaxSeq(j) + 1)
         /\ MaxSeq(j)' = MaxSeq(j) + 1
<1>1. call[w] \in CallState /\ call[w].pc = "insert"
  BY DEF IInv, TypeOK, InsertSucceeds
<1>2. MaxSeq(j) \in Nat /\ SeqsOf(j) = 1 .. MaxSeq(j)
  BY DEF IInv, HeadsAreNat, TotalOrder
<1>3. call[w].seq = MaxSeq(j) + 1
  <2>1. call[w].seq \notin SeqsOf(j)
    BY DEF InsertSucceeds, SeqTaken, SeqsOf
  <2>2. call[w].seq \in (call[w].head + call[w].attempt + 1) .. (MaxSeq(j) + 1)
    BY <1>1 DEF IInv, AttemptNearHead
  <2>3. call[w].head \in Nat /\ call[w].attempt \in Nat /\ call[w].seq \in Nat
    BY <1>1 DEF CallState
  <2> QED
    BY <1>2, <2>1, <2>2, <2>3
<1>4. docs' = docs \cup {NewDoc(w)}
  BY DEF InsertSucceeds
<1>5. NewDoc(w).instance_id = j /\ NewDoc(w).seq = MaxSeq(j) + 1
  BY <1>3 DEF NewDoc
<1>6. \A i \in Instances \ {j} : SeqsOf(i)' = SeqsOf(i)
  BY <1>4, <1>5 DEF SeqsOf
<1>7. SeqsOf(j)' = SeqsOf(j) \cup {MaxSeq(j) + 1}
  BY <1>4, <1>5 DEF SeqsOf
<1>8. SeqsOf(j)' = 1 .. (MaxSeq(j) + 1)
  BY <1>2, <1>7
<1>9. MaxSeq(j)' = MaxSeq(j) + 1
  BY <1>2, <1>8, GreatestOfInterval DEF MaxSeq
<1>10. \A i \in Instances \ {j} : MaxSeq(i)' = MaxSeq(i)
  BY <1>6 DEF MaxSeq
<1> QED
  BY <1>3, <1>6, <1>8, <1>9, <1>10

(* The empty journal satisfies the inductive invariant. *)
LEMMA InitInv == Init => IInv
<1> SUFFICES ASSUME Init PROVE IInv
  OBVIOUS
<1>1. \A i : SeqsOf(i) = {} /\ MaxSeq(i) = 0
  BY DEF Init, SeqsOf, MaxSeq, Greatest
<1>2. TypeOK
  BY JournalAssumption DEF Init, TypeOK, CallState, Outcomes
<1>3. HeadsAreNat /\ TotalOrder
  <2>1. \A i \in Instances : SeqsOf(i) = 1 .. MaxSeq(i)
    <3>1. 1 .. 0 = {}
      OBVIOUS
    <3> QED
      BY <1>1, <3>1
  <2>2. docs = {}
    BY DEF Init
  <2> QED
    BY <1>1, <2>1, <2>2 DEF HeadsAreNat, TotalOrder
<1>4. KeySpentOnce /\ OutcomeIsTrue /\ EveryRetryLostARace /\ AttemptNearHead
  BY DEF Init, KeySpentOnce, OutcomeIsTrue, EveryRetryLostARace, AttemptNearHead, Busy
<1> QED
  BY <1>2, <1>3, <1>4 DEF IInv

(* Steps that do not touch the collection leave its order and keys alone. *)
LEMMA OrderUnchanged ==
  ASSUME IInv, UNCHANGED docs
  PROVE  /\ \A i : SeqsOf(i)' = SeqsOf(i) /\ MaxSeq(i)' = MaxSeq(i)
         /\ \A k : KeyTaken(k)' = KeyTaken(k)
         /\ HeadsAreNat' /\ TotalOrder' /\ KeySpentOnce'
<1>1. \A i : SeqsOf(i)' = SeqsOf(i)
  BY DEF SeqsOf
<1>2. \A i : MaxSeq(i)' = MaxSeq(i)
  BY <1>1 DEF MaxSeq
<1>3. \A k : KeyTaken(k)' = KeyTaken(k)
  BY DEF KeyTaken
<1>4. HeadsAreNat'
  BY <1>2 DEF IInv, HeadsAreNat
<1>5. TotalOrder'
  BY <1>1, <1>2 DEF IInv, TotalOrder
<1>6. KeySpentOnce'
  BY DEF IInv, KeySpentOnce
<1> QED
  BY <1>1, <1>2, <1>3, <1>4, <1>5, <1>6

(* The obligations of one call, as a step that leaves the collection alone
   may disturb them: only writer w's call changes, to c. *)
LEMMA CallStep ==
  ASSUME IInv, UNCHANGED docs, NEW w \in Writers, NEW c \in CallState,
         call' = [call EXCEPT ![w] = c], calls' \in 0 .. MaxCalls,
         c.pc # "idle" => c.instance_id \in Instances,
         c.pc # "returned",
         c.pc = "duplicate" => KeyTaken(c.idempotency_key),
         c.pc \in Busy \cup {"contention"} =>
            c.head + c.attempt <= MaxSeq(c.instance_id),
         c.pc = "insert" =>
            c.seq \in (c.head + c.attempt + 1) .. (MaxSeq(c.instance_id) + 1)
  PROVE  IInv'
<1>1. /\ \A i : MaxSeq(i)' = MaxSeq(i)
      /\ \A k : KeyTaken(k)' = KeyTaken(k)
      /\ HeadsAreNat' /\ TotalOrder' /\ KeySpentOnce'
  BY OrderUnchanged
<1>2. /\ call'[w] = c
      /\ \A v \in Writers \ {w} : call'[v] = call[v]
  BY DEF IInv, TypeOK
<1>3. TypeOK'
  BY DEF IInv, TypeOK
<1>4. OutcomeIsTrue'
  <2> SUFFICES ASSUME NEW v \in Writers
               PROVE  /\ call'[v].pc = "returned" => NewDoc(v)' \in docs
                      /\ call'[v].pc = "duplicate" =>
                            KeyTaken(call'[v].idempotency_key)
    BY <1>1 DEF OutcomeIsTrue
  <2>1. CASE v = w
    BY <1>2, <2>1
  <2>2. CASE v # w
    BY <1>2, <2>2 DEF IInv, OutcomeIsTrue, NewDoc
  <2> QED
    BY <2>1, <2>2
<1>5. EveryRetryLostARace'
  BY <1>1, <1>2 DEF IInv, EveryRetryLostARace
<1>6. AttemptNearHead'
  BY <1>1, <1>2 DEF IInv, AttemptNearHead
<1> QED
  BY <1>1, <1>3, <1>4, <1>5, <1>6 DEF IInv

(* The insert is the one step that changes the collection: it lands right after
   the head, under a fresh key, and leaves the other calls within their
   bounds. *)
LEMMA InsertSucceedsInv ==
  ASSUME IInv, NEW w \in Writers, InsertSucceeds(w)
  PROVE  IInv'
<1> DEFINE j == call[w].instance_id
<1>1. PICK outcome \in {"returned", "cancelled"} :
         call' = [call EXCEPT ![w].pc = outcome]
  BY DEF InsertSucceeds
<1>2. /\ call[w] \in CallState
      /\ call[w].pc = "insert"
      /\ j \in Instances
  BY DEF IInv, TypeOK, AttemptNearHead, InsertSucceeds
<1>3. PICK i0 \in Instances : i0 = j
  BY <1>2
<1>4. /\ call[w].seq = MaxSeq(i0) + 1
      /\ \A i \in Instances \ {i0} :
            SeqsOf(i)' = SeqsOf(i) /\ MaxSeq(i)' = MaxSeq(i)
      /\ SeqsOf(i0)' = 1 .. (MaxSeq(i0) + 1)
      /\ MaxSeq(i0)' = MaxSeq(i0) + 1
  BY <1>3, InsertLandsAfterHead
<1>5. /\ docs' = docs \cup {NewDoc(w)}
      /\ calls' = calls
      /\ ~KeyTaken(call[w].idempotency_key)
      /\ ~SeqTaken(call[w].instance_id, call[w].seq)
  BY DEF InsertSucceeds
<1>6. /\ call'[w] = [call[w] EXCEPT !.pc = outcome]
      /\ \A v \in Writers \ {w} : call'[v] = call[v]
  BY <1>1 DEF IInv, TypeOK
<1>7. /\ HeadsAreNat
      /\ \A i \in Instances : MaxSeq(i) \in Nat /\ SeqsOf(i) = 1 .. MaxSeq(i)
  BY DEF IInv, HeadsAreNat, TotalOrder
<1>8. TypeOK'
  <2>1. NewDoc(w) \in Doc
    BY <1>2, <1>3, <1>4, <1>7 DEF NewDoc, Doc, CallState
  <2>2. call' \in [Writers -> CallState]
    BY <1>1, <1>2 DEF IInv, TypeOK, CallState, Outcomes
  <2> QED
    BY <1>5, <2>1, <2>2 DEF IInv, TypeOK
<1>9. \A i \in Instances : MaxSeq(i)' \in Nat /\ MaxSeq(i) <= MaxSeq(i)'
  BY <1>4, <1>7
<1>10. HeadsAreNat'
  BY <1>9 DEF HeadsAreNat
<1>11. TotalOrder'
  <2>1. \A i \in Instances : SeqsOf(i)' = 1 .. MaxSeq(i)'
    BY <1>4, <1>7
  <2>2. \A d, e \in docs' :
           d.instance_id = e.instance_id /\ d.seq = e.seq => d = e
    BY <1>5 DEF IInv, TotalOrder, SeqTaken, NewDoc
  <2> QED
    BY <2>1, <2>2 DEF TotalOrder
<1>12. KeySpentOnce'
  BY <1>5 DEF IInv, KeySpentOnce, KeyTaken, NewDoc
<1>13. OutcomeIsTrue'
  <2> SUFFICES ASSUME NEW v \in Writers
               PROVE  (/\ call[v].pc = "returned" => NewDoc(v) \in docs
                       /\ call[v].pc = "duplicate" =>
                            KeyTaken(call[v].idempotency_key))'
    BY DEF OutcomeIsTrue
  <2>1. CASE v = w
    <3>1. NewDoc(w)' = NewDoc(w)
      BY <1>2, <1>6 DEF NewDoc, CallState
    <3>2. call'[w].pc = outcome
      BY <1>2, <1>6 DEF CallState
    <3> QED
      BY <1>5, <2>1, <3>1, <3>2
  <2>2. CASE v # w
    BY <1>5, <1>6, <2>2 DEF IInv, OutcomeIsTrue, NewDoc, KeyTaken
  <2> QED
    BY <2>1, <2>2
<1>14. ASSUME NEW v \in Writers \ {w}, call[v].pc # "idle"
       PROVE  /\ call[v].instance_id \in Instances
              /\ MaxSeq(call[v].instance_id) \in Nat
              /\ MaxSeq(call[v].instance_id)' \in Nat
              /\ MaxSeq(call[v].instance_id) <= MaxSeq(call[v].instance_id)'
  <2>1. PICK i \in Instances : i = call[v].instance_id
    BY <1>14 DEF IInv, AttemptNearHead
  <2>2. MaxSeq(call[v].instance_id)' = MaxSeq(i)'
    BY <1>6, <2>1 DEF MaxSeq, SeqsOf
  <2> QED
    BY <1>7, <1>9, <2>1, <2>2
<1>15. EveryRetryLostARace'
  <2> SUFFICES ASSUME NEW v \in Writers,
                      (call[v].pc \in Busy \cup {"contention"})'
               PROVE  (call[v].head + call[v].attempt
                         <= MaxSeq(call[v].instance_id))'
    BY DEF EveryRetryLostARace
  <2>1. v # w
    BY <1>2, <1>6 DEF CallState, Busy
  <2>2. call'[v] = call[v] /\ call[v] \in CallState /\ call[v].pc # "idle"
    BY <1>6, <2>1 DEF IInv, TypeOK, Busy
  <2>3. call[v].head + call[v].attempt <= MaxSeq(call[v].instance_id)
    BY <2>2 DEF IInv, EveryRetryLostARace
  <2> QED
    BY <1>14, <2>1, <2>2, <2>3 DEF CallState
<1>16. AttemptNearHead'
  <2> SUFFICES ASSUME NEW v \in Writers
               PROVE  (/\ call[v].pc # "idle" => call[v].instance_id \in Instances
                       /\ call[v].pc = "insert" =>
                            call[v].seq \in (call[v].head + call[v].attempt + 1)
                               .. (MaxSeq(call[v].instance_id) + 1))'
    BY DEF AttemptNearHead
  <2>1. CASE v = w
    BY <1>2, <1>6, <2>1 DEF CallState
  <2>2. CASE v # w
    <3>1. call'[v] = call[v] /\ call[v] \in CallState
      BY <1>6, <2>2 DEF IInv, TypeOK
    <3>2. CASE call[v].pc = "insert"
      <4>1. call[v].seq \in (call[v].head + call[v].attempt + 1)
                                  .. (MaxSeq(call[v].instance_id) + 1)
        BY <3>2 DEF IInv, AttemptNearHead
      <4> QED
        BY <1>14, <2>2, <3>1, <3>2, <4>1 DEF CallState
    <3>3. CASE call[v].pc # "insert"
      BY <3>1, <3>3 DEF IInv, AttemptNearHead
    <3> QED
      BY <3>2, <3>3
  <2> QED
    BY <2>1, <2>2
<1> QED
  BY <1>8, <1>10, <1>11, <1>12, <1>13, <1>15, <1>16 DEF IInv

(* The invariant is inductive: one case per action; all but the insert leave the
   collection alone. *)
LEMMA NextInv == IInv /\ [Next]_vars => IInv'
<1> SUFFICES ASSUME IInv, [Next]_vars PROVE IInv'
  OBVIOUS
<1>1. TypeOK /\ AttemptNearHead /\ HeadsAreNat /\ EveryRetryLostARace
  BY DEF IInv
<1>2. ASSUME NEW w \in Writers, NEW i \in Instances, NEW k \in Keys \cup {NoKey},
             BeginAppend(w, i, k)
      PROVE  IInv'
  <2> DEFINE c == [pc |-> "read", instance_id |-> i, idempotency_key |-> k,
                   attempt |-> 0, seq |-> 0, head |-> MaxSeq(i)]
  <2>1. c \in CallState
    <3>1. MaxSeq(i) \in Nat
      BY <1>1 DEF HeadsAreNat
    <3>2. "read" \in Busy \cup Outcomes
      BY DEF Busy
    <3> QED
      BY <1>2, <3>1, <3>2 DEF CallState
  <2>2. calls' \in 0 .. MaxCalls
    BY <1>1, <1>2, JournalAssumption DEF BeginAppend, TypeOK
  <2>3. c.head + c.attempt <= MaxSeq(i)
    BY <1>1 DEF HeadsAreNat
  <2> QED
    BY <1>2, <2>1, <2>2, <2>3, CallStep DEF BeginAppend
<1>3. ASSUME NEW w \in Writers, ReadMaxSeq(w)
      PROVE  IInv'
  <2> DEFINE c == [call[w] EXCEPT !.pc = "insert",
                                  !.seq = MaxSeq(call[w].instance_id) + 1]
  <2>1. /\ call[w] \in CallState
        /\ call[w].pc = "read"
        /\ call[w].instance_id \in Instances
        /\ MaxSeq(call[w].instance_id) \in Nat
        /\ call[w].head + call[w].attempt <= MaxSeq(call[w].instance_id)
    BY <1>1, <1>3 DEF TypeOK, ReadMaxSeq, AttemptNearHead, HeadsAreNat,
                      EveryRetryLostARace, Busy
  <2>2. c \in CallState
    <3> DEFINE m == MaxSeq(call[w].instance_id) + 1
    <3>1. m \in Nat /\ "insert" \in Busy \cup Outcomes
      BY <2>1 DEF Busy
    <3> HIDE DEF m
    <3>2. [call[w] EXCEPT !.pc = "insert", !.seq = m] \in CallState
      BY <2>1, <3>1 DEF CallState
    <3> QED
      BY <3>2 DEF m
  <2>3. call' = [call EXCEPT ![w] = c] /\ UNCHANGED docs /\ calls' \in 0 .. MaxCalls
    BY <1>1, <1>3 DEF ReadMaxSeq, TypeOK
  <2>4. /\ c.pc = "insert"
        /\ c.instance_id = call[w].instance_id
        /\ c.head = call[w].head
        /\ c.attempt = call[w].attempt
        /\ c.seq = MaxSeq(call[w].instance_id) + 1
    BY <2>1 DEF CallState
  <2>5. c.seq \in (c.head + c.attempt + 1) .. (MaxSeq(c.instance_id) + 1)
    BY <2>1, <2>4 DEF CallState
  <2> HIDE DEF c
  <2> QED
    BY <2>1, <2>2, <2>3, <2>4, <2>5, CallStep
<1>4. ASSUME NEW w \in Writers, InsertHitsKey(w)
      PROVE  IInv'
  <2> DEFINE c == [call[w] EXCEPT !.pc = "duplicate"]
  <2>1. /\ call[w] \in CallState
        /\ call[w].pc = "insert"
        /\ call[w].instance_id \in Instances
        /\ KeyTaken(call[w].idempotency_key)
    BY <1>1, <1>4 DEF TypeOK, InsertHitsKey, AttemptNearHead
  <2>2. c \in CallState /\ c.pc = "duplicate" /\ c.instance_id \in Instances
    BY <2>1 DEF CallState, Outcomes
  <2>3. KeyTaken(c.idempotency_key)
    BY <2>1 DEF CallState
  <2>4. call' = [call EXCEPT ![w] = c] /\ UNCHANGED docs /\ calls' \in 0 .. MaxCalls
    BY <1>1, <1>4 DEF InsertHitsKey, TypeOK
  <2> HIDE DEF c
  <2> QED
    BY <2>2, <2>3, <2>4, CallStep DEF Busy
<1>5. ASSUME NEW w \in Writers, InsertHitsSeq(w)
      PROVE  IInv'
  <2> DEFINE next == IF call[w].attempt + 1 < MaxSeqRetries THEN "read" ELSE "contention"
             c == [call[w] EXCEPT !.attempt = @ + 1, !.pc = next]
  <2>1. /\ call[w] \in CallState
        /\ call[w].pc = "insert"
        /\ call[w].instance_id \in Instances
        /\ MaxSeq(call[w].instance_id) \in Nat
        /\ SeqsOf(call[w].instance_id) = 1 .. MaxSeq(call[w].instance_id)
        /\ call[w].seq \in (call[w].head + call[w].attempt + 1)
                              .. (MaxSeq(call[w].instance_id) + 1)
    BY <1>1, <1>5 DEF IInv, TotalOrder, TypeOK, InsertHitsSeq, AttemptNearHead, HeadsAreNat
  <2>2. call[w].seq \in SeqsOf(call[w].instance_id)
    BY <1>5 DEF InsertHitsSeq, SeqTaken, SeqsOf
  <2>3. call[w].head + call[w].attempt + 1 <= MaxSeq(call[w].instance_id)
    <3>1. call[w].head \in Nat /\ call[w].attempt \in Nat /\ call[w].seq \in Nat
      BY <2>1 DEF CallState
    <3> QED
      BY <2>1, <2>2, <3>1
  <2>4. /\ c \in CallState
        /\ c.pc \in {"read", "contention"}
        /\ c.instance_id = call[w].instance_id
        /\ c.head = call[w].head
        /\ c.attempt = call[w].attempt + 1
    <3>1. next \in {"read", "contention"} /\ next \in Busy \cup Outcomes
      BY DEF Busy, Outcomes
    <3>2. call[w].attempt + 1 \in Nat
      BY <2>1 DEF CallState
    <3> HIDE DEF next
    <3> QED
      BY <2>1, <3>1, <3>2 DEF CallState
  <2>5. c.head + c.attempt <= MaxSeq(c.instance_id)
    BY <2>1, <2>3, <2>4 DEF CallState
  <2>6. call' = [call EXCEPT ![w] = c] /\ UNCHANGED docs /\ calls' \in 0 .. MaxCalls
    BY <1>1, <1>5 DEF InsertHitsSeq, TypeOK
  <2> HIDE DEF c
  <2> QED
    BY <2>1, <2>4, <2>5, <2>6, CallStep
<1>6. ASSUME NEW w \in Writers, Cancel(w)
      PROVE  IInv'
  <2> DEFINE c == [call[w] EXCEPT !.pc = "cancelled"]
  <2>1. /\ call[w] \in CallState
        /\ call[w].instance_id \in Instances
    BY <1>1, <1>6 DEF TypeOK, Cancel, AttemptNearHead, Busy
  <2>2. c \in CallState /\ c.pc = "cancelled" /\ c.instance_id \in Instances
    BY <2>1 DEF CallState, Outcomes
  <2>3. call' = [call EXCEPT ![w] = c] /\ UNCHANGED docs /\ calls' \in 0 .. MaxCalls
    BY <1>1, <1>6 DEF Cancel, TypeOK
  <2> HIDE DEF c
  <2> QED
    BY <2>2, <2>3, CallStep DEF Busy
<1>7. CASE UNCHANGED vars
  <2>1. UNCHANGED docs /\ UNCHANGED call /\ UNCHANGED calls
    BY <1>7 DEF vars
  <2>2. /\ \A i : MaxSeq(i)' = MaxSeq(i)
        /\ \A k : KeyTaken(k)' = KeyTaken(k)
        /\ HeadsAreNat' /\ TotalOrder' /\ KeySpentOnce'
    BY <2>1, OrderUnchanged
  <2>3. TypeOK'
    BY <2>1 DEF IInv, TypeOK
  <2>4. OutcomeIsTrue'
    BY <2>1 DEF IInv, OutcomeIsTrue, NewDoc, KeyTaken
  <2>5. EveryRetryLostARace'
    BY <2>1 DEF IInv, EveryRetryLostARace, MaxSeq, SeqsOf
  <2>6. AttemptNearHead'
    BY <2>1 DEF IInv, AttemptNearHead, MaxSeq, SeqsOf
  <2> QED
    BY <2>2, <2>3, <2>4, <2>5, <2>6 DEF IInv
<1> QED
  BY <1>2, <1>3, <1>4, <1>5, <1>6, <1>7, InsertSucceedsInv DEF Next, Step

(* The strengthening that implies every safety property of the journal. *)
THEOREM Invariance == Spec => []IInv
BY InitInv, NextInv, PTL DEF Spec

(* Every state is well typed, for any number of writers, instances and calls. *)
THEOREM TypeCorrect == Spec => []TypeOK
BY Invariance, PTL DEF IInv

(* The stored seqs of an instance are always 1..n, each used once. *)
THEOREM JournalIsTotallyOrdered == Spec => []TotalOrder
BY Invariance, PTL DEF IInv

(* An idempotency key is in at most one event, whatever the race. *)
THEOREM JournalSpendsKeysOnce == Spec => []KeySpentOnce
BY Invariance, PTL DEF IInv

(* A returned stamp is stored; a reported duplicate exists. *)
THEOREM OutcomesAreTrue == Spec => []OutcomeIsTrue
BY Invariance, PTL DEF IInv

(* JournalSeqContention means MaxSeqRetries rivals committed during the call. *)
THEOREM ContentionIsReal == Spec => []EveryRetryLostARace
BY Invariance, PTL DEF IInv

-----------------------------------------------------------------------------
(* A step adds the event after the head and changes nothing else. *)
THEOREM JournalGrowsAtHead == Spec => GrowsAtHead
<1> DEFINE Grows == /\ docs \subseteq docs'
                    /\ \A d \in docs' \ docs : d.seq = MaxSeq(d.instance_id) + 1
<1>1. IInv /\ [Next]_vars => [Grows]_docs
  <2> SUFFICES ASSUME IInv, [Next]_vars, docs' # docs PROVE Grows
    OBVIOUS
  <2>1. PICK w \in Writers : InsertSucceeds(w)
    BY DEF Next, Step, vars, BeginAppend, ReadMaxSeq, InsertHitsKey, InsertHitsSeq, Cancel
  <2>2. PICK j \in Instances : j = call[w].instance_id
    BY <2>1 DEF InsertSucceeds, IInv, AttemptNearHead
  <2>3. call[w].seq = MaxSeq(j) + 1
    BY <2>1, <2>2, InsertLandsAfterHead
  <2>4. docs' = docs \cup {NewDoc(w)}
    BY <2>1 DEF InsertSucceeds
  <2> QED
    BY <2>2, <2>3, <2>4 DEF NewDoc
<1> QED
  BY <1>1, Invariance, PTL DEF Spec, GrowsAtHead

-----------------------------------------------------------------------------
(* The document at a position of the order is the one stored there. *)
LEMMA DocAtIsStored ==
  ASSUME IInv, NEW i \in Instances, NEW n \in 1 .. MaxSeq(i)
  PROVE  DocAt(i, n) \in docs /\ DocAt(i, n).instance_id = i /\ DocAt(i, n).seq = n
<1>1. n \in SeqsOf(i)
  BY DEF IInv, TotalOrder
<1>2. \E d \in docs : d.instance_id = i /\ d.seq = n
  BY <1>1 DEF SeqsOf
<1> QED
  BY <1>2 DEF DocAt

(* ... and it is the only one. *)
LEMMA DocAtIsUnique ==
  ASSUME IInv, NEW d \in docs
  PROVE  /\ d.instance_id \in Instances
         /\ d.seq \in 1 .. MaxSeq(d.instance_id)
         /\ DocAt(d.instance_id, d.seq) = d
<1>1. d.instance_id \in Instances
  BY DEF IInv, TypeOK, Doc
<1>2. d.seq \in SeqsOf(d.instance_id)
  BY DEF SeqsOf
<1>3. d.seq \in 1 .. MaxSeq(d.instance_id)
  BY <1>1, <1>2 DEF IInv, TotalOrder
<1>4. DocAt(d.instance_id, d.seq) = d
  BY <1>1, <1>3, DocAtIsStored DEF IInv, TotalOrder
<1> QED
  BY <1>1, <1>3, <1>4

(* The abstract ledger of an instance is a sequence as long as its head. *)
LEMMA LedgerType ==
  ASSUME IInv, NEW i \in Instances
  PROVE  /\ LedgerOf(i) \in Seq(Abstract!Entry)
         /\ Len(LedgerOf(i)) = MaxSeq(i)
<1>1. MaxSeq(i) \in Nat
  BY DEF IInv, HeadsAreNat
<1>2. \A n \in 1 .. MaxSeq(i) :
         [idempotency_key |-> DocAt(i, n).idempotency_key,
          writer |-> DocAt(i, n).writer] \in Abstract!Entry
  BY DocAtIsStored DEF IInv, TypeOK, Doc, Abstract!Entry
<1>3. LedgerOf(i) \in [1 .. MaxSeq(i) -> Abstract!Entry]
  BY <1>2 DEF LedgerOf
<1> QED
  BY <1>1, <1>3

(* The insert is the instant at which the abstract append takes effect. *)
LEMMA InsertCommits ==
  ASSUME IInv, IInv', NEW w \in Writers, InsertSucceeds(w)
  PROVE  Abstract!Commit(w)
<1>1. /\ call[w] \in CallState
      /\ call[w].pc = "insert"
      /\ docs' = docs \cup {NewDoc(w)}
      /\ ~KeyTaken(call[w].idempotency_key)
      /\ \E outcome \in {"returned", "cancelled"} : call' = [call EXCEPT ![w].pc = outcome]
  BY DEF InsertSucceeds, IInv, TypeOK
<1>2. PICK j \in Instances : j = call[w].instance_id
  BY <1>1 DEF IInv, AttemptNearHead
<1>3. /\ call[w].seq = MaxSeq(j) + 1
      /\ \A i \in Instances \ {j} : MaxSeq(i)' = MaxSeq(i)
      /\ MaxSeq(j)' = MaxSeq(j) + 1
      /\ \A i \in Instances : MaxSeq(i) \in Nat
  BY <1>2, InsertLandsAfterHead DEF IInv, HeadsAreNat
<1>4. NewDoc(w).instance_id = j /\ NewDoc(w).seq = MaxSeq(j) + 1
  BY <1>2, <1>3 DEF NewDoc
<1>5. \A i \in Instances : \A n \in 1 .. MaxSeq(i) : DocAt(i, n)' = DocAt(i, n)
  <2> SUFFICES ASSUME NEW i \in Instances, NEW n \in 1 .. MaxSeq(i)
               PROVE  DocAt(i, n)' = DocAt(i, n)
    OBVIOUS
  <2>1. \A d : (d \in docs' /\ d.instance_id = i /\ d.seq = n)
                 <=> (d \in docs /\ d.instance_id = i /\ d.seq = n)
    BY <1>1, <1>3, <1>4
  <2> QED
    BY <2>1, Zenon DEF DocAt
<1>6. PICK n0 \in Nat : n0 = MaxSeq(j) + 1
  BY <1>3
<1>7. DocAt(j, n0)' = NewDoc(w)
  <2>1. \A d \in docs : d.instance_id = j => d.seq # n0
    BY <1>3, <1>6, DocAtIsUnique
  <2>2. \A d \in docs' : (d.instance_id = j /\ d.seq = n0) <=> d = NewDoc(w)
    BY <1>1, <1>4, <1>6, <2>1
  <2> QED
    BY <1>1, <2>2 DEF DocAt
<1> DEFINE e == [idempotency_key |-> call[w].idempotency_key, writer |-> w]
<1>8. \A i \in Instances \ {j} : LedgerOf(i)' = LedgerOf(i)
  BY <1>3, <1>5 DEF LedgerOf
<1>9. LedgerOf(j)' = Append(LedgerOf(j), e)
  <2>1. /\ LedgerOf(j) \in Seq(Abstract!Entry)
        /\ Len(LedgerOf(j)) = MaxSeq(j)
    BY LedgerType
  <2>2. LedgerOf(j)' = [n \in 1 .. n0 |->
            [idempotency_key |-> DocAt(j, n)'.idempotency_key,
             writer |-> DocAt(j, n)'.writer]]
    BY <1>3, <1>6 DEF LedgerOf
  <2>3. NewDoc(w).idempotency_key = e.idempotency_key /\ NewDoc(w).writer = e.writer
    BY DEF NewDoc
  <2>4. LedgerOf(j)' = [n \in 1 .. n0 |-> IF n = n0 THEN e ELSE LedgerOf(j)[n]]
    <3>1. ASSUME NEW n \in 1 .. n0
          PROVE  [idempotency_key |-> DocAt(j, n)'.idempotency_key,
                  writer |-> DocAt(j, n)'.writer]
                    = IF n = n0 THEN e ELSE LedgerOf(j)[n]
      <4>1. CASE n = n0
        BY <1>7, <2>3, <4>1
      <4>2. CASE n # n0
        <5>1. n \in 1 .. MaxSeq(j)
          BY <1>3, <1>6, <4>2
        <5> QED
          BY <1>5, <4>2, <5>1 DEF LedgerOf
      <4> QED
        BY <4>1, <4>2
    <3> QED
      BY <2>2, <3>1
  <2>5. e \in Abstract!Entry
    BY <1>1 DEF Abstract!Entry, CallState
  <2> HIDE DEF e
  <2>6. /\ Append(LedgerOf(j), e) \in Seq(Abstract!Entry)
        /\ Len(Append(LedgerOf(j), e)) = n0
        /\ \A n \in 1 .. n0 :
              Append(LedgerOf(j), e)[n] = IF n = n0 THEN e ELSE LedgerOf(j)[n]
    BY <1>3, <1>6, <2>1, <2>5
  <2>7. Append(LedgerOf(j), e) = [n \in 1 .. n0 |-> Append(LedgerOf(j), e)[n]]
    <3>1. Append(LedgerOf(j), e) \in [1 .. n0 -> Abstract!Entry]
      BY <2>6, LenProperties
    <3> QED
      BY <3>1
  <2> QED
    BY <2>4, <2>6, <2>7
<1>10. OpenCall(w) = [instance_id |-> j, idempotency_key |-> call[w].idempotency_key]
  BY <1>1, <1>2 DEF OpenCall, Busy
<1>11. OpenCall(w)' = Abstract!NoCall
  BY <1>1 DEF OpenCall, Busy, Abstract!NoCall, IInv, TypeOK, CallState
<1>12. \A v \in Writers \ {w} : OpenCall(v)' = OpenCall(v)
  BY <1>1 DEF OpenCall, IInv, TypeOK
<1>13. OpenCall(w) \in Abstract!Request
  BY <1>1, <1>2, <1>10 DEF Abstract!Request, CallState
<1>14. ASSUME call[w].idempotency_key # NoKey
       PROVE  ~ \E i \in Instances : \E n \in DOMAIN LedgerOf(i) :
                   LedgerOf(i)[n].idempotency_key = call[w].idempotency_key
  <2> SUFFICES ASSUME NEW i \in Instances, NEW n \in 1 .. MaxSeq(i),
                      DocAt(i, n).idempotency_key = call[w].idempotency_key
               PROVE  FALSE
    BY DEF LedgerOf
  <2> QED
    BY <1>1, <1>14, DocAtIsStored DEF KeyTaken
<1>15. /\ OpenCall(w).instance_id = j
       /\ OpenCall(w).idempotency_key = call[w].idempotency_key
  BY <1>10
<1> DEFINE L == [i \in Instances |-> LedgerOf(i)]
           O == [v \in Writers |-> OpenCall(v)]
<1>16. L' = [L EXCEPT ![O[w].instance_id] =
               Append(@, [idempotency_key |-> O[w].idempotency_key, writer |-> w])]
  <2>1. [i \in Instances |-> LedgerOf(i)'] = [L EXCEPT ![j] = Append(LedgerOf(j), e)]
    BY <1>8, <1>9
  <2>2. L[j] = LedgerOf(j) /\ O[w] = OpenCall(w)
    OBVIOUS
  <2> QED
    BY <1>15, <2>1, <2>2
<1>17. O' = [O EXCEPT ![w] = Abstract!NoCall]
  BY <1>11, <1>12
<1>18. O[w] \in Abstract!Request /\ O[w] = OpenCall(w)
  BY <1>13
<1>19. O[w].idempotency_key # NoKey =>
         ~ \E i \in Instances : \E n \in DOMAIN L[i] :
                L[i][n].idempotency_key = O[w].idempotency_key
  BY <1>14, <1>15, <1>18
<1> QED
  BY <1>16, <1>17, <1>18, <1>19 DEF Abstract!Commit, Abstract!Spent

(* The empty collection is the empty ledger. *)
LEMMA InitRefines == Init => Abstract!Init
<1> SUFFICES ASSUME Init PROVE Abstract!Init
  OBVIOUS
<1>1. IInv
  BY InitInv
<1>2. \A i \in Instances : MaxSeq(i) = 0
  BY DEF Init, MaxSeq, SeqsOf, Greatest
<1>3. \A i \in Instances : LedgerOf(i) = <<>>
  BY <1>1, <1>2, LedgerType, EmptySeq
<1>4. \A w \in Writers : OpenCall(w) = Abstract!NoCall
  BY DEF Init, OpenCall, Busy, Abstract!NoCall
<1> QED
  BY <1>3, <1>4 DEF Abstract!Init

(* Every step of the protocol is a step of the ledger or leaves it alone; L and
   O are the abstract variables. *)
LEMMA StepRefines ==
  ASSUME IInv, IInv', [Next]_vars
  PROVE  [Abstract!Next]_(Abstract!vars)
<1> DEFINE L == [i \in Instances |-> LedgerOf(i)]
           O == [v \in Writers |-> OpenCall(v)]
<1>1. ASSUME UNCHANGED docs PROVE L' = L
  <2>1. \A i \in Instances : LedgerOf(i)' = LedgerOf(i)
    BY <1>1 DEF LedgerOf, DocAt, MaxSeq, SeqsOf
  <2> QED
    BY <2>1
<1>2. ASSUME NEW w \in Writers, NEW c, call' = [call EXCEPT ![w] = c]
      PROVE  /\ OpenCall(w)' = IF c.pc \in Busy
                               THEN [instance_id |-> c.instance_id,
                                     idempotency_key |-> c.idempotency_key]
                               ELSE Abstract!NoCall
             /\ \A v \in Writers \ {w} : OpenCall(v)' = OpenCall(v)
             /\ O' = [O EXCEPT ![w] = OpenCall(w)']
  <2>1. call'[w] = c /\ \A v \in Writers \ {w} : call'[v] = call[v]
    BY <1>2 DEF IInv, TypeOK
  <2>2. \A v \in Writers \ {w} : OpenCall(v)' = OpenCall(v)
    BY <2>1 DEF OpenCall
  <2>3. OpenCall(w)' = IF c.pc \in Busy
                       THEN [instance_id |-> c.instance_id,
                             idempotency_key |-> c.idempotency_key]
                       ELSE Abstract!NoCall
    BY <2>1 DEF OpenCall, Abstract!NoCall
  <2> QED
    BY <2>2, <2>3
<1>3. \A w \in Writers : call[w] \in CallState
  BY DEF IInv, TypeOK
<1>4. ASSUME NEW w \in Writers, NEW i \in Instances, NEW k \in Keys \cup {NoKey},
             BeginAppend(w, i, k)
      PROVE  Abstract!Call(w, [instance_id |-> i, idempotency_key |-> k])
  <2> DEFINE c == [pc |-> "read", instance_id |-> i, idempotency_key |-> k,
                   attempt |-> 0, seq |-> 0, head |-> MaxSeq(i)]
             r == [instance_id |-> i, idempotency_key |-> k]
  <2>1. O' = [O EXCEPT ![w] = r]
    <3>1. call' = [call EXCEPT ![w] = c] /\ c.pc \in Busy
      BY <1>4 DEF BeginAppend, Busy
    <3> QED
      BY <1>2, <3>1
  <2>2. O[w] = Abstract!NoCall
    BY <1>4 DEF BeginAppend, Outcomes, OpenCall, Busy, Abstract!NoCall
  <2>3. L' = L
    BY <1>1, <1>4 DEF BeginAppend
  <2> QED
    BY <2>1, <2>2, <2>3 DEF Abstract!Call
<1>5. ASSUME NEW w \in Writers, NEW c, call' = [call EXCEPT ![w] = c],
             UNCHANGED docs, call[w].pc \in Busy, c.pc \notin Busy
      PROVE  Abstract!Abort(w)
  <2>1. OpenCall(w) \in Abstract!Request
    BY <1>3, <1>5 DEF OpenCall, Abstract!Request, CallState, IInv, AttemptNearHead, Busy
  <2>2. O' = [O EXCEPT ![w] = Abstract!NoCall] /\ L' = L
    BY <1>1, <1>2, <1>5
  <2> QED
    BY <2>1, <2>2 DEF Abstract!Abort
<1>6. ASSUME NEW w \in Writers, NEW c, call' = [call EXCEPT ![w] = c],
             UNCHANGED docs, call[w].pc \in Busy, c.pc \in Busy,
             c.instance_id = call[w].instance_id,
             c.idempotency_key = call[w].idempotency_key
      PROVE  UNCHANGED Abstract!vars
  <2>1. OpenCall(w)' = OpenCall(w)
    BY <1>2, <1>6 DEF OpenCall
  <2>2. O' = O /\ L' = L
    BY <1>1, <1>2, <1>6, <2>1
  <2> QED
    BY <2>2 DEF Abstract!vars
<1>7. ASSUME NEW w \in Writers, ReadMaxSeq(w) \/ InsertHitsSeq(w) \/ InsertHitsKey(w) \/ Cancel(w)
      PROVE  Abstract!Abort(w) \/ UNCHANGED Abstract!vars
  <2>1. CASE ReadMaxSeq(w)
    <3> DEFINE c == [call[w] EXCEPT !.pc = "insert",
                                    !.seq = MaxSeq(call[w].instance_id) + 1]
    <3>1. /\ call' = [call EXCEPT ![w] = c] /\ UNCHANGED docs
          /\ call[w].pc \in Busy
      BY <2>1 DEF ReadMaxSeq, Busy
    <3>2. /\ c.pc = "insert" /\ c.instance_id = call[w].instance_id
          /\ c.idempotency_key = call[w].idempotency_key
      BY <1>3 DEF CallState
    <3> QED
      BY <1>6, <3>1, <3>2 DEF Busy
  <2>2. CASE InsertHitsSeq(w)
    <3> DEFINE next == IF call[w].attempt + 1 < MaxSeqRetries THEN "read" ELSE "contention"
               c == [call[w] EXCEPT !.attempt = @ + 1, !.pc = next]
    <3>1. /\ call' = [call EXCEPT ![w] = c] /\ UNCHANGED docs
          /\ call[w].pc \in Busy
      BY <2>2 DEF InsertHitsSeq, Busy
    <3>2. /\ c.pc \in {"read", "contention"} /\ c.instance_id = call[w].instance_id
          /\ c.idempotency_key = call[w].idempotency_key
      BY <1>3 DEF CallState
    <3> HIDE DEF c
    <3> QED
      BY <1>5, <1>6, <3>1, <3>2 DEF Busy
  <2>3. CASE InsertHitsKey(w)
    <3> DEFINE c == [call[w] EXCEPT !.pc = "duplicate"]
    <3>1. /\ call' = [call EXCEPT ![w] = c] /\ UNCHANGED docs
          /\ call[w].pc \in Busy
          /\ c.pc \notin Busy
      BY <1>3, <2>3 DEF InsertHitsKey, Busy, CallState
    <3> HIDE DEF c
    <3> QED
      BY <1>5, <3>1
  <2>4. CASE Cancel(w)
    <3> DEFINE c == [call[w] EXCEPT !.pc = "cancelled"]
    <3>1. /\ call' = [call EXCEPT ![w] = c] /\ UNCHANGED docs
          /\ call[w].pc \in Busy
          /\ c.pc \notin Busy
      BY <1>3, <2>4 DEF Cancel, Busy, CallState
    <3> HIDE DEF c
    <3> QED
      BY <1>5, <3>1
  <2> QED
    BY <1>7, <2>1, <2>2, <2>3, <2>4
<1>8. CASE UNCHANGED vars
  <2>1. UNCHANGED docs /\ UNCHANGED call
    BY <1>8 DEF vars
  <2>2. L' = L
    BY <1>1, <2>1
  <2>3. O' = O
    BY <2>1 DEF OpenCall
  <2> QED
    BY <2>2, <2>3 DEF Abstract!vars
<1> QED
  <2>1. ASSUME NEW w \in Writers, NEW i \in Instances, NEW k \in Keys \cup {NoKey},
               BeginAppend(w, i, k)
        PROVE  Abstract!Next
    <3>1. [instance_id |-> i, idempotency_key |-> k] \in Abstract!Request
      BY <2>1 DEF Abstract!Request
    <3> QED
      BY <1>4, <2>1, <3>1 DEF Abstract!Next
  <2>2. ASSUME NEW w \in Writers, InsertSucceeds(w)
        PROVE  Abstract!Next
    BY <2>2, InsertCommits DEF Abstract!Next
  <2>3. ASSUME NEW w \in Writers, ReadMaxSeq(w) \/ InsertHitsSeq(w) \/ InsertHitsKey(w) \/ Cancel(w)
        PROVE  Abstract!Next \/ UNCHANGED Abstract!vars
    BY <1>7, <2>3 DEF Abstract!Next
  <2> QED
    BY <1>8, <2>1, <2>2, <2>3 DEF Next, Step

(* MongoJournalStore.append implements the atomic ledger of ports.py. *)
THEOREM JournalImplementsLedger == Spec => AppendIsAtomic
<1>1. IInv /\ IInv' /\ [Next]_vars => [Abstract!Next]_(Abstract!vars)
  BY StepRefines
<1> QED
  BY <1>1, InitRefines, Invariance, PTL DEF Spec, AppendIsAtomic, Abstract!Spec

-----------------------------------------------------------------------------
(* The work queue *)

(* An empty queue with idle workers satisfies the inductive invariant. *)
LEMMA QueueInitInv == QueueInit => QueueIInv
BY SchedulerAssumption
   DEF QueueInit, QueueIInv, QueueTypeOK, WorkerHoldsWork, ExclusiveClaim, ReturnsOnce,
       ReturnedStaysClaimed, WorkerState, Status, Holding, Idle, Times, NoWork,
       WorkIds

(* The invariant is inductive: one case per action, and under it one step per
   conjunct the action can disturb. *)
LEMMA QueueNextInv == QueueIInv /\ [QueueNext]_queueVars => QueueIInv'
<1> SUFFICES ASSUME QueueIInv, [QueueNext]_queueVars PROVE QueueIInv'
  OBVIOUS
<1> USE DEF Times, Status, Holding
<1>0. /\ QueueTypeOK /\ WorkerHoldsWork /\ ExclusiveClaim /\ ReturnsOnce
      /\ ReturnedStaysClaimed
  BY DEF QueueIInv
<1>1. ASSUME NEW w \in WorkIds, NEW at \in Times, Enqueue(w, at)
      PROVE  QueueIInv'
  <2>1. QueueTypeOK'
    BY <1>0, <1>1 DEF QueueTypeOK, Enqueue
  <2>2. WorkerHoldsWork' /\ ExclusiveClaim'
    BY <1>0, <1>1 DEF QueueTypeOK, Enqueue, WorkerHoldsWork, ExclusiveClaim
  <2>3. ReturnsOnce' /\ ReturnedStaysClaimed'
    BY <1>0, <1>1 DEF QueueTypeOK, Enqueue, ReturnsOnce, ReturnedStaysClaimed
  <2> QED
    BY <2>1, <2>2, <2>3 DEF QueueIInv
<1>2. ASSUME NEW k \in Workers, Claim(k)
      PROVE  QueueIInv'
  <2>1. PICK w \in WorkIds :
           /\ Earliest(w)
           /\ status' = [status EXCEPT ![w] = "claimed"]
           /\ worker' = [worker EXCEPT ![k] =
                           [pc |-> "running", work |-> w, now |-> now]]
           /\ lastClaim' = [lastClaim EXCEPT ![w] = now]
    BY <1>2 DEF Claim
  <2>2. status[w] = "pending" /\ worker[k].pc = "idle"
    BY <1>2, <2>1 DEF Claim, Polls, Earliest, Due
  <2>3. QueueTypeOK'
    BY <1>0, <1>2, <2>1 DEF QueueTypeOK, Claim, Polls, WorkerState
  <2>4. WorkerHoldsWork'
    BY <1>0, <2>1 DEF QueueTypeOK, WorkerHoldsWork
  <2>5. ExclusiveClaim'
    <3>1. \A j \in Workers \ {k} : worker[j].pc \in Holding => worker[j].work # w
      BY <1>0, <2>2 DEF ExclusiveClaim
    <3> QED
      BY <1>0, <2>1, <3>1 DEF QueueTypeOK, ExclusiveClaim, WorkerHoldsWork
  <2>6. ReturnsOnce' /\ ReturnedStaysClaimed'
    BY <1>0, <1>2, <2>1, <2>2 DEF QueueTypeOK, Claim, ReturnsOnce, ReturnedStaysClaimed
  <2> QED
    BY <2>3, <2>4, <2>5, <2>6 DEF QueueIInv
<1>3. ASSUME NEW k \in Workers, InvokeReturns(k)
      PROVE  QueueIInv'
  <2> DEFINE w == worker[k].work
  <2>1. w \in WorkIds /\ returned[w] = 0
    BY <1>0, <1>3 DEF InvokeReturns, WorkerHoldsWork, ReturnedStaysClaimed
  <2>2. \A j \in Workers \ {k} : worker[j].pc \in Holding => worker[j].work # w
    BY <1>0, <1>3 DEF InvokeReturns, ExclusiveClaim
  <2>3. /\ worker' = [worker EXCEPT ![k].pc = "completing"]
        /\ returned' = [returned EXCEPT ![w] = 1]
        /\ status' = status
    BY <1>0, <1>3, <2>1 DEF InvokeReturns, store, QueueTypeOK
  <2>4. QueueTypeOK'
    <3>1. worker' \in [Workers -> WorkerState]
      BY <1>0, <2>3 DEF QueueTypeOK, WorkerState
    <3>2. returned' \in [WorkIds -> Nat]
      BY <1>0, <2>3 DEF QueueTypeOK
    <3>3. UNCHANGED <<status, availableAt, lastPoll, now, lastClaim, failures, crashes>>
      BY <1>3 DEF InvokeReturns, store
    <3> QED
      BY <1>0, <3>1, <3>2, <3>3 DEF QueueTypeOK
  <2>5. WorkerHoldsWork' /\ ExclusiveClaim'
    BY <1>0, <1>3, <2>3 DEF QueueTypeOK, WorkerHoldsWork, ExclusiveClaim, InvokeReturns, WorkerState
  <2>6. ReturnsOnce'
    BY <1>0, <2>1, <2>3 DEF QueueTypeOK, ReturnsOnce
  <2>7. ReturnedStaysClaimed'
    <3>1. status[w] = "claimed"
      BY <1>0, <1>3 DEF InvokeReturns, ExclusiveClaim
    <3>2. /\ worker'[k].pc = "completing"
          /\ \A j \in Workers \ {k} : worker'[j] = worker[j]
      BY <1>0, <2>3 DEF QueueTypeOK, WorkerState
    <3> HIDE DEF w
    <3> QED
      BY <1>0, <2>1, <2>2, <2>3, <3>1, <3>2 DEF QueueTypeOK, ReturnedStaysClaimed
  <2> QED
    BY <2>4, <2>5, <2>6, <2>7 DEF QueueIInv
<1>4. ASSUME NEW k \in Workers, InvokeRaises(k)
      PROVE  QueueIInv'
  <2>1. QueueTypeOK'
    BY <1>0, <1>4, SchedulerAssumption DEF QueueTypeOK, InvokeRaises, store, WorkerState
  <2>2. WorkerHoldsWork' /\ ExclusiveClaim'
    BY <1>0, <1>4 DEF QueueTypeOK, InvokeRaises, store, WorkerHoldsWork, ExclusiveClaim, WorkerState
  <2>3. ReturnsOnce' /\ ReturnedStaysClaimed'
    BY <1>0, <1>4 DEF QueueTypeOK, InvokeRaises, store, ReturnsOnce, ReturnedStaysClaimed, WorkerState
  <2> QED
    BY <2>1, <2>2, <2>3 DEF QueueIInv
<1>5. ASSUME NEW k \in Workers, Complete(k) \/ Fail(k)
      PROVE  QueueIInv'
  <2> DEFINE w == worker[k].work
  <2>1. w \in WorkIds /\ status[w] = "claimed" /\ worker[k] \in WorkerState
    BY <1>0, <1>5 DEF Complete, Fail, WorkerHoldsWork, ExclusiveClaim, QueueTypeOK
  <2>2. \A j \in Workers \ {k} : worker[j].pc \in Holding => worker[j].work # w
    BY <1>0, <1>5 DEF Complete, Fail, ExclusiveClaim
  <2>3. PICK s \in {"pending", "completed"} :
           /\ status' = [status EXCEPT ![w] = s]
           /\ s = "pending" => worker[k].pc = "failing"
    BY <1>5, <2>1 DEF Complete, Fail
  <2>4. worker' = [worker EXCEPT ![k] = Idle] /\ returned' = returned
    BY <1>5 DEF Complete, Fail
  <2>5. availableAt' \in [WorkIds -> Times]
    BY <1>0, <1>5, <2>1 DEF QueueTypeOK, Complete, Fail, store, WorkerState
  <2>6. QueueTypeOK'
    <3>1. Idle \in WorkerState
      BY SchedulerAssumption DEF WorkerState, Idle, NoWork
    <3> QED
      BY <1>0, <1>5, <2>3, <2>4, <2>5, <3>1 DEF QueueTypeOK, Complete, Fail
  <2>7. WorkerHoldsWork' /\ ExclusiveClaim'
    <3>1. /\ worker'[k].pc = "idle"
          /\ \A j \in Workers \ {k} : worker'[j] = worker[j]
      BY <1>0, <2>4 DEF QueueTypeOK, Idle
    <3>2. \A v \in WorkIds \ {w} : status'[v] = status[v]
      BY <1>0, <2>3 DEF QueueTypeOK
    <3> QED
      BY <1>0, <2>2, <3>1, <3>2 DEF WorkerHoldsWork, ExclusiveClaim
  <2>8. ReturnsOnce' /\ ReturnedStaysClaimed'
    <3>1. /\ worker'[k].pc = "idle"
          /\ \A j \in Workers \ {k} : worker'[j] = worker[j]
      BY <1>0, <2>4 DEF QueueTypeOK, Idle
    <3>2. worker[k].pc = "failing" => returned[w] = 0
      BY <1>0, <2>1 DEF ReturnedStaysClaimed
    <3> QED
      BY <1>0, <2>1, <2>3, <2>4, <3>1, <3>2 DEF QueueTypeOK, ReturnsOnce, ReturnedStaysClaimed
  <2> QED
    BY <2>6, <2>7, <2>8 DEF QueueIInv
<1>6. ASSUME NEW k \in Workers, PollEmpty(k)
      PROVE  QueueIInv'
  BY <1>0, <1>6 DEF QueueIInv, QueueTypeOK, PollEmpty, Polls, store, WorkerHoldsWork,
                    ExclusiveClaim, ReturnsOnce, ReturnedStaysClaimed
<1>7. ASSUME NEW k \in Workers, Cancelled(k) \/ UpdateRaises(k) \/ Restart(k)
      PROVE  QueueIInv'
  <2>1. PICK c \in {Idle, Down} : worker' = [worker EXCEPT ![k] = c]
    BY <1>7 DEF Cancelled, UpdateRaises, Restart
  <2>2. /\ UNCHANGED <<status, availableAt, lastPoll, now, returned, lastClaim, failures>>
        /\ crashes' \in 0 .. MaxCrashes
    BY <1>0, <1>7, SchedulerAssumption DEF QueueTypeOK, Cancelled, UpdateRaises, Restart, store
  <2>3. c \in WorkerState /\ c.pc \notin Holding
    BY SchedulerAssumption DEF WorkerState, Idle, Down, NoWork
  <2>4. QueueTypeOK'
    BY <1>0, <2>1, <2>2, <2>3 DEF QueueTypeOK
  <2>5. worker'[k] = c /\ \A j \in Workers \ {k} : worker'[j] = worker[j]
    BY <1>0, <2>1 DEF QueueTypeOK
  <2>6. WorkerHoldsWork' /\ ExclusiveClaim'
    BY <1>0, <2>2, <2>3, <2>5 DEF WorkerHoldsWork, ExclusiveClaim
  <2>7. ReturnsOnce' /\ ReturnedStaysClaimed'
    BY <1>0, <2>2, <2>3, <2>5 DEF ReturnsOnce, ReturnedStaysClaimed
  <2> QED
    BY <2>4, <2>6, <2>7 DEF QueueIInv
<1>8. CASE Tick
  BY <1>0, <1>8, SchedulerAssumption
     DEF QueueIInv, QueueTypeOK, Tick, store, WorkerHoldsWork, ExclusiveClaim, ReturnsOnce,
         ReturnedStaysClaimed
<1>9. CASE UNCHANGED queueVars
  BY <1>0, <1>9 DEF QueueIInv, QueueTypeOK, queueVars, WorkerHoldsWork, ExclusiveClaim, ReturnsOnce,
                    ReturnedStaysClaimed
<1> QED
  BY <1>1, <1>2, <1>3, <1>4, <1>5, <1>6, <1>7, <1>8, <1>9 DEF QueueNext, WorkerStep

(* The strengthening that implies exclusive claims and single returns. *)
THEOREM QueueInvariance == QueueSpec => []QueueIInv
BY QueueInitInv, QueueNextInv, PTL DEF QueueSpec

(* Every state is well typed, for any queue, workers and bounds. *)
THEOREM QueueTypeCorrect == QueueSpec => []QueueTypeOK
BY QueueInvariance, PTL DEF QueueIInv

(* No two workers ever run the same item. *)
THEOREM ClaimsAreExclusive == QueueSpec => []ExclusiveClaim
BY QueueInvariance, PTL DEF QueueIInv

(* No invocation that returned is repeated, whatever crashes in between. *)
THEOREM InvocationsReturnOnce == QueueSpec => []ReturnsOnce
BY QueueInvariance, PTL DEF QueueIInv

-----------------------------------------------------------------------------
(* No item has been claimed yet, so none is due before its last claim. *)
LEMMA TurnsInit == QueueInit => RetriesQueueUp
BY SchedulerAssumption DEF QueueInit, RetriesQueueUp, Holding, Idle

(* Only Claim moves an item's last claim, and Fail puts the item behind it. *)
LEMMA TurnsNext == QueueIInv /\ RetriesQueueUp /\ [QueueNext]_queueVars => RetriesQueueUp'
<1> SUFFICES ASSUME QueueIInv, RetriesQueueUp, [QueueNext]_queueVars PROVE RetriesQueueUp'
  OBVIOUS
<1> USE DEF Times, Holding
<1>0. QueueTypeOK /\ WorkerHoldsWork /\ ExclusiveClaim
  BY DEF QueueIInv
<1>1. ASSUME NEW w \in WorkIds, NEW at \in Times, Enqueue(w, at)
      PROVE  RetriesQueueUp'
  <2>1. /\ status[w] = "absent" /\ lastClaim[w] = 0 /\ at >= 0
        /\ status' = [status EXCEPT ![w] = "pending"]
        /\ availableAt' = [availableAt EXCEPT ![w] = at]
        /\ UNCHANGED <<worker, lastClaim>>
    BY <1>1, SchedulerAssumption DEF Enqueue, RetriesQueueUp
  <2> QED
    BY <1>0, <2>1 DEF QueueTypeOK, RetriesQueueUp
<1>2. ASSUME NEW k \in Workers, Claim(k)
      PROVE  RetriesQueueUp'
  <2>1. PICK w \in WorkIds :
           /\ Earliest(w)
           /\ status' = [status EXCEPT ![w] = "claimed"]
           /\ worker' = [worker EXCEPT ![k] =
                           [pc |-> "running", work |-> w, now |-> now]]
           /\ lastClaim' = [lastClaim EXCEPT ![w] = now]
           /\ availableAt' = availableAt
    BY <1>2 DEF Claim
  <2>2. \A j \in Workers \ {k} : worker[j].pc \in Holding =>
           worker[j].work \in WorkIds \ {w}
    BY <1>0, <2>1 DEF Earliest, Due, ExclusiveClaim, WorkerHoldsWork
  <2> QED
    BY <1>0, <2>1, <2>2 DEF QueueTypeOK, RetriesQueueUp
<1>3. ASSUME NEW k \in Workers, Complete(k) \/ Fail(k)
      PROVE  RetriesQueueUp'
  <2> DEFINE w == worker[k].work
  <2>1. /\ w \in WorkIds /\ worker[k].now = lastClaim[w]
        /\ status[w] = "claimed" /\ worker[k] \in WorkerState
    BY <1>0, <1>3 DEF Complete, Fail, WorkerHoldsWork, RetriesQueueUp, ExclusiveClaim, QueueTypeOK
  <2>2. /\ worker' = [worker EXCEPT ![k] = Idle]
        /\ lastClaim' = lastClaim
        /\ \/ /\ status' = [status EXCEPT ![w] = "completed"]
              /\ availableAt' = availableAt
           \/ /\ status' = [status EXCEPT ![w] = "pending"]
              /\ availableAt' = [availableAt EXCEPT ![w] = lastClaim[w]]
    BY <1>3, <2>1 DEF Complete, Fail
  <2>3. /\ worker'[k].pc = "idle"
        /\ \A j \in Workers \ {k} : worker'[j] = worker[j]
    BY <1>0, <2>2 DEF QueueTypeOK, Idle
  <2>4. lastClaim[w] \in Nat
    BY <1>0, <2>1, SchedulerAssumption DEF QueueTypeOK
  <2> QED
    BY <1>0, <2>1, <2>2, <2>3, <2>4 DEF QueueTypeOK, RetriesQueueUp
<1>4. ASSUME NEW k \in Workers, InvokeReturns(k) \/ InvokeRaises(k)
      PROVE  RetriesQueueUp'
  <2>1. PICK pc \in Holding : worker' = [worker EXCEPT ![k].pc = pc]
    BY <1>4 DEF InvokeReturns, InvokeRaises
  <2>2. worker[k].pc \in Holding /\ worker[k] \in WorkerState
    BY <1>0, <1>4 DEF InvokeReturns, InvokeRaises, QueueTypeOK
  <2>3. /\ worker'[k].now = worker[k].now /\ worker'[k].work = worker[k].work
        /\ \A j \in Workers \ {k} : worker'[j] = worker[j]
    BY <1>0, <2>1, <2>2 DEF QueueTypeOK, WorkerState
  <2>4. UNCHANGED <<status, availableAt, lastClaim>>
    BY <1>4 DEF InvokeReturns, InvokeRaises, store
  <2> QED
    BY <2>2, <2>3, <2>4 DEF RetriesQueueUp
<1>5. ASSUME NEW k \in Workers, Cancelled(k) \/ UpdateRaises(k) \/ Restart(k)
      PROVE  RetriesQueueUp'
  <2>1. PICK c \in {Idle, Down} : worker' = [worker EXCEPT ![k] = c]
    BY <1>5 DEF Cancelled, UpdateRaises, Restart
  <2>2. UNCHANGED <<status, availableAt, lastClaim>>
    BY <1>5 DEF Cancelled, UpdateRaises, Restart, store
  <2>3. /\ worker'[k].pc \notin Holding
        /\ \A j \in Workers \ {k} : worker'[j] = worker[j]
    BY <1>0, <2>1 DEF QueueTypeOK, Idle, Down
  <2> QED
    BY <2>2, <2>3 DEF RetriesQueueUp
<1>6. ASSUME UNCHANGED <<status, availableAt, worker, lastClaim>>
      PROVE  RetriesQueueUp'
  BY <1>6 DEF RetriesQueueUp
<1>7. ASSUME NEW k \in Workers, PollEmpty(k) PROVE RetriesQueueUp'
  BY <1>6, <1>7 DEF PollEmpty, store
<1>8. CASE Tick \/ UNCHANGED queueVars
  BY <1>6, <1>8 DEF Tick, store, queueVars
<1> QED
  BY <1>1, <1>2, <1>3, <1>4, <1>5, <1>7, <1>8 DEF QueueNext, WorkerStep

(* A failing item cannot overtake one that was due before its last claim. *)
THEOREM NoItemStarves == QueueSpec => FairTurns
<1> DEFINE Turn == \A v, w \in WorkIds :
          (status[w] = "pending" /\ status'[w] = "claimed" /\ v # w /\ Due(v))
             => availableAt[v] >= lastClaim[w]
<1>1. QueueIInv /\ RetriesQueueUp /\ [QueueNext]_queueVars => [Turn]_queueVars
  <2> SUFFICES ASSUME QueueIInv, RetriesQueueUp, QueueNext,
                      NEW v \in WorkIds, NEW w \in WorkIds,
                      status[w] = "pending", status'[w] = "claimed", v # w, Due(v)
               PROVE  availableAt[v] >= lastClaim[w]
    OBVIOUS
  <2>1. QueueTypeOK
    BY DEF QueueIInv
  <2>2. PICK k \in Workers : Claim(k)
    BY <2>1 DEF QueueNext, WorkerStep, QueueTypeOK, Enqueue, InvokeReturns, InvokeRaises,
                Complete, Fail, PollEmpty, Cancelled, UpdateRaises, Restart, Tick, store
  <2>3. Earliest(w)
    BY <2>1, <2>2 DEF Claim, QueueTypeOK
  <2>4. /\ availableAt[w] <= availableAt[v] /\ lastClaim[w] <= availableAt[w]
        /\ availableAt[w] \in Nat /\ availableAt[v] \in Nat /\ lastClaim[w] \in Nat
    BY <2>1, <2>3, SchedulerAssumption DEF Earliest, Before, RetriesQueueUp, QueueTypeOK, Times
  <2> QED
    BY <2>4
<1>2. QueueSpec => []RetriesQueueUp
  BY TurnsInit, TurnsNext, QueueInvariance, PTL DEF QueueSpec
<1> QED
  BY <1>1, <1>2, QueueInvariance, PTL DEF QueueSpec, FairTurns

-----------------------------------------------------------------------------
(* The refinement of WorkQueue *)

(* The step of one worker changes what that worker holds and nothing else. *)
LEMMA HandsChange ==
  ASSUME QueueTypeOK, NEW k \in Workers, NEW c, worker' = [worker EXCEPT ![k] = c]
  PROVE  Held' = [Held EXCEPT ![k] = IF c.pc \in Holding THEN {c.work} ELSE {}]
BY DEF QueueTypeOK, Held

LEMMA HandsStay ==
  ASSUME UNCHANGED worker
  PROVE  UNCHANGED Held
BY DEF Held

(* At first no item is there and no worker has one. *)
LEMMA QueueInitRefines == QueueInit => Queue!Init
BY DEF QueueInit, Queue!Init, Held, Idle, Holding

(* Enqueue, Claim, Complete and Fail are the operations of their names, a worker
   that fails while it has an item drops it, and the rest stutters. *)
LEMMA QueueStepRefines ==
  QueueIInv /\ [QueueNext]_queueVars => [Queue!Next]_(Queue!vars)
<1> SUFFICES ASSUME QueueIInv, [QueueNext]_queueVars
             PROVE  Queue!Next \/ UNCHANGED Queue!vars
  OBVIOUS
<1>0. QueueTypeOK /\ WorkerHoldsWork /\ ExclusiveClaim
  BY DEF QueueIInv
<1>1. ASSUME NEW w \in WorkIds, NEW at \in Times, Enqueue(w, at)
      PROVE  Queue!Next
  <2>1. Queue!Enqueue(w)
    BY <1>1, HandsStay DEF Enqueue, Queue!Enqueue, Queue!Set
  <2> QED
    BY <2>1 DEF Queue!Next
<1>2. ASSUME NEW k \in Workers, Claim(k)
      PROVE  Queue!Next
  <2>1. PICK w \in WorkIds :
           /\ Earliest(w)
           /\ status' = [status EXCEPT ![w] = "claimed"]
           /\ worker' = [worker EXCEPT ![k] =
                           [pc |-> "running", work |-> w, now |-> now]]
    BY <1>2 DEF Claim
  <2>2. Held[k] = {} /\ status[w] = "pending"
    BY <1>2, <2>1 DEF Claim, Polls, Held, Holding, Earliest, Due
  <2>3. Held' = [Held EXCEPT ![k] = {w}]
    <3> DEFINE c == [pc |-> "running", work |-> w, now |-> now]
    <3>1. Held' = [Held EXCEPT ![k] = IF c.pc \in Holding THEN {c.work} ELSE {}]
      BY <1>0, <2>1, HandsChange
    <3> QED
      BY <3>1 DEF Holding
  <2>4. Queue!Claim(k, w)
    BY <2>1, <2>2, <2>3 DEF Queue!Claim, Queue!Set, Queue!Hands
  <2> QED
    BY <2>4 DEF Queue!Next
<1>3. ASSUME NEW k \in Workers, Complete(k) \/ Fail(k)
      PROVE  Queue!Next
  <2>1. PICK w \in WorkIds : w = worker[k].work
    BY <1>0, <1>3 DEF Complete, Fail, WorkerHoldsWork, Holding
  <2>2. Held[k] = {w} /\ status[w] = "claimed"
    BY <1>0, <1>3, <2>1 DEF Complete, Fail, ExclusiveClaim, Holding, Held
  <2>3. Held' = [Held EXCEPT ![k] = {}]
    <3>1. Held' = [Held EXCEPT ![k] = IF Idle.pc \in Holding THEN {Idle.work} ELSE {}]
      BY <1>0, <1>3, HandsChange DEF Complete, Fail
    <3> QED
      BY <3>1 DEF Idle, Holding
  <2>4. \/ status' = [status EXCEPT ![w] = "completed"]
        \/ status' = [status EXCEPT ![w] = "pending"]
    BY <1>3, <2>1, <2>2 DEF Complete, Fail
  <2>5. Queue!Complete(k, w) \/ Queue!Fail(k, w)
    BY <2>2, <2>3, <2>4 DEF Queue!Complete, Queue!Fail, Queue!Set, Queue!Hands
  <2> QED
    BY <2>5 DEF Queue!Next
<1>4. ASSUME NEW k \in Workers, InvokeReturns(k) \/ InvokeRaises(k)
      PROVE  UNCHANGED Queue!vars
  <2>1. PICK pc \in Holding : worker' = [worker EXCEPT ![k].pc = pc]
    BY <1>4 DEF InvokeReturns, InvokeRaises, Holding
  <2>2. worker[k].pc \in Holding /\ worker[k] \in WorkerState
    BY <1>0, <1>4 DEF InvokeReturns, InvokeRaises, QueueTypeOK, Holding
  <2>3. \A j \in Workers : worker'[j].work = worker[j].work
                            /\ (worker'[j].pc \in Holding <=> worker[j].pc \in Holding)
    BY <1>0, <2>1, <2>2 DEF QueueTypeOK, WorkerState
  <2>4. UNCHANGED Held
    BY <2>3 DEF Held
  <2> QED
    BY <1>4, <2>4 DEF InvokeReturns, InvokeRaises, store, Queue!vars
<1>5. ASSUME NEW k \in Workers, Cancelled(k) \/ UpdateRaises(k) \/ Restart(k)
      PROVE  Queue!Next \/ UNCHANGED Queue!vars
  <2>1. PICK c \in {Idle, Down} : worker' = [worker EXCEPT ![k] = c]
    BY <1>5 DEF Cancelled, UpdateRaises, Restart
  <2>2. Held' = [Held EXCEPT ![k] = {}] /\ UNCHANGED status
    <3>1. Held' = [Held EXCEPT ![k] = IF c.pc \in Holding THEN {c.work} ELSE {}]
      BY <1>0, <2>1, HandsChange
    <3>2. c.pc \notin Holding
      BY DEF Idle, Down, Holding
    <3> QED
      BY <1>5, <3>1, <3>2 DEF Cancelled, UpdateRaises, Restart, store
  <2>3. CASE Held[k] = {}
    BY <2>2, <2>3 DEF Held, Queue!vars
  <2>4. CASE Held[k] # {}
    BY <2>2, <2>4 DEF Queue!Next, Queue!Drop, Queue!Hands
  <2> QED
    BY <2>3, <2>4
<1>6. ASSUME UNCHANGED <<status, worker>>
      PROVE  UNCHANGED Queue!vars
  BY <1>6, HandsStay DEF Queue!vars
<1>7. ASSUME NEW k \in Workers, PollEmpty(k) PROVE UNCHANGED Queue!vars
  BY <1>6, <1>7 DEF PollEmpty, store
<1>8. CASE Tick \/ UNCHANGED queueVars
  BY <1>6, <1>8 DEF Tick, store, queueVars
<1> QED
  BY <1>1, <1>2, <1>3, <1>4, <1>5, <1>7, <1>8 DEF QueueNext, WorkerStep

(* The scheduler store with its workers is the queue that kernel/ports.py
   promises, for any number of items, workers, failures and crashes. *)
THEOREM SchedulerImplementsWorkQueue == QueueSpec => ImplementsWorkQueue
<1>1. QueueIInv /\ [QueueNext]_queueVars => [Queue!Next]_(Queue!vars)
  BY QueueStepRefines
<1> QED
  BY <1>1, QueueInitRefines, QueueInvariance, PTL DEF QueueSpec, ImplementsWorkQueue, Queue!Spec

-----------------------------------------------------------------------------
(* The consequences of the refinement.  The rows and the hands are well typed. *)
QueueTypes ==
    /\ status \in [WorkIds -> Status]
    /\ Held \in [Workers -> SUBSET WorkIds]

(* One step of the queue keeps the types, and an item that is in somebody's hands
   claimed and in nobody else's. *)
LEMMA QueueHoldsStep ==
  QueueTypes /\ Queue!HeldOnce /\ [Queue!Next]_(Queue!vars) => (QueueTypes /\ Queue!HeldOnce)'
<1> SUFFICES ASSUME QueueTypes, Queue!HeldOnce, [Queue!Next]_(Queue!vars)
             PROVE  (QueueTypes /\ Queue!HeldOnce)'
  OBVIOUS
<1> USE DEF QueueTypes, Queue!HeldOnce, Status
<1>1. ASSUME NEW i \in WorkIds, Queue!Enqueue(i)
      PROVE  (QueueTypes /\ Queue!HeldOnce)'
  BY <1>1 DEF Queue!Enqueue, Queue!Set
<1>2. ASSUME NEW k \in Workers, NEW i \in WorkIds, Queue!Claim(k, i)
      PROVE  (QueueTypes /\ Queue!HeldOnce)'
  BY <1>2 DEF Queue!Claim, Queue!Set, Queue!Hands
<1>3. ASSUME NEW k \in Workers, NEW i \in WorkIds, Queue!Complete(k, i) \/ Queue!Fail(k, i)
      PROVE  (QueueTypes /\ Queue!HeldOnce)'
  BY <1>3 DEF Queue!Complete, Queue!Fail, Queue!Set, Queue!Hands
<1>4. ASSUME NEW k \in Workers, Queue!Drop(k)
      PROVE  (QueueTypes /\ Queue!HeldOnce)'
  BY <1>4 DEF Queue!Drop, Queue!Hands
<1>5. CASE UNCHANGED Queue!vars
  BY <1>5 DEF Queue!vars
<1> QED
  BY <1>1, <1>2, <1>3, <1>4, <1>5 DEF Queue!Next

(* A step moves the row of an item only if it is absent, pending or in the hands
   of the worker that takes the step. *)
LEMMA QueueRestStep ==
  ASSUME QueueTypes, [Queue!Next]_(Queue!vars), NEW i \in WorkIds
  PROVE  /\ status[i] = "completed" => status'[i] = "completed"
         /\ Queue!Abandoned(i) => Queue!Abandoned(i)'
<1> USE DEF QueueTypes, Queue!Abandoned, Status
<1>1. ASSUME NEW j \in WorkIds, Queue!Enqueue(j)
      PROVE  /\ status[i] = "completed" => status'[i] = "completed"
             /\ Queue!Abandoned(i) => Queue!Abandoned(i)'
  BY <1>1 DEF Queue!Enqueue, Queue!Set
<1>2. ASSUME NEW k \in Workers, NEW j \in WorkIds,
             Queue!Claim(k, j) \/ Queue!Complete(k, j) \/ Queue!Fail(k, j)
      PROVE  /\ status[i] = "completed" => status'[i] = "completed"
             /\ Queue!Abandoned(i) => Queue!Abandoned(i)'
  <2>1. status[j] \in {"pending", "claimed"} /\ (status[j] = "claimed" => j \in Held[k])
    BY <1>2 DEF Queue!Claim, Queue!Complete, Queue!Fail
  <2>2. PICK s, items : /\ status' = [status EXCEPT ![j] = s]
                        /\ Held' = [Held EXCEPT ![k] = items] /\ items \subseteq {j}
    BY <1>2 DEF Queue!Claim, Queue!Complete, Queue!Fail, Queue!Set, Queue!Hands
  <2>3. CASE i = j
    BY <2>1, <2>3
  <2>4. CASE i # j
    BY <2>2, <2>4
  <2> QED
    BY <2>3, <2>4
<1>3. ASSUME NEW k \in Workers, Queue!Drop(k)
      PROVE  /\ status[i] = "completed" => status'[i] = "completed"
             /\ Queue!Abandoned(i) => Queue!Abandoned(i)'
  BY <1>3 DEF Queue!Drop, Queue!Hands
<1>4. CASE UNCHANGED Queue!vars
  BY <1>4 DEF Queue!vars
<1> QED
  BY <1>1, <1>2, <1>3, <1>4 DEF Queue!Next

(* What is completed stays completed, and an item whose worker was cancelled or
   whose last update raised stays claimed and in nobody's hands for good: the queue
   of stores/mongo.py has no step that would find it. *)
THEOREM AbandonedItemsRest == QueueSpec => Queue!ItemsRest
<1> DEFINE Rest == \A i \in WorkIds :
                      /\ status[i] = "completed" => status'[i] = "completed"
                      /\ Queue!Abandoned(i) => Queue!Abandoned(i)'
<1>1. Queue!Init => QueueTypes /\ Queue!HeldOnce
  BY DEF Queue!Init, Queue!HeldOnce, QueueTypes, Status
<1>2. QueueTypes /\ [Queue!Next]_(Queue!vars) => [Rest]_(Queue!vars)
  BY QueueRestStep
<1> HIDE DEF Rest
<1>3. Queue!Spec => [][Rest]_(Queue!vars)
  BY <1>1, <1>2, QueueHoldsStep, PTL DEF Queue!Spec
<1> USE DEF Rest
<1> QED
  BY <1>3, SchedulerImplementsWorkQueue DEF ImplementsWorkQueue, Queue!ItemsRest
=============================================================================
