---------------------------- MODULE WatchesProofs ----------------------------
(***************************************************************************)
(* Settlement and maturation for any number of runs, instances, set_ring    *)
(* requests and faults: a run matures once, the rows are what folding the    *)
(* journal yields, and the resume is what the journal earned but for one     *)
(* update per fault and overlap.  The folds are recursive functions over the *)
(* length of the journal; what is proved about them rests on the principle   *)
(* of the least element.                                                     *)
(***************************************************************************)
EXTENDS Watches, FiniteSetTheorems, WellFoundedInduction, TLAPS

-----------------------------------------------------------------------------
(* Induction over the naturals, for sets of naturals *)

LEMMA LeastNat ==
    ASSUME NEW S \in SUBSET Nat, S # {}
    PROVE  \E n \in S : \A m \in S : n <= m
<1> DEFINE R == OpToRel(<, Nat)
<1>1. IsWellFoundedOn(R, Nat)
  BY NatLessThanWellFounded
<1>2. \A x, y \in Nat : <<y, x>> \in R <=> y < x
  BY DEF OpToRel
<1> HIDE DEF R
<1>3. \E x \in S : \A y \in S : ~ (<<y, x>> \in R)
  BY <1>1, WFMin
<1>4. PICK n \in S : \A m \in S : ~ (<<m, n>> \in R)
  BY <1>3
<1>5. \A m \in S : m \in Nat /\ n \in Nat /\ ~ (m < n)
  BY <1>2, <1>4
<1> QED
  BY <1>5

LEMMA Induct ==
    ASSUME NEW S, 0 \in S, \A n \in Nat : n \in S => n + 1 \in S
    PROVE  \A n \in Nat : n \in S
<1> SUFFICES ASSUME Nat \ S # {} PROVE FALSE
  OBVIOUS
<1>1. PICK n \in Nat \ S : \A m \in Nat \ S : n <= m
  BY LeastNat
<1>2. n # 0 /\ n - 1 \in Nat /\ ~ (n <= n - 1)
  BY <1>1
<1>3. n - 1 \in S
  BY <1>1, <1>2
<1>4. (n - 1) + 1 \in S
  BY <1>2, <1>3
<1> QED
  BY <1>1, <1>4

LEMMA InductTo ==
    ASSUME NEW N \in Nat, NEW S, 0 \in S, \A n \in 0 .. N - 1 : n \in S => n + 1 \in S
    PROVE  \A n \in 0 .. N : n \in S
<1> DEFINE T == {n \in Nat : n <= N => n \in S}
<1>1. 0 \in T
  OBVIOUS
<1>2. \A n \in Nat : n \in T => n + 1 \in T
  OBVIOUS
<1> HIDE DEF T
<1>3. \A n \in Nat : n \in T
  BY <1>1, <1>2, Induct
<1> QED
  BY <1>3 DEF T

-----------------------------------------------------------------------------
(* The folds of the journal *)

(* The recursion of Rebuilt has a solution, and Rebuilt is its last value. *)
LEMMA RebuiltExists ==
    ASSUME NEW r, NEW old, NEW events, Len(events) \in Nat
    PROVE  \E row : /\ row[0] = old
                    /\ \A n \in 1 .. Len(events) : row[n] = ApplyTo(r, row[n - 1], events[n])
                    /\ Rebuilt(r, old, events) = row[Len(events)]
<1> DEFINE Solves(g, n) ==
             g = [k \in 0 .. n |-> IF k = 0 THEN old ELSE ApplyTo(r, g[k - 1], events[k])]
           S == {n \in Nat : \E g : Solves(g, n)}
<1>1. 0 \in S
  <2> DEFINE g == [k \in 0 .. 0 |-> old]
  <2>1. Solves(g, 0)
    OBVIOUS
  <2> QED
    BY <2>1
<1>2. ASSUME NEW n \in Nat, n \in S
      PROVE  n + 1 \in S
  <2>1. PICK g : Solves(g, n)
    BY <1>2
  <2> DEFINE h == [k \in 0 .. n + 1 |->
                     IF k <= n THEN g[k] ELSE ApplyTo(r, g[n], events[n + 1])]
  <2>2. \A k \in 0 .. n + 1 :
           h[k] = IF k = 0 THEN old ELSE ApplyTo(r, h[k - 1], events[k])
    <3> TAKE k \in 0 .. n + 1
    <3>1. CASE k = n + 1
      BY <3>1
    <3>2. CASE k <= n
      BY <2>1, <3>2
    <3> QED
      BY <3>1, <3>2
  <2>3. h = [k \in 0 .. n + 1 |-> h[k]]
    OBVIOUS
  <2> HIDE DEF h
  <2>4. Solves(h, n + 1)
    BY <2>2, <2>3
  <2> QED
    BY <2>4
<1> HIDE DEF S
<1>3. \A n \in Nat : n \in S
  BY <1>1, <1>2, Induct
<1>4. \E g : Solves(g, Len(events))
  BY <1>3 DEF S
<1> DEFINE row == CHOOSE g : Solves(g, Len(events))
<1>5. Solves(row, Len(events))
  BY <1>4
<1>6. Rebuilt(r, old, events) = row[Len(events)]
  BY DEF Rebuilt
<1> HIDE DEF row
<1> QED
  BY <1>5, <1>6

(* One more event is one more application. *)
LEMMA RebuiltAppend ==
    ASSUME NEW r, NEW old, NEW T, NEW events \in Seq(T), NEW e \in T
    PROVE  Rebuilt(r, old, Append(events, e)) = ApplyTo(r, Rebuilt(r, old, events), e)
<1> DEFINE L == Len(events)
           more == Append(events, e)
<1>1. L \in Nat /\ Len(more) = L + 1 /\ more[L + 1] = e
      /\ \A k \in 1 .. L : more[k] = events[k]
  OBVIOUS
<1> HIDE DEF more
<1>2. PICK g : /\ g[0] = old
               /\ \A n \in 1 .. L : g[n] = ApplyTo(r, g[n - 1], events[n])
               /\ Rebuilt(r, old, events) = g[L]
  BY <1>1, RebuiltExists
<1>3. PICK h : /\ h[0] = old
               /\ \A n \in 1 .. L + 1 : h[n] = ApplyTo(r, h[n - 1], more[n])
               /\ Rebuilt(r, old, more) = h[L + 1]
  BY <1>1, RebuiltExists
<1> HIDE DEF L
<1> DEFINE S == {n \in 0 .. L : g[n] = h[n]}
<1>4. 0 \in S
  BY <1>1, <1>2, <1>3
<1>5. ASSUME NEW n \in 0 .. L - 1, n \in S
      PROVE  n + 1 \in S
  <2>1. n + 1 \in 1 .. L /\ (n + 1) - 1 = n
    BY <1>1
  <2>2. g[n + 1] = ApplyTo(r, g[n], events[n + 1])
    BY <1>2, <2>1
  <2>3. h[n + 1] = ApplyTo(r, h[n], more[n + 1])
    BY <1>1, <1>3, <2>1
  <2> QED
    BY <1>1, <1>5, <2>1, <2>2, <2>3
<1> HIDE DEF S
<1>6. \A n \in 0 .. L : n \in S
  BY <1>1, <1>4, <1>5, InductTo
<1>7. g[L] = h[L]
  BY <1>1, <1>6 DEF S
<1>8. h[L + 1] = ApplyTo(r, h[L], more[L + 1])
  BY <1>1, <1>3
<1> QED
  BY <1>1, <1>2, <1>3, <1>7, <1>8 DEF more

LEMMA RebuiltEmpty == \A r, old : Rebuilt(r, old, <<>>) = old
<1>1. Len(<<>>) = 0
  OBVIOUS
<1> QED
  BY <1>1, RebuiltExists

(* The recursion of Earned has a solution, and Earned is its last value. *)
LEMMA EarnedExists ==
    ASSUME NEW i, NEW events, Len(events) \in Nat
    PROVE  \E doc : /\ doc[0] = NoResume
                    /\ \A n \in 1 .. Len(events) : doc[n] = Earn(i, doc[n - 1], events[n])
                    /\ Earned(i, events) = doc[Len(events)]
<1> DEFINE Solves(g, n) ==
             g = [k \in 0 .. n |-> IF k = 0 THEN NoResume ELSE Earn(i, g[k - 1], events[k])]
           S == {n \in Nat : \E g : Solves(g, n)}
<1>1. 0 \in S
  <2> DEFINE g == [k \in 0 .. 0 |-> NoResume]
  <2>1. Solves(g, 0)
    OBVIOUS
  <2> QED
    BY <2>1
<1>2. ASSUME NEW n \in Nat, n \in S
      PROVE  n + 1 \in S
  <2>1. PICK g : Solves(g, n)
    BY <1>2
  <2> DEFINE h == [k \in 0 .. n + 1 |->
                     IF k <= n THEN g[k] ELSE Earn(i, g[n], events[n + 1])]
  <2>2. \A k \in 0 .. n + 1 :
           h[k] = IF k = 0 THEN NoResume ELSE Earn(i, h[k - 1], events[k])
    <3> TAKE k \in 0 .. n + 1
    <3>1. CASE k = n + 1
      BY <3>1
    <3>2. CASE k <= n
      BY <2>1, <3>2
    <3> QED
      BY <3>1, <3>2
  <2>3. h = [k \in 0 .. n + 1 |-> h[k]]
    OBVIOUS
  <2> HIDE DEF h
  <2>4. Solves(h, n + 1)
    BY <2>2, <2>3
  <2> QED
    BY <2>4
<1> HIDE DEF S
<1>3. \A n \in Nat : n \in S
  BY <1>1, <1>2, Induct
<1>4. \E g : Solves(g, Len(events))
  BY <1>3 DEF S
<1> DEFINE doc == CHOOSE g : Solves(g, Len(events))
<1>5. Solves(doc, Len(events))
  BY <1>4
<1>6. Earned(i, events) = doc[Len(events)]
  BY DEF Earned
<1> HIDE DEF doc
<1> QED
  BY <1>5, <1>6

LEMMA EarnedAppend ==
    ASSUME NEW i, NEW T, NEW events \in Seq(T), NEW e \in T
    PROVE  Earned(i, Append(events, e)) = Earn(i, Earned(i, events), e)
<1> DEFINE L == Len(events)
           more == Append(events, e)
<1>1. L \in Nat /\ Len(more) = L + 1 /\ more[L + 1] = e
      /\ \A k \in 1 .. L : more[k] = events[k]
  OBVIOUS
<1> HIDE DEF more
<1>2. PICK g : /\ g[0] = NoResume
               /\ \A n \in 1 .. L : g[n] = Earn(i, g[n - 1], events[n])
               /\ Earned(i, events) = g[L]
  BY <1>1, EarnedExists
<1>3. PICK h : /\ h[0] = NoResume
               /\ \A n \in 1 .. L + 1 : h[n] = Earn(i, h[n - 1], more[n])
               /\ Earned(i, more) = h[L + 1]
  BY <1>1, EarnedExists
<1> HIDE DEF L
<1> DEFINE S == {n \in 0 .. L : g[n] = h[n]}
<1>4. 0 \in S
  BY <1>1, <1>2, <1>3
<1>5. ASSUME NEW n \in 0 .. L - 1, n \in S
      PROVE  n + 1 \in S
  <2>1. n + 1 \in 1 .. L /\ (n + 1) - 1 = n
    BY <1>1
  <2>2. g[n + 1] = Earn(i, g[n], events[n + 1])
    BY <1>2, <2>1
  <2>3. h[n + 1] = Earn(i, h[n], more[n + 1])
    BY <1>1, <1>3, <2>1
  <2> QED
    BY <1>1, <1>5, <2>1, <2>2, <2>3
<1> HIDE DEF S
<1>6. \A n \in 0 .. L : n \in S
  BY <1>1, <1>4, <1>5, InductTo
<1>7. g[L] = h[L]
  BY <1>1, <1>6 DEF S
<1>8. h[L + 1] = Earn(i, h[L], more[L + 1])
  BY <1>1, <1>3
<1> QED
  BY <1>1, <1>2, <1>3, <1>7, <1>8 DEF more

LEMMA EarnedEmpty == \A i : Earned(i, <<>>) = NoResume
<1>1. Len(<<>>) = 0
  OBVIOUS
<1> QED
  BY <1>1, EarnedExists

-----------------------------------------------------------------------------
(* Types *)

LEMMA Samples == NoRun \in Runs /\ NoRequest \in RequestState /\ NoResume \in Resumes
<1>1. NoRun \in Runs
  BY WatchAssumption DEF NoRun
<1>2. NoResume \in Resumes
  BY DEF NoResume, Resumes
<1>3. (CHOOSE i \in Instances : TRUE) \in Instances /\ (CHOOSE g \in Rings : TRUE) \in Rings
  BY WatchAssumption
<1> QED
  BY <1>1, <1>2, <1>3 DEF NoRequest, RequestState

LEMMA NoResumeType == NoResume \in Resumes
BY DEF NoResume, Resumes

LEMMA DoneType == [NoRequest EXCEPT !.pc = "done"] \in RequestState
BY Samples DEF RequestState

LEMMA EventTypes ==
    /\ \A r \in Runs : Settled(r) \in Events /\ Registered(r) \in Events
    /\ \A r \in Runs, o \in Outcomes : Fired(r, o) \in Events /\ Deferred(r, o) \in Events
    /\ \A i \in Instances, g \in Rings : SetRing(i, g) \in Events
BY DEF Events

(* The projectors of the resume keep its type. *)
LEMMA ResumeTypes ==
    ASSUME NEW doc \in Resumes
    PROVE  /\ AddSettlement(doc) \in Resumes
           /\ \A o : AddMaturation(doc, o) \in Resumes
           /\ \A g \in Rings : AddRing(doc, g) \in Resumes
<1>1. AddSettlement(doc) \in Resumes
  BY DEF Resumes, AddSettlement
<1>2. ASSUME NEW o PROVE AddMaturation(doc, o) \in Resumes
  <2> DEFINE prior == IF doc = NoResume THEN NewResume ELSE doc
  <2>1. prior \in Resumes
    BY DEF Resumes, NewResume, NoResume
  <2>2. AddMaturation(doc, o) =
           IF o = "success" THEN [prior EXCEPT !.trust = @ + 1, !.streak = @ + 1, !.good = @ + 1]
           ELSE [prior EXCEPT !.trust = @ - 1, !.streak = 0, !.bad = @ + 1]
    BY DEF AddMaturation
  <2> HIDE DEF prior
  <2>3. CASE o = "success"
    <3> DEFINE a == [prior EXCEPT !.trust = @ + 1]
               b == [a EXCEPT !.streak = @ + 1]
               c == [b EXCEPT !.good = @ + 1]
    <3>1. a \in Resumes
      BY <2>1 DEF Resumes
    <3> HIDE DEF a
    <3>2. b \in Resumes
      BY <3>1 DEF Resumes
    <3> HIDE DEF b
    <3>3. c \in Resumes
      BY <3>2 DEF Resumes
    <3> QED
      BY <2>2, <2>3, <3>3 DEF a, b
  <2>4. CASE o # "success"
    <3> DEFINE a == [prior EXCEPT !.trust = @ - 1]
               b == [a EXCEPT !.streak = 0]
               c == [b EXCEPT !.bad = @ + 1]
    <3>1. a \in Resumes
      BY <2>1 DEF Resumes
    <3> HIDE DEF a
    <3>2. b \in Resumes
      BY <3>1 DEF Resumes
    <3> HIDE DEF b
    <3>3. c \in Resumes
      BY <3>2 DEF Resumes
    <3> QED
      BY <2>2, <2>4, <3>3 DEF a, b
  <2> QED
    BY <2>3, <2>4
<1>3. ASSUME NEW g \in Rings PROVE AddRing(doc, g) \in Resumes
  BY DEF Resumes, AddRing
<1> QED
  BY <1>1, <1>2, <1>3

LEMMA OutcomeType ==
    ASSUME TypeOK, NEW r, Has("fired", r)
    PROVE  /\ OutcomeOf(r) \in Outcomes
           /\ \E n \in DOMAIN journal : /\ journal[n].kind = "fired" /\ journal[n].run = r
                                        /\ OutcomeOf(r) = journal[n].outcome
<1> DEFINE n == CHOOSE n \in DOMAIN journal : journal[n].kind = "fired" /\ journal[n].run = r
<1>1. n \in DOMAIN journal /\ journal[n].kind = "fired" /\ journal[n].run = r
  BY DEF Has
<1>2. OutcomeOf(r) = journal[n].outcome
  BY DEF OutcomeOf
<1> HIDE DEF n
<1>3. journal[n] \in Events
  BY <1>1 DEF TypeOK
<1>4. journal[n].outcome \in Outcomes
  BY <1>1, <1>3 DEF Events, Settled, Registered, Fired, Deferred, SetRing
<1> QED
  BY <1>1, <1>2, <1>4

(* A sequence of a set's members has as many entries as the set. *)
LEMMA Listing ==
    ASSUME NEW S, IsFiniteSet(S), NEW s \in SetToSeqs(S)
    PROVE  /\ DOMAIN s = 1 .. Cardinality(S) /\ Cardinality(S) \in Nat
           /\ s \in [1 .. Cardinality(S) -> S]
BY FS_CardinalityType DEF SetToSeqs

LEMMA ScanLists ==
    ASSUME TypeOK, NEW s \in SetToSeqs({r \in due : watch[r] = "pending"})
    PROVE  /\ s \in Seq(Runs)
           /\ \A n \in DOMAIN s : s[n] \in Runs /\ watch[s[n]] = "pending"
<1> DEFINE S == {r \in due : watch[r] = "pending"}
<1>1. IsFiniteSet(S) /\ S \subseteq Runs
  BY WatchAssumption, FS_Subset DEF TypeOK
<1>2. \A r \in S : watch[r] = "pending"
  OBVIOUS
<1> HIDE DEF S
<1>3. /\ DOMAIN s = 1 .. Cardinality(S) /\ Cardinality(S) \in Nat
      /\ s \in [1 .. Cardinality(S) -> S]
  BY <1>1, Listing DEF S
<1>4. s \in [1 .. Cardinality(S) -> Runs]
  BY <1>1, <1>3
<1> QED
  BY <1>1, <1>2, <1>3, <1>4

LEMMA ListLists ==
    ASSUME TypeOK, NEW s \in SetToSeqs(ListedFires),
           NEW todo, todo = [n \in DOMAIN s |-> journal[s[n]].run]
    PROVE  todo \in Seq(Runs) /\ \A n \in DOMAIN todo : Has("fired", todo[n])
<1>1. ListedFires \subseteq 1 .. Len(journal) /\ Len(journal) \in Nat
  BY DEF ListedFires, TypeOK
<1>2. IsFiniteSet(ListedFires)
  <2>1. IsFiniteSet(1 .. Len(journal))
    BY <1>1, FS_Interval
  <2> QED
    BY <1>1, <2>1, FS_Subset
<1>3. /\ DOMAIN s = 1 .. Cardinality(ListedFires) /\ Cardinality(ListedFires) \in Nat
      /\ s \in [1 .. Cardinality(ListedFires) -> ListedFires]
  BY <1>2, Listing
<1>4. \A n \in DOMAIN s : s[n] \in DOMAIN journal /\ journal[s[n]].kind = "fired"
  BY <1>3 DEF ListedFires
<1>5. \A k \in DOMAIN journal : journal[k].kind = "fired" => journal[k].run \in Runs
  BY DEF TypeOK, Events, Settled, Registered, Fired, Deferred, SetRing
<1>6. \A n \in DOMAIN s : journal[s[n]].run \in Runs /\ Has("fired", journal[s[n]].run)
  BY <1>4, <1>5 DEF Has
<1>7. todo \in [1 .. Cardinality(ListedFires) -> Runs]
  BY <1>3, <1>6
<1> QED
  BY <1>3, <1>6, <1>7

(* What is journaled after one more event. *)
LEMMA HasAppended ==
    ASSUME TypeOK, NEW e \in Events, Record(e)
    PROVE  /\ \A kind, r : Has(kind, r)' <=> Has(kind, r) \/ (e.kind = kind /\ e.run = r)
           /\ \A n \in DOMAIN journal : n \in DOMAIN journal' /\ journal'[n] = journal[n]
           /\ Len(journal) + 1 \in DOMAIN journal' /\ journal'[Len(journal) + 1] = e
           /\ DOMAIN journal' = 1 .. (Len(journal) + 1) /\ Len(journal) \in Nat
           /\ DOMAIN journal = 1 .. Len(journal)
<1>1. /\ journal' = Append(journal, e) /\ journal \in Seq(Events) /\ Len(journal) \in Nat
      /\ DOMAIN journal = 1 .. Len(journal)
  BY DEF Record, TypeOK
<1>2. /\ Len(journal') = Len(journal) + 1 /\ journal'[Len(journal) + 1] = e
      /\ DOMAIN journal' = 1 .. (Len(journal) + 1)
      /\ \A n \in 1 .. Len(journal) : journal'[n] = journal[n]
  BY <1>1
<1> HIDE DEF Record
<1>3. ASSUME NEW kind, NEW r
      PROVE  Has(kind, r)' <=> Has(kind, r) \/ (e.kind = kind /\ e.run = r)
  BY <1>1, <1>2 DEF Has
<1> QED
  BY <1>1, <1>2, <1>3

LEMMA HasUnchanged ==
    ASSUME UNCHANGED journal
    PROVE  \A kind, r : Has(kind, r)' <=> Has(kind, r)
BY DEF Has

(* The kinds of the events, and whose they are. *)
LEMMA EventShapes ==
    /\ \A r \in Runs : /\ Settled(r).kind = "settled" /\ Settled(r).run = r
                       /\ Registered(r).kind = "registered" /\ Registered(r).run = r
                       /\ Settled(r).instance = InstanceOf[r]
                       /\ Registered(r).instance = InstanceOf[r]
    /\ \A r \in Runs, o \in Outcomes :
          /\ Fired(r, o).kind = "fired" /\ Fired(r, o).run = r
          /\ Fired(r, o).instance = InstanceOf[r] /\ Fired(r, o).outcome = o
          /\ Deferred(r, o).kind = "deferred" /\ Deferred(r, o).run = r
          /\ Deferred(r, o).instance = InstanceOf[r] /\ Deferred(r, o).outcome = o
    /\ \A i \in Instances, g \in Rings :
          /\ SetRing(i, g).kind = "set_ring" /\ SetRing(i, g).instance = i
          /\ SetRing(i, g).ring = g
BY DEF Settled, Registered, Fired, Deferred, SetRing

(* The initial state has every type and the grounds of the pump. *)
LEMMA InitTypes == Init => TypeOK
BY Samples, WatchAssumption DEF Init, TypeOK, PumpState, Resumes, NoResume

(* Every step keeps the types: what the pump takes from its list and reads
   from a copy is there. *)
LEMMA TypeStep == TypeOK /\ Grounds /\ [Next]_vars => TypeOK'
<1> SUFFICES ASSUME TypeOK, Grounds, [Next]_vars PROVE TypeOK'
  OBVIOUS
<1> USE DEF env, rows
<1>1. ASSUME NEW r \in Runs, Work(r) PROVE TypeOK'
  BY <1>1 DEF Work, At, TypeOK, PumpState, SettlePcs, ScanPcs
<1>2. CASE NoWork \/ Scanned \/ Matured
  BY <1>2 DEF NoWork, Scanned, Matured, Goto, At, TypeOK, PumpState, SettlePcs, ScanPcs, MaturePcs
<1>3. CASE AppendSettled
  <2>1. journal' \in Seq(Events)
    BY <1>3, EventTypes DEF AppendSettled, Record, TypeOK, PumpState
  <2> QED
    BY <1>3, <2>1 DEF AppendSettled, Goto, At, TypeOK, PumpState, SettlePcs
<1>4. CASE ProjectRows
  BY <1>4 DEF ProjectRows, Goto, At, FactAfter, TypeOK, PumpState, SettlePcs
<1>5. CASE ReadResume \/ ReadTrust
  <2>1. resume[InstanceOf[pump.run]] \in Resumes
    BY WatchAssumption DEF TypeOK, PumpState
  <2> QED
    BY <1>5, <2>1 DEF ReadResume, ReadTrust, At, TypeOK, PumpState, SettlePcs, MaturePcs
<1>6. CASE WriteResume
  <2>1. AddSettlement(pump.copy) \in Resumes
    BY ResumeTypes DEF TypeOK, PumpState
  <2>2. resume' \in [Instances -> Resumes] /\ overlaps' \in Nat
    <3>1. resume' = [resume EXCEPT ![InstanceOf[pump.run]] = AddSettlement(pump.copy)]
          /\ overlaps' \in {overlaps, overlaps + 1}
      BY <1>6 DEF WriteResume, WriteByPump
    <3>2. overlaps' \in Nat
      BY <3>1 DEF TypeOK
    <3> QED
      BY <2>1, <3>1, <3>2 DEF TypeOK
  <2>3. pump' \in PumpState
    BY <1>6, Samples DEF WriteResume, Leave, TypeOK, PumpState, SettlePcs, ScanPcs
  <2> QED
    BY <1>6, <2>2, <2>3 DEF WriteResume, TypeOK
<1>7. CASE AppendRegistered
  <2>1. journal' \in Seq(Events)
    BY <1>7, EventTypes DEF AppendRegistered, Record, TypeOK, PumpState
  <2> QED
    BY <1>7, <2>1 DEF AppendRegistered, Goto, At, TypeOK, PumpState, SettlePcs
<1>8. CASE ProjectWatch
  BY <1>8 DEF ProjectWatch, Goto, At, WatchAfter, TypeOK, PumpState, SettlePcs, ScanPcs
<1>9. CASE Scan
  <2>1. PICK s \in SetToSeqs({r \in due : watch[r] = "pending"}) :
           pump' = [pump EXCEPT !.pc = "fire", !.todo = s]
    BY <1>9 DEF Scan
  <2>2. s \in Seq(Runs)
    BY ScanLists
  <2> QED
    BY <1>9, <2>1, <2>2 DEF Scan, TypeOK, PumpState, ScanPcs
<1>10. CASE Fire
  <2>1. pump.todo # <<>> /\ pump.todo \in Seq(Runs)
    BY <1>10 DEF Fire, TypeOK, PumpState
  <2>2. Head(pump.todo) \in Runs /\ Tail(pump.todo) \in Seq(Runs)
    BY <2>1
  <2>3. journal' \in Seq(Events)
    BY <1>10, <2>2, EventTypes DEF Fire, Record, TypeOK, Outcomes
  <2> QED
    BY <1>10, <2>2, <2>3 DEF Fire, At, TypeOK, PumpState, ScanPcs
<1>11. CASE FlipWatch
  BY <1>11 DEF FlipWatch, Goto, At, WatchAfter, TypeOK, PumpState, ScanPcs
<1>12. CASE List
  <2>1. PICK s \in SetToSeqs(ListedFires) :
           pump' = [pump EXCEPT !.pc = "mature", !.todo = [n \in DOMAIN s |-> journal[s[n]].run]]
    BY <1>12 DEF List
  <2>2. [n \in DOMAIN s |-> journal[s[n]].run] \in Seq(Runs)
    BY ListLists
  <2> QED
    BY <1>12, <2>1, <2>2 DEF List, TypeOK, PumpState, MaturePcs
<1>13. CASE Mature
  <2>1. Head(pump.todo) \in Runs /\ Tail(pump.todo) \in Seq(Runs)
    BY <1>13 DEF Mature, TypeOK, PumpState
  <2> QED
    <3>1. \/ pump' = [pump EXCEPT !.todo = Tail(pump.todo)]
          \/ pump' = [pump EXCEPT !.pc = "work", !.todo = <<>>, !.copy = NoResume]
          \/ pump' = [pump EXCEPT !.pc = "grade", !.run = Head(pump.todo)]
      BY <1>13 DEF Mature
    <3>2. <<>> \in Seq(Runs)
      OBVIOUS
    <3>3. pump' \in PumpState
      BY <2>1, <3>1, <3>2, NoResumeType DEF TypeOK, PumpState, MaturePcs
    <3> QED
      BY <1>13, <3>3 DEF Mature, TypeOK
<1>14. CASE SaveEvalCase
  BY <1>14 DEF SaveEvalCase, Goto, At, TypeOK, PumpState, MaturePcs
<1>15. CASE WriteTrust
  <2>1. AddMaturation(pump.copy, OutcomeOf(pump.run)) \in Resumes
    BY ResumeTypes DEF TypeOK, PumpState
  <2>2. resume' \in [Instances -> Resumes] /\ overlaps' \in Nat
    <3>1. resume' = [resume EXCEPT ![InstanceOf[pump.run]] =
                       AddMaturation(pump.copy, OutcomeOf(pump.run))]
          /\ overlaps' \in {overlaps, overlaps + 1}
      BY <1>15 DEF WriteTrust, WriteByPump
    <3>2. overlaps' \in Nat
      BY <3>1 DEF TypeOK
    <3> QED
      BY <2>1, <3>1, <3>2 DEF TypeOK
  <2>3. pump' \in PumpState
    BY <1>15, Samples DEF WriteTrust, Leave, TypeOK, PumpState, MaturePcs
  <2> QED
    BY <1>15, <2>2, <2>3 DEF WriteTrust, TypeOK
<1>16. CASE AppendDeferred
  <2>1. pump.run \in Runs /\ Has("fired", pump.run)
    BY <1>16 DEF AppendDeferred, At, Grounds, TypeOK, PumpState
  <2>2. journal' \in Seq(Events)
    BY <1>16, <2>1, OutcomeType, EventTypes DEF AppendDeferred, Record, TypeOK
  <2> QED
    BY <1>16, <2>2 DEF AppendDeferred, Goto, At, TypeOK, PumpState, MaturePcs
<1>17. CASE ProjectDeferred
  <2>1. Tail(pump.todo) \in Seq(Runs)
    BY <1>17 DEF ProjectDeferred, At, Grounds, TypeOK, PumpState
  <2> QED
    BY <1>17, <2>1 DEF ProjectDeferred, At, FactAfter, TypeOK, PumpState, MaturePcs
<1>18. ASSUME NEW m \in Managers, NEW i \in Instances, NEW g \in Rings, AskRing(m, i, g)
       PROVE  TypeOK'
  BY <1>18 DEF AskRing, TypeOK, RequestState
<1>19. ASSUME NEW m \in Managers, AppendRing(m) PROVE TypeOK'
  <2>1. journal' \in Seq(Events)
    BY <1>19, EventTypes DEF AppendRing, Record, TypeOK, RequestState
  <2> QED
    BY <1>19, <2>1 DEF AppendRing, TypeOK, RequestState
<1>20. ASSUME NEW m \in Managers, ReadForRing(m) PROVE TypeOK'
  BY <1>20 DEF ReadForRing, TypeOK, RequestState
<1>21. ASSUME NEW m \in Managers, WriteRing(m) PROVE TypeOK'
  <2>1. AddRing(request[m].copy, request[m].ring) \in Resumes
    BY ResumeTypes DEF TypeOK, RequestState
  <2>2. resume' \in [Instances -> Resumes] /\ overlaps' \in Nat
    <3>1. resume' = [resume EXCEPT ![request[m].instance] =
                       AddRing(request[m].copy, request[m].ring)]
          /\ overlaps' \in {overlaps, overlaps + 1}
      BY <1>21 DEF WriteRing
    <3>2. overlaps' \in Nat
      BY <3>1 DEF TypeOK
    <3> QED
      BY <2>1, <3>1, <3>2 DEF TypeOK
  <2>3. request' \in [Managers -> RequestState]
    BY <1>21, DoneType DEF WriteRing, TypeOK
  <2> QED
    BY <1>21, <2>2, <2>3 DEF WriteRing, TypeOK
<1>22. ASSUME NEW m \in Managers, RequestFault(m) PROVE TypeOK'
  <2>1. request' \in [Managers -> RequestState]
    BY <1>22, DoneType DEF RequestFault, TypeOK
  <2> QED
    BY <1>22, <2>1, WatchAssumption DEF RequestFault, TypeOK
<1>23. ASSUME NEW r \in Runs, Deadline(r) PROVE TypeOK'
  BY <1>23 DEF Deadline, TypeOK
<1>24. ASSUME NEW r \in Runs, Report(r) PROVE TypeOK'
  <2>1. journal' \in Seq(Events)
    BY <1>24, EventTypes DEF Report, Record, TypeOK, Outcomes
  <2> QED
    BY <1>24, <2>1 DEF Report, WatchAfter, TypeOK
<1>25. CASE Fault
  <2>1. pump' \in PumpState
    <3>1. <<>> \in Seq(Runs)
      OBVIOUS
    <3> QED
      BY <1>25, <3>1, NoResumeType DEF Fault, TypeOK, PumpState, ScanPcs
  <2> QED
    BY <1>25, <2>1, WatchAssumption DEF Fault, TypeOK
<1>26. CASE UNCHANGED vars
  BY <1>26 DEF vars, TypeOK
<1> QED
  BY <1>1, <1>2, <1>3, <1>4, <1>5, <1>6, <1>7, <1>8, <1>9, <1>10, <1>11, <1>12, <1>13, <1>14,
     <1>15, <1>16, <1>17, <1>18, <1>19, <1>20, <1>21, <1>22, <1>23, <1>24, <1>25, <1>26
     DEF Next, Pump, Settlement, Firing, Maturation, Request

-----------------------------------------------------------------------------
(* What the pump may rely on *)

LEMMA InitGrounds == Init => Grounds /\ MaturesOnce
<1> SUFFICES ASSUME Init PROVE Grounds /\ MaturesOnce
  OBVIOUS
<1>1. DOMAIN journal = {} /\ pump.pc = "work" /\ \A r \in Runs : watch[r] = "none"
  BY DEF Init
<1>2. \A kind, r : ~Has(kind, r)
  BY <1>1 DEF Has
<1> QED
  BY <1>1, <1>2 DEF Grounds, MaturesOnce, MaturePcs

LEMMA HeadAndTail ==
    ASSUME NEW s \in Seq(Runs), s # <<>>
    PROVE  /\ 1 \in DOMAIN s /\ Head(s) = s[1] /\ Head(s) \in Runs
           /\ \A n \in DOMAIN Tail(s) : n + 1 \in DOMAIN s /\ Tail(s)[n] = s[n + 1]
OBVIOUS

(* The steps that leave the journal alone. *)
LEMMA GroundsKept ==
    ASSUME TypeOK, Grounds, UNCHANGED journal, [Next]_vars PROVE Grounds'
<1>1. \A kind, r : Has(kind, r)' <=> Has(kind, r)
  BY HasUnchanged
<1> USE DEF env, rows
<1>2. ASSUME NEW r \in Runs, Work(r) PROVE Grounds'
  BY <1>1, <1>2 DEF Work, At, Grounds, TypeOK, PumpState, MaturePcs
<1>3. CASE NoWork \/ Scanned \/ Matured
  BY <1>1, <1>3 DEF NoWork, Scanned, Matured, Goto, At, Grounds, TypeOK, PumpState, MaturePcs
<1>4. CASE ProjectRows
  BY <1>1, <1>4 DEF ProjectRows, Goto, At, Grounds, TypeOK, PumpState, MaturePcs
<1>5. CASE ReadResume \/ ReadTrust
  BY ZenonT(60), <1>1, <1>5 DEF ReadResume, ReadTrust, At, Grounds, TypeOK, PumpState, MaturePcs
<1>6. CASE WriteResume \/ WriteTrust
  BY ZenonT(60), <1>1, <1>6 DEF WriteResume, WriteTrust, Leave, At, Grounds, TypeOK, PumpState, MaturePcs
<1>7. CASE ProjectWatch
  BY <1>1, <1>7 DEF ProjectWatch, Goto, At, WatchAfter, Grounds, TypeOK, PumpState, MaturePcs
<1>8. CASE Scan
  <2>1. PICK s \in SetToSeqs({r \in due : watch[r] = "pending"}) :
           pump' = [pump EXCEPT !.pc = "fire", !.todo = s]
    BY <1>8 DEF Scan
  <2>2. \A n \in DOMAIN s : Has("settled", s[n]) /\ Has("registered", s[n])
    BY ScanLists DEF Grounds
  <2> QED
    BY <1>1, <1>8, <2>1, <2>2 DEF Scan, At, Grounds, TypeOK, PumpState, MaturePcs
<1>9. CASE Fire
  <2>1. pump.todo # <<>> /\ pump.todo \in Seq(Runs)
    BY <1>9 DEF Fire, TypeOK, PumpState
  <2>2. pump' = [pump EXCEPT !.todo = Tail(pump.todo)]
    <3>1. Head(pump.todo) \in Runs
      BY <2>1
    <3>2. ~Record(Fired(Head(pump.todo), "no_signal"))
      BY <3>1, HasAppended, EventTypes DEF Outcomes
    <3> QED
      BY <1>9, <3>2 DEF Fire
  <2> QED
    BY <1>1, <1>9, <2>1, <2>2, HeadAndTail DEF Fire, At, Grounds, TypeOK, PumpState, MaturePcs
<1>10. CASE FlipWatch
  <2>1. \A r \in Runs : watch'[r] # "none" => watch[r] # "none"
    BY <1>10 DEF FlipWatch, WatchAfter, Fired, TypeOK
  <2> QED
    BY <1>1, <1>10, <2>1 DEF FlipWatch, Goto, At, Grounds, TypeOK, PumpState, MaturePcs
<1>11. CASE List
  <2>1. PICK s \in SetToSeqs(ListedFires) :
           pump' = [pump EXCEPT !.pc = "mature", !.todo = [n \in DOMAIN s |-> journal[s[n]].run]]
    BY <1>11 DEF List
  <2> DEFINE todo == [n \in DOMAIN s |-> journal[s[n]].run]
  <2>2. \A n \in DOMAIN todo : Has("fired", todo[n])
    BY ListLists
  <2>3. pump' = [pump EXCEPT !.pc = "mature", !.todo = todo]
    BY <2>1
  <2> HIDE DEF todo
  <2> QED
    BY <1>1, <1>11, <2>2, <2>3 DEF List, At, Grounds, TypeOK, PumpState, MaturePcs
<1>12. CASE Mature
  <2>1. pump.todo # <<>> /\ pump.todo \in Seq(Runs)
    BY <1>12 DEF Mature, TypeOK, PumpState
  <2>2. \/ pump' = [pump EXCEPT !.todo = Tail(pump.todo)]
        \/ pump' = [pump EXCEPT !.pc = "work", !.todo = <<>>, !.copy = NoResume]
        \/ /\ pump' = [pump EXCEPT !.pc = "grade", !.run = Head(pump.todo)]
           /\ ~Has("deferred", Head(pump.todo))
    BY <1>12 DEF Mature
  <2>3. Has("fired", Head(pump.todo))
    BY <1>12, <2>1, HeadAndTail DEF Mature, At, Grounds, MaturePcs
  <2>4. pump.pc = "mature" /\ pump \in PumpState /\ UNCHANGED <<watch, graded>>
    BY <1>12 DEF Mature, At, TypeOK
  <2>5. CASE pump' = [pump EXCEPT !.todo = Tail(pump.todo)]
    BY <1>1, <2>1, <2>4, <2>5, HeadAndTail DEF Grounds, PumpState, MaturePcs
  <2>6. CASE pump' = [pump EXCEPT !.pc = "work", !.todo = <<>>, !.copy = NoResume]
    BY <1>1, <2>4, <2>6 DEF Grounds, PumpState, MaturePcs
  <2>7. CASE /\ pump' = [pump EXCEPT !.pc = "grade", !.run = Head(pump.todo)]
             /\ ~Has("deferred", Head(pump.todo))
    BY <1>1, <2>1, <2>3, <2>4, <2>7 DEF Grounds, PumpState, MaturePcs
  <2> QED
    BY <2>2, <2>5, <2>6, <2>7
<1>13. CASE SaveEvalCase
  BY <1>1, <1>13 DEF SaveEvalCase, Goto, At, Grounds, TypeOK, PumpState, MaturePcs
<1>14. CASE ProjectDeferred
  <2>1. pump.todo # <<>> /\ pump.todo \in Seq(Runs)
    BY <1>14 DEF ProjectDeferred, At, Grounds, TypeOK, PumpState
  <2> QED
    BY <1>1, <1>14, <2>1, HeadAndTail DEF ProjectDeferred, At, Grounds, TypeOK, PumpState, MaturePcs
<1>15. CASE Fault
  BY ZenonT(60), <1>1, <1>15 DEF Fault, Grounds, TypeOK, PumpState, MaturePcs
<1>16. CASE UNCHANGED <<pump, watch, graded>>
  BY <1>1, <1>16 DEF Grounds, MaturePcs
<1>17. CASE AppendSettled \/ AppendRegistered \/ AppendDeferred
  <2>1. \A e \in Events : ~Record(e)
    BY HasAppended
  <2> QED
    BY <1>17, <2>1, EventTypes, OutcomeType
       DEF AppendSettled, AppendRegistered, AppendDeferred, At, Grounds, TypeOK, PumpState
<1>18. ASSUME NEW r \in Runs, Report(r) PROVE Grounds'
  <2>1. \A e \in Events : ~Record(e)
    BY HasAppended
  <2> QED
    BY <1>18, <2>1, EventTypes DEF Report, Outcomes
<1>19. ASSUME NEW m \in Managers, Request(m) PROVE UNCHANGED <<pump, watch, graded>>
  BY <1>19 DEF Request, AskRing, AppendRing, ReadForRing, WriteRing, RequestFault
<1>20. ASSUME NEW r \in Runs, Deadline(r) PROVE UNCHANGED <<pump, watch, graded>>
  BY <1>20 DEF Deadline
<1>21. CASE UNCHANGED vars
  BY <1>16, <1>21 DEF vars
<1> QED
  BY <1>2, <1>3, <1>4, <1>5, <1>6, <1>7, <1>8, <1>9, <1>10, <1>11, <1>12, <1>13, <1>14,
     <1>15, <1>16, <1>17, <1>18, <1>19, <1>20, <1>21
     DEF Next, Pump, Settlement, Firing, Maturation

(* The steps that append an event. *)
LEMMA GroundsGrow ==
    ASSUME TypeOK, Grounds, NEW e \in Events, Record(e), [Next]_vars
    PROVE  Grounds' /\ (e.kind \in {"fired", "deferred"} => \/ Fire \/ AppendDeferred
                                                           \/ \E r \in Runs : Report(r))
<1>1. \A kind, r : Has(kind, r)' <=> Has(kind, r) \/ (e.kind = kind /\ e.run = r)
  BY HasAppended
<1>2. journal' # journal
  BY HasAppended
<1>3. \A d : Record(d) => d = e
  <2> SUFFICES ASSUME NEW d, Record(d) PROVE d = e
    OBVIOUS
  <2>1. Append(journal, d) = Append(journal, e)
    BY DEF Record
  <2> QED
    BY <2>1 DEF TypeOK
<1> USE DEF env, rows
<1>4. CASE AppendSettled
  <2>1. e = Settled(pump.run) /\ e.kind = "settled" /\ e.run = pump.run
    BY <1>3, <1>4, EventShapes DEF AppendSettled, TypeOK, PumpState
  <2> QED
    BY <1>1, <1>4, <2>1 DEF AppendSettled, Goto, At, Grounds, TypeOK, PumpState, MaturePcs
<1>5. CASE AppendRegistered
  <2>1. e = Registered(pump.run) /\ e.kind = "registered" /\ e.run = pump.run
    BY <1>3, <1>5, EventShapes DEF AppendRegistered, TypeOK, PumpState
  <2> QED
    BY <1>1, <1>5, <2>1 DEF AppendRegistered, Goto, At, Grounds, TypeOK, PumpState, MaturePcs
<1>6. CASE Fire
  <2> DEFINE r == Head(pump.todo)
  <2>1. pump.todo # <<>> /\ pump.todo \in Seq(Runs) /\ pump.pc = "fire"
    BY <1>6 DEF Fire, At, TypeOK, PumpState
  <2>2. /\ Record(Fired(r, "no_signal"))
        /\ pump' = [pump EXCEPT !.pc = "flip", !.run = r, !.todo = Tail(pump.todo)]
    BY <1>2, <1>6 DEF Fire
  <2>3. e.kind = "fired" /\ e.run = r
    BY <1>3, <2>1, <2>2, EventShapes DEF Outcomes
  <2>4. Has("registered", r)
    BY <2>1, HeadAndTail DEF Grounds
  <2> QED
    BY <1>1, <1>6, <2>1, <2>2, <2>3, <2>4, HeadAndTail
       DEF Fire, Grounds, TypeOK, PumpState, MaturePcs
<1>7. CASE AppendDeferred
  <2>1. e = Deferred(pump.run, OutcomeOf(pump.run)) /\ pump.run \in Runs
    BY <1>3, <1>7 DEF AppendDeferred, TypeOK, PumpState
  <2>2. OutcomeOf(pump.run) \in Outcomes
    BY <1>7, OutcomeType DEF AppendDeferred, At, Grounds
  <2>3. e.kind = "deferred" /\ e.run = pump.run
    BY <2>1, <2>2, EventShapes
  <2> QED
    BY <1>1, <1>7, <2>3 DEF AppendDeferred, Goto, At, Grounds, TypeOK, PumpState, MaturePcs
<1>8. ASSUME NEW r \in Runs, Report(r)
      PROVE  Grounds' /\ e.kind = "fired"
  <2>1. e.kind = "fired" /\ e.run = r
    BY <1>3, <1>8, EventShapes DEF Report, Outcomes
  <2>2. watch[r] = "pending" /\ \A x \in Runs : watch'[x] # "none" => watch[x] # "none"
    BY <1>8 DEF Report, WatchAfter, Fired, TypeOK
  <2> QED
    BY <1>1, <1>8, <2>1, <2>2 DEF Report, Grounds, MaturePcs
<1>9. ASSUME NEW m \in Managers, AppendRing(m)
      PROVE  Grounds' /\ e.kind = "set_ring"
  <2>1. e = SetRing(request[m].instance, request[m].ring) /\ e.kind = "set_ring"
    BY <1>3, <1>9 DEF AppendRing, SetRing
  <2> QED
    BY <1>1, <1>9, <2>1 DEF AppendRing, Grounds, MaturePcs
<1>10. ASSUME NEW m \in Managers, Request(m) PROVE AppendRing(m)
  BY <1>2, <1>10 DEF Request, AskRing, ReadForRing, WriteRing, RequestFault
<1>11. ~ (\E r \in Runs : Work(r)) /\ ~NoWork /\ (Maturation => AppendDeferred)
  BY <1>2 DEF Work, NoWork, Maturation, List, Mature, Matured, SaveEvalCase, ReadTrust,
              WriteTrust, ProjectDeferred
<1>12. Settlement => AppendSettled \/ AppendRegistered
  BY <1>2 DEF Settlement, ProjectRows, ReadResume, WriteResume, ProjectWatch
<1>13. Firing => Fire
  BY <1>2 DEF Firing, Scan, FlipWatch, Scanned
<1>14. ~Fault /\ ~ (\E r \in Runs : Deadline(r)) /\ ~UNCHANGED vars
  BY <1>2 DEF Fault, Deadline, vars
<1>15. AppendSettled \/ AppendRegistered => e.kind \in {"settled", "registered"}
  BY <1>3, EventShapes DEF AppendSettled, AppendRegistered, TypeOK, PumpState
<1> QED
  BY <1>4, <1>5, <1>6, <1>7, <1>8, <1>9, <1>10, <1>11, <1>12, <1>13, <1>14, <1>15 DEF Next, Pump

-----------------------------------------------------------------------------
(* A watch fires and matures once *)

(* What fires has settled and has not fired, what is deferred has fired, was
   graded and has not been deferred. *)
LEMMA WhatMatures ==
    ASSUME TypeOK, Grounds, NEW e \in Events, Record(e), [Next]_vars
    PROVE  /\ e.kind = "fired" => ~Has("fired", e.run) /\ Has("settled", e.run)
           /\ e.kind = "deferred" => /\ ~Has("deferred", e.run) /\ Has("fired", e.run)
                                     /\ e.run \in graded
<1>1. \A d : Record(d) => d = e
  <2> SUFFICES ASSUME NEW d, Record(d) PROVE d = e
    OBVIOUS
  <2>1. Append(journal, d) = Append(journal, e)
    BY DEF Record
  <2> QED
    BY <2>1 DEF TypeOK
<1>2. journal' # journal
  BY HasAppended
<1>3. CASE Fire
  <2> DEFINE r == Head(pump.todo)
  <2>1. pump.todo # <<>> /\ pump.todo \in Seq(Runs) /\ pump.pc = "fire"
    BY <1>3 DEF Fire, At, TypeOK, PumpState
  <2>2. ~Has("fired", r) /\ Record(Fired(r, "no_signal"))
    BY <1>2, <1>3 DEF Fire
  <2>3. e.kind = "fired" /\ e.run = r
    BY <1>1, <2>1, <2>2, EventShapes DEF Outcomes
  <2>4. Has("settled", r)
    BY <2>1, HeadAndTail DEF Grounds
  <2> QED
    BY <2>2, <2>3, <2>4
<1>4. CASE AppendDeferred
  <2>1. e = Deferred(pump.run, OutcomeOf(pump.run)) /\ pump.run \in Runs
    BY <1>1, <1>4 DEF AppendDeferred, TypeOK, PumpState
  <2>2. Has("fired", pump.run) /\ ~Has("deferred", pump.run) /\ pump.run \in graded
    BY <1>4 DEF AppendDeferred, At, Grounds
  <2>3. e.kind = "deferred" /\ e.run = pump.run
    BY <2>1, <2>2, OutcomeType, EventShapes
  <2> QED
    BY <2>2, <2>3
<1>5. ASSUME NEW r \in Runs, Report(r)
      PROVE  e.kind = "fired" /\ ~Has("fired", e.run) /\ Has("settled", e.run)
  <2>1. e.kind = "fired" /\ e.run = r
    BY SMTT(60), <1>1, <1>5, EventShapes DEF Report, Outcomes
  <2> QED
    BY <1>5, <2>1 DEF Report, Grounds
<1> QED
  BY <1>3, <1>4, <1>5, GroundsGrow

LEMMA GradedGrows == [Next]_vars => graded \subseteq graded'
BY DEF Next, Pump, Settlement, Firing, Maturation, Request, Work, NoWork, AppendSettled, ProjectRows,
       ReadResume, WriteResume, AppendRegistered, ProjectWatch, Scan, Fire, FlipWatch, Scanned,
       List, Mature, Matured, SaveEvalCase, ReadTrust, WriteTrust, AppendDeferred,
       ProjectDeferred, AskRing, AppendRing, ReadForRing, WriteRing, RequestFault, Deadline,
       Report, Fault, vars, rows

(* The journal is left alone or has one more event. *)
LEMMA JournalStep ==
    ASSUME TypeOK, Grounds, [Next]_vars
    PROVE  UNCHANGED journal \/ \E e \in Events : Record(e)
<1>1. CASE AppendSettled \/ AppendRegistered \/ AppendDeferred
  BY <1>1, EventTypes, OutcomeType
     DEF AppendSettled, AppendRegistered, AppendDeferred, At, Grounds, TypeOK, PumpState
<1>2. CASE Fire
  <2>1. Head(pump.todo) \in Runs
    BY <1>2 DEF Fire, TypeOK, PumpState
  <2> QED
    BY <1>2, <2>1, EventTypes DEF Fire, Outcomes
<1>3. ASSUME NEW r \in Runs, Report(r) PROVE \E e \in Events : Record(e)
  BY <1>3, EventTypes DEF Report, Outcomes
<1>4. ASSUME NEW m \in Managers, AppendRing(m) PROVE \E e \in Events : Record(e)
  BY <1>4, EventTypes DEF AppendRing, TypeOK, RequestState
<1>5. ASSUME NEW m \in Managers, Request(m) PROVE UNCHANGED journal \/ AppendRing(m)
  BY <1>5 DEF Request, AskRing, ReadForRing, WriteRing, RequestFault
<1>6. (\E r \in Runs : Work(r)) \/ NoWork \/ Maturation => UNCHANGED journal \/ AppendDeferred
  BY DEF Work, NoWork, Maturation, List, Mature, Matured, SaveEvalCase, ReadTrust,
         WriteTrust, ProjectDeferred
<1>7. Settlement => UNCHANGED journal \/ AppendSettled \/ AppendRegistered
  BY DEF Settlement, ProjectRows, ReadResume, WriteResume, ProjectWatch
<1>8. Firing => UNCHANGED journal \/ Fire
  BY DEF Firing, Scan, FlipWatch, Scanned
<1>9. Fault \/ (\E r \in Runs : Deadline(r)) \/ UNCHANGED vars => UNCHANGED journal
  BY DEF Fault, Deadline, vars
<1> QED
  BY <1>1, <1>2, <1>3, <1>4, <1>5, <1>6, <1>7, <1>8, <1>9 DEF Next, Pump

LEMMA MaturesOnceStep == TypeOK /\ Grounds /\ MaturesOnce /\ [Next]_vars => MaturesOnce'
<1> SUFFICES ASSUME TypeOK, Grounds, MaturesOnce, [Next]_vars PROVE MaturesOnce'
  OBVIOUS
<1>1. graded \subseteq graded'
  BY GradedGrows
<1>2. CASE UNCHANGED journal
  BY <1>1, <1>2 DEF MaturesOnce
<1>3. ASSUME NEW e \in Events, Record(e) PROVE MaturesOnce'
  <2> DEFINE N == Len(journal) + 1
  <2>1. /\ \A n \in DOMAIN journal : journal'[n] = journal[n]
        /\ journal'[N] = e /\ DOMAIN journal' = 1 .. N /\ Len(journal) \in Nat
        /\ DOMAIN journal = 1 .. Len(journal)
    BY <1>3, HasAppended
  <2> HIDE DEF N
  <2>2. N \in Nat /\ DOMAIN journal = 1 .. N - 1
    BY <2>1 DEF N
  <2>3. /\ e.kind = "fired" => ~Has("fired", e.run) /\ Has("settled", e.run)
        /\ e.kind = "deferred" => /\ ~Has("deferred", e.run) /\ Has("fired", e.run)
                                  /\ e.run \in graded
    BY <1>3, WhatMatures
  <2>4. ASSUME NEW n \in DOMAIN journal', journal'[n].kind \in {"fired", "deferred"},
               NEW k \in DOMAIN journal', journal'[k].kind = journal'[n].kind,
               journal'[k].run = journal'[n].run
        PROVE  k = n
    <3>1. CASE n # N /\ k # N
      BY <2>1, <2>2, <2>4, <3>1 DEF MaturesOnce
    <3>2. CASE n = N /\ k # N
      BY <2>1, <2>2, <2>3, <2>4, <3>2 DEF Has
    <3>3. CASE n # N /\ k = N
      BY <2>1, <2>2, <2>3, <2>4, <3>3 DEF Has
    <3> QED
      BY <3>1, <3>2, <3>3
  <2>5. ASSUME NEW n \in DOMAIN journal', journal'[n].kind \in {"fired", "deferred"}
        PROVE  \E k \in 1 .. n - 1 :
                  /\ journal'[k].kind = IF journal'[n].kind = "fired" THEN "settled" ELSE "fired"
                  /\ journal'[k].run = journal'[n].run
    <3>1. CASE n # N
      <4>1. n \in DOMAIN journal /\ \A k \in 1 .. n - 1 : k \in DOMAIN journal
        BY <2>1, <2>2, <3>1
      <4>2. PICK k \in 1 .. n - 1 :
                  /\ journal[k].kind = IF journal[n].kind = "fired" THEN "settled" ELSE "fired"
                  /\ journal[k].run = journal[n].run
        BY <2>1, <2>5, <4>1 DEF MaturesOnce
      <4> QED
        BY <2>1, <4>1, <4>2
    <3>2. CASE n = N
      BY <2>1, <2>2, <2>3, <2>5, <3>2 DEF Has
    <3> QED
      BY <3>1, <3>2
  <2>6. ASSUME NEW n \in DOMAIN journal', journal'[n].kind = "deferred"
        PROVE  journal'[n].run \in graded'
    <3>1. CASE n # N
      <4>1. n \in DOMAIN journal /\ journal[n].kind = "deferred"
        BY <2>1, <2>2, <2>6, <3>1
      <4> QED
        BY <1>1, <2>1, <4>1 DEF MaturesOnce
    <3>2. CASE n = N
      BY <1>1, <2>1, <2>3, <2>6, <3>2
    <3> QED
      BY <3>1, <3>2
  <2> QED
    BY <2>4, <2>5, <2>6 DEF MaturesOnce
<1> QED
  BY <1>2, <1>3, JournalStep

(* What a watch fired with does not change: it fired once. *)
LEMMA OutcomeKept ==
    ASSUME TypeOK, Grounds, MaturesOnce, [Next]_vars, NEW r, Has("fired", r)
    PROVE  OutcomeOf(r)' = OutcomeOf(r)
<1>1. CASE UNCHANGED journal
  BY <1>1 DEF OutcomeOf
<1>2. ASSUME NEW e \in Events, Record(e) PROVE OutcomeOf(r)' = OutcomeOf(r)
  <2>1. \A n \in DOMAIN journal : n \in DOMAIN journal' /\ journal'[n] = journal[n]
    BY <1>2, HasAppended
  <2>2. PICK n \in DOMAIN journal : journal[n].kind = "fired" /\ journal[n].run = r
    BY DEF Has
  <2>3. \A k \in DOMAIN journal : journal[k].kind = "fired" /\ journal[k].run = r => k = n
    BY <2>2 DEF MaturesOnce
  <2>4. \A k \in DOMAIN journal' : journal'[k].kind = "fired" /\ journal'[k].run = r => k = n
    BY <2>1, <2>2, MaturesOnceStep DEF MaturesOnce
  <2>5. (CHOOSE k \in DOMAIN journal : journal[k].kind = "fired" /\ journal[k].run = r) = n
    BY <2>2, <2>3
  <2>6. (CHOOSE k \in DOMAIN journal' : journal'[k].kind = "fired" /\ journal'[k].run = r) = n
    BY <2>1, <2>2, <2>4
  <2> QED
    BY <2>1, <2>5, <2>6 DEF OutcomeOf
<1> QED
  BY <1>1, <1>2, JournalStep

-----------------------------------------------------------------------------
(* The rows are the fold *)

LEMMA InitRebuild == Init => RebuildForgets
<1> SUFFICES ASSUME Init PROVE RebuildForgets
  OBVIOUS
<1>1. journal = <<>> /\ \A kind, r : ~Has(kind, r)
  BY DEF Init, Has
<1>2. \A r, old : Rebuilt(r, old, journal) = old
  BY <1>1, RebuiltEmpty
<1> QED
  BY <1>1, <1>2 DEF RebuildForgets, Rows

LEMMA RebuildStep ==
    TypeOK /\ Grounds /\ MaturesOnce /\ RebuildForgets /\ [Next]_vars => RebuildForgets'
<1> SUFFICES ASSUME TypeOK, Grounds, MaturesOnce, RebuildForgets, [Next]_vars
             PROVE  RebuildForgets'
  OBVIOUS
<1>1. CASE UNCHANGED journal
  <2>1. \A kind, r : Has(kind, r)' <=> Has(kind, r)
    BY <1>1, HasUnchanged
  <2> QED
    BY <1>1, <2>1 DEF RebuildForgets
<1>2. ASSUME NEW e \in Events, Record(e) PROVE RebuildForgets'
  <2>1. \A kind, r : Has(kind, r)' <=> Has(kind, r) \/ (e.kind = kind /\ e.run = r)
    BY <1>2, HasAppended
  <2>2. journal' = Append(journal, e) /\ journal \in Seq(Events)
    BY <1>2 DEF Record, TypeOK
  <2>3. \A r, old : Rebuilt(r, old, journal') = ApplyTo(r, Rebuilt(r, old, journal), e)
    BY <2>2, RebuiltAppend
  <2>4. e.kind = "deferred" => Has("settled", e.run)
    <3>1. Has("fired", e.run) => Has("settled", e.run)
      BY DEF Has, MaturesOnce, TypeOK
    <3> QED
      BY <1>2, <3>1, WhatMatures
  <2>5. e.kind = "fired" /\ e.run \in Runs => Has("registered", e.run)
    BY <1>2, <2>1, GroundsGrow DEF Grounds
  <2>6. e.kind \in {"settled", "registered", "fired", "deferred", "set_ring"}
    BY DEF Events, Settled, Registered, Fired, Deferred, SetRing
  <2> SUFFICES ASSUME NEW r \in Runs, NEW old \in Rows
               PROVE  Rebuilt(r, old, journal') =
                 [fact |-> IF Has("settled", r)' THEN Rebuilt(r, NoRow, journal').fact ELSE old.fact,
                  watch |-> IF Has("registered", r)' THEN Rebuilt(r, NoRow, journal').watch
                            ELSE old.watch]
    BY DEF RebuildForgets
  <2> DEFINE R(o) == Rebuilt(r, o, journal)
  <2>7. /\ R(old) = [fact |-> IF Has("settled", r) THEN R(NoRow).fact ELSE old.fact,
                     watch |-> IF Has("registered", r) THEN R(NoRow).watch ELSE old.watch]
        /\ R(NoRow) = [fact |-> R(NoRow).fact, watch |-> R(NoRow).watch]
    <3>1. NoRow \in Rows
      BY DEF NoRow, Rows
    <3> QED
      BY <3>1 DEF RebuildForgets
  <2>8. Rebuilt(r, old, journal') = ApplyTo(r, R(old), e)
        /\ Rebuilt(r, NoRow, journal') = ApplyTo(r, R(NoRow), e)
    BY <2>3
  <2> HIDE DEF R
  <2>9. CASE e.kind = "set_ring" \/ e.run # r
    BY <2>1, <2>7, <2>8, <2>9 DEF ApplyTo
  <2>10. CASE e.kind # "set_ring" /\ e.run = r
    <3>1. \A o : ApplyTo(r, R(o), e) = [fact |-> FactAfter(R(o).fact, e),
                                        watch |-> WatchAfter(R(o).watch, e)]
      BY <2>10 DEF ApplyTo
    <3>2. CASE e.kind = "settled"
      BY <2>1, <2>7, <2>8, <2>10, <3>1, <3>2 DEF FactAfter, WatchAfter
    <3>3. CASE e.kind = "registered"
      BY <2>1, <2>7, <2>8, <2>10, <3>1, <3>3 DEF FactAfter, WatchAfter
    <3>4. CASE e.kind = "fired"
      BY <2>1, <2>5, <2>7, <2>8, <2>10, <3>1, <3>4 DEF FactAfter, WatchAfter
    <3>5. CASE e.kind = "deferred"
      BY <2>1, <2>4, <2>7, <2>8, <2>10, <3>1, <3>5 DEF FactAfter, WatchAfter
    <3> QED
      BY <2>6, <2>10, <3>2, <3>3, <3>4, <3>5
  <2> QED
    BY <2>9, <2>10
<1> QED
  BY <1>1, <1>2, JournalStep

LEMMA ApplyOwn ==
    ASSUME NEW r \in Runs, NEW f, NEW w
    PROVE  /\ ApplyTo(r, [fact |-> f, watch |-> w], Settled(r)) =
                 [fact |-> FactAfter(f, Settled(r)), watch |-> w]
           /\ ApplyTo(r, [fact |-> f, watch |-> w], Registered(r)) =
                 [fact |-> f, watch |-> WatchAfter(w, Registered(r))]
BY DEF ApplyTo, FactAfter, WatchAfter, Settled, Registered

LEMMA ApplyFired ==
    \A r \in Runs : \A f, w, o :
       ApplyTo(r, [fact |-> f, watch |-> w], Fired(r, o)) =
          [fact |-> f, watch |-> WatchAfter(w, Fired(r, o))]
BY DEF ApplyTo, FactAfter, WatchAfter, Fired

LEMMA ApplyDeferred ==
    \A r \in Runs : \A f, w, o :
       ApplyTo(r, [fact |-> f, watch |-> w], Deferred(r, o)) =
          [fact |-> FactAfter(f, Deferred(r, o)), watch |-> w]
BY DEF ApplyTo, FactAfter, WatchAfter, Deferred

LEMMA ApplyOther ==
    ASSUME NEW r \in Runs, NEW row
    PROVE  /\ \A q \in Runs \ {r} : /\ ApplyTo(r, row, Settled(q)) = row
                                    /\ ApplyTo(r, row, Registered(q)) = row
                                    /\ \A o \in Outcomes : /\ ApplyTo(r, row, Fired(q, o)) = row
                                                           /\ ApplyTo(r, row, Deferred(q, o)) = row
           /\ \A i \in Instances, g \in Rings : ApplyTo(r, row, SetRing(i, g)) = row
BY SMTT(60), EventShapes DEF ApplyTo

LEMMA FaultsGrow == [Next]_vars => faults' = faults \/ faults' = faults + 1
BY DEF Next, Pump, Settlement, Firing, Maturation, Request, Work, NoWork, AppendSettled,
       ProjectRows, ReadResume, WriteResume, AppendRegistered, ProjectWatch, Scan, Fire,
       FlipWatch, Scanned, List, Mature, Matured, SaveEvalCase, ReadTrust, WriteTrust,
       AppendDeferred, ProjectDeferred, AskRing, AppendRing, ReadForRing, WriteRing,
       RequestFault, Deadline, Report, Fault, vars, env

LEMMA QueueStep == TypeOK /\ QueueIsTrue /\ [Next]_vars => QueueIsTrue'
<1> SUFFICES ASSUME TypeOK, QueueIsTrue, [Next]_vars, faults' = 0 PROVE QueueIsTrue'
  BY DEF QueueIsTrue
<1> USE DEF env, rows
<1>1. faults = 0 /\ ~Fault /\ \A m \in Managers : ~RequestFault(m)
  <2>1. faults' = faults \/ faults' = faults + 1
    BY FaultsGrow
  <2> QED
    BY <2>1, WatchAssumption DEF TypeOK, Fault, RequestFault
<1>2. /\ \A r \in Runs : watch[r] # "none" => r \notin queued
      /\ pump.pc \in SettlePcs => pump.run \in queued
  BY <1>1 DEF QueueIsTrue
<1>3. ASSUME NEW r \in Runs, Work(r) PROVE QueueIsTrue'
  BY <1>2, <1>3 DEF Work, QueueIsTrue, TypeOK, PumpState, SettlePcs
<1>4. CASE NoWork \/ Scanned \/ Matured
  BY <1>2, <1>4 DEF NoWork, Scanned, Matured, Goto, QueueIsTrue, TypeOK, PumpState, SettlePcs
<1>5. CASE AppendSettled \/ ProjectRows \/ AppendRegistered
  BY <1>2, <1>5 DEF AppendSettled, ProjectRows, AppendRegistered, Goto, At, QueueIsTrue, TypeOK,
                    PumpState, SettlePcs
<1>6. CASE ReadResume \/ ReadTrust
  <2>1. /\ pump'.run = pump.run /\ UNCHANGED <<watch, queued>>
        /\ pump'.pc \in SettlePcs => pump.pc \in SettlePcs
    BY <1>6 DEF ReadResume, ReadTrust, At, TypeOK, PumpState, SettlePcs
  <2> QED
    BY <1>2, <2>1 DEF QueueIsTrue
<1>7. CASE WriteResume
  BY <1>2, <1>7 DEF WriteResume, Leave, At, QueueIsTrue, TypeOK, PumpState, SettlePcs
<1>8. CASE ProjectWatch
  BY <1>2, <1>8 DEF ProjectWatch, Goto, At, QueueIsTrue, TypeOK, PumpState, SettlePcs
<1>9. CASE Scan \/ Fire \/ List \/ Mature
  <2>1. pump'.pc \notin SettlePcs
    BY <1>9 DEF Scan, Fire, List, Mature, At, TypeOK, PumpState, SettlePcs
  <2> QED
    BY <1>2, <1>9, <2>1 DEF Scan, Fire, List, Mature, QueueIsTrue
<1>10. CASE FlipWatch
  <2>1. \A r \in Runs : watch'[r] # "none" => watch[r] # "none"
    BY <1>10 DEF FlipWatch, WatchAfter, Fired, TypeOK
  <2> QED
    BY <1>2, <1>10, <2>1 DEF FlipWatch, Goto, At, QueueIsTrue, TypeOK, PumpState, SettlePcs
<1>11. CASE SaveEvalCase \/ WriteTrust \/ AppendDeferred \/ ProjectDeferred
  <2>1. pump'.pc \notin SettlePcs
    BY <1>11 DEF SaveEvalCase, WriteTrust, AppendDeferred, ProjectDeferred, Goto, Leave, At,
                 TypeOK, PumpState, SettlePcs
  <2> QED
    BY <1>2, <1>11, <2>1 DEF SaveEvalCase, WriteTrust, AppendDeferred, ProjectDeferred, QueueIsTrue
<1>12. ASSUME NEW m \in Managers, Request(m) PROVE QueueIsTrue'
  <2>1. UNCHANGED <<pump, watch, queued>>
    BY <1>1, <1>12 DEF Request, AskRing, AppendRing, ReadForRing, WriteRing
  <2> QED
    BY <1>2, <2>1 DEF QueueIsTrue
<1>13. ASSUME NEW r \in Runs, Deadline(r) PROVE QueueIsTrue'
  BY <1>2, <1>13 DEF Deadline, QueueIsTrue
<1>14. ASSUME NEW r \in Runs, Report(r) PROVE QueueIsTrue'
  <2>1. \A x \in Runs : watch'[x] # "none" => watch[x] # "none"
    BY <1>14 DEF Report, WatchAfter, Fired, TypeOK
  <2> QED
    BY <1>2, <1>14, <2>1 DEF Report, QueueIsTrue
<1>15. CASE UNCHANGED vars
  BY <1>2, <1>15 DEF vars, QueueIsTrue
<1> QED
  BY <1>1, <1>3, <1>4, <1>5, <1>6, <1>7, <1>8, <1>9, <1>10, <1>11, <1>12, <1>13, <1>14, <1>15
     DEF Next, Pump, Settlement, Firing, Maturation

(* Where an event of the pump is journaled and waits to be projected. *)
Waiting == {"rows", "watch", "flip", "promote"}

LEMMA RowsStep ==
    TypeOK /\ Grounds /\ MaturesOnce /\ QueueIsTrue /\ RowsKeepUp /\ [Next]_vars => RowsKeepUp'
<1> SUFFICES ASSUME TypeOK, Grounds, MaturesOnce, QueueIsTrue, RowsKeepUp, [Next]_vars,
                    faults' = 0, NEW r \in Watched
             PROVE  Rebuilt(r, NoRow, journal') = RowAhead(r)'
  BY DEF RowsKeepUp
<1> USE DEF env, rows
<1>1. faults = 0 /\ ~Fault /\ \A m \in Managers : ~RequestFault(m)
  <2>1. faults' = faults \/ faults' = faults + 1
    BY FaultsGrow
  <2> QED
    BY <2>1, WatchAssumption DEF TypeOK, Fault, RequestFault
<1>2. Rebuilt(r, NoRow, journal) = RowAhead(r) /\ r \in Runs
  BY <1>1, WatchAssumption DEF RowsKeepUp
<1>3. /\ \A x \in Runs : watch[x] # "none" => x \notin queued
      /\ pump.pc \in SettlePcs => pump.run \in queued
  BY <1>1 DEF QueueIsTrue
<1>4. \A q : Has("fired", q) => OutcomeOf(q)' = OutcomeOf(q)
  BY OutcomeKept
<1>5. ASSUME NEW e \in Events, Record(e)
      PROVE  Rebuilt(r, NoRow, journal') = ApplyTo(r, RowAhead(r), e)
  <2>1. journal' = Append(journal, e) /\ journal \in Seq(Events)
    BY <1>5 DEF Record, TypeOK
  <2> QED
    BY <1>2, <2>1, RebuiltAppend
<1>6. pump.pc \notin Waiting \/ pump.run # r => RowAhead(r) = RowOf(r)
  BY DEF RowAhead, Waiting
<1>7. pump'.pc \notin Waiting \/ pump'.run # r => RowAhead(r)' = RowOf(r)'
  BY DEF RowAhead, Waiting
<1>8. CASE /\ UNCHANGED <<journal, fact, watch>>
           /\ pump.pc \notin Waiting /\ pump'.pc \notin Waiting
  BY <1>2, <1>6, <1>7, <1>8 DEF RowOf
<1>9. CASE UNCHANGED <<journal, fact, watch, pump>>
  BY <1>2, <1>9 DEF RowAhead, RowOf, OutcomeOf
<1>10. CASE AppendSettled \/ AppendRegistered
  <2>1. pump.pc \notin Waiting /\ pump.run \in Runs /\ UNCHANGED <<fact, watch>>
    BY <1>10 DEF AppendSettled, AppendRegistered, At, TypeOK, PumpState, Waiting
  <2>2. CASE pump.run # r
    <3>1. pump'.run # r
      BY <1>10, <2>2 DEF AppendSettled, AppendRegistered, Goto, TypeOK, PumpState
    <3>2. Rebuilt(r, NoRow, journal') = RowOf(r)
      BY <1>2, <1>5, <1>6, <1>10, <2>1, <2>2, ApplyOther, EventTypes
         DEF AppendSettled, AppendRegistered
    <3> QED
      BY <1>7, <2>1, <3>1, <3>2 DEF RowOf
  <2>3. CASE pump.run = r /\ AppendSettled
    <3>1. pump'.pc = "rows" /\ pump'.run = r
      BY <2>3 DEF AppendSettled, Goto, TypeOK, PumpState
    <3>2. Rebuilt(r, NoRow, journal') = ApplyTo(r, RowOf(r), Settled(r))
      BY <1>2, <1>5, <1>6, <2>1, <2>3, EventTypes DEF AppendSettled
    <3> QED
      BY <2>1, <3>1, <3>2 DEF RowAhead, RowOf
  <2>4. CASE pump.run = r /\ AppendRegistered
    <3>1. pump'.pc = "watch" /\ pump'.run = r
      BY <2>4 DEF AppendRegistered, Goto, TypeOK, PumpState
    <3>2. Rebuilt(r, NoRow, journal') = ApplyTo(r, RowOf(r), Registered(r))
      BY <1>2, <1>5, <1>6, <2>1, <2>4, EventTypes DEF AppendRegistered
    <3> QED
      BY <2>1, <3>1, <3>2 DEF RowAhead, RowOf
  <2> QED
    BY <1>10, <2>2, <2>3, <2>4
<1>11. CASE Fire
  <2> DEFINE q == Head(pump.todo)
  <2>1. pump.pc \notin Waiting /\ q \in Runs /\ UNCHANGED <<fact, watch>> /\ "no_signal" \in Outcomes
    BY <1>11 DEF Fire, At, TypeOK, PumpState, Waiting, Outcomes
  <2> HIDE DEF q
  <2>2. CASE UNCHANGED journal
    <3>1. pump'.pc \notin Waiting
      <4>1. ~Record(Fired(q, "no_signal"))
        BY <2>1, <2>2, HasAppended, EventTypes
      <4> QED
        BY <1>11, <4>1 DEF Fire, At, TypeOK, PumpState, Waiting, q
    <3> QED
      BY <1>8, <2>1, <2>2, <3>1
  <2>3. CASE Record(Fired(q, "no_signal")) /\ pump'.pc = "flip" /\ pump'.run = q
    <3>1. Rebuilt(r, NoRow, journal') = ApplyTo(r, RowOf(r), Fired(q, "no_signal"))
      BY <1>5, <1>6, <2>1, <2>3, EventTypes
    <3>2. CASE q # r
      BY SMTT(60), <1>2, <1>7, <2>1, <2>3, <3>1, <3>2, ApplyOther DEF RowOf
    <3>3. CASE q = r
      BY <2>1, <2>3, <3>1, <3>3 DEF RowAhead, RowOf
    <3> QED
      BY <3>2, <3>3
  <2> QED
    BY <1>11, <2>2, <2>3 DEF Fire, q, TypeOK, PumpState
<1>12. CASE AppendDeferred
  <2> DEFINE o == OutcomeOf(pump.run)
  <2>1. /\ pump.pc = "defer" /\ pump.run \in Runs /\ UNCHANGED <<fact, watch>>
        /\ pump'.pc = "promote" /\ pump'.run = pump.run /\ Record(Deferred(pump.run, o))
    BY <1>12 DEF AppendDeferred, At, Goto, TypeOK, PumpState
  <2>2. o \in Outcomes
    BY <2>1, OutcomeType DEF Grounds
  <2> HIDE DEF o
  <2>3. Rebuilt(r, NoRow, journal') = ApplyTo(r, RowOf(r), Deferred(pump.run, o))
    BY <1>5, <1>6, <2>1, <2>2, EventTypes DEF Waiting
  <2>4. CASE pump.run # r
    BY <1>2, <1>7, <2>1, <2>2, <2>3, <2>4, ApplyOther DEF RowOf
  <2>5. CASE pump.run = r
    <3>1. RowAhead(r)' = ApplyTo(r, RowOf(r)', Deferred(r, OutcomeOf(r)'))
      BY <2>1, <2>5 DEF RowAhead
    <3>2. OutcomeOf(r)' = o
      BY <1>4, <2>1, <2>5 DEF Grounds, o
    <3> QED
      BY <2>1, <2>3, <2>5, <3>1, <3>2 DEF RowOf
  <2> QED
    BY <2>4, <2>5
<1>13. CASE ProjectRows
  <2>1. /\ pump.pc = "rows" /\ pump'.pc = "read" /\ pump.run \in Runs /\ pump'.run = pump.run
        /\ UNCHANGED <<journal, watch>>
    BY <1>13 DEF ProjectRows, At, Goto, TypeOK, PumpState
  <2>2. RowAhead(r)' = RowOf(r)'
    BY <1>7, <2>1 DEF Waiting
  <2>3. CASE pump.run # r
    BY <1>2, <1>6, <1>13, <2>1, <2>2, <2>3 DEF ProjectRows, RowOf, TypeOK
  <2>4. CASE pump.run = r
    <3>1. RowAhead(r) = [fact |-> FactAfter(fact[r], Settled(r)), watch |-> watch[r]]
      BY <1>2, <2>1, <2>4, ApplyOwn DEF RowAhead, RowOf
    <3>2. fact'[r] = FactAfter(fact[r], Settled(r))
      BY <1>2, <1>13, <2>4 DEF ProjectRows, TypeOK
    <3> QED
      BY <1>2, <2>1, <2>2, <3>1, <3>2 DEF RowOf
  <2> QED
    BY <2>3, <2>4
<1>14. CASE ProjectWatch \/ FlipWatch
  <2> DEFINE e == IF ProjectWatch THEN Registered(pump.run) ELSE Fired(pump.run, "no_signal")
  <2>1. /\ pump'.pc \notin Waiting /\ pump.run \in Runs /\ pump'.run = pump.run
        /\ UNCHANGED <<journal, fact>>
    BY <1>14 DEF ProjectWatch, FlipWatch, At, Goto, TypeOK, PumpState, Waiting
  <2>2. watch' = [watch EXCEPT ![pump.run] = WatchAfter(watch[pump.run], e)]
    BY <1>14 DEF ProjectWatch, FlipWatch, At
  <2>3. RowAhead(r)' = RowOf(r)'
    BY <1>7, <2>1
  <2>4. CASE pump.run # r
    <3>1. watch'[r] = watch[r]
      BY <1>2, <2>2, <2>4 DEF TypeOK
    <3> QED
      BY <1>2, <1>6, <2>1, <2>3, <2>4, <3>1 DEF RowOf
  <2>5. CASE pump.run = r
    <3>1. RowAhead(r) = [fact |-> fact[r], watch |-> WatchAfter(watch[r], e)]
      <4>1. CASE ProjectWatch
        <5>1. RowAhead(r) = ApplyTo(r, RowOf(r), Registered(r)) /\ e = Registered(r)
          BY <2>5, <4>1 DEF ProjectWatch, At, RowAhead
        <5> HIDE DEF e
        <5> QED
          BY <1>2, <5>1, ApplyOwn DEF RowOf
      <4>2. CASE ~ProjectWatch /\ FlipWatch
        <5>1. RowAhead(r) = ApplyTo(r, RowOf(r), Fired(r, "no_signal")) /\ e = Fired(r, "no_signal")
          BY <2>5, <4>2 DEF FlipWatch, At, RowAhead
        <5> HIDE DEF e
        <5> QED
          BY <1>2, <5>1, ApplyFired DEF RowOf
      <4> QED
        BY <1>14, <4>1, <4>2
    <3>2. watch'[r] = WatchAfter(watch[r], e)
      BY <1>2, <2>2, <2>5 DEF TypeOK
    <3> HIDE DEF e
    <3> QED
      BY <1>2, <2>1, <2>3, <3>1, <3>2 DEF RowOf
  <2> QED
    BY <2>4, <2>5
<1>15. CASE ProjectDeferred
  <2> DEFINE o == OutcomeOf(pump.run)
  <2>1. /\ pump.pc = "promote" /\ pump'.pc \notin Waiting /\ pump.run \in Runs
        /\ pump'.run = pump.run /\ UNCHANGED <<journal, watch>>
        /\ fact' = [fact EXCEPT ![pump.run] = FactAfter(fact[pump.run], Deferred(pump.run, o))]
    BY <1>15 DEF ProjectDeferred, At, TypeOK, PumpState, Waiting
  <2>2. o \in Outcomes
    BY <2>1, OutcomeType DEF Grounds
  <2>3. RowAhead(r)' = RowOf(r)'
    BY <1>7, <2>1
  <2>4. CASE pump.run # r
    <3>1. fact'[r] = fact[r]
      BY <1>2, <2>1, <2>4 DEF TypeOK
    <3> QED
      BY <1>2, <1>6, <2>1, <2>3, <2>4, <3>1 DEF RowOf
  <2>5. CASE pump.run = r
    <3>1. RowAhead(r) = ApplyTo(r, RowOf(r), Deferred(r, o))
      BY <2>1, <2>5 DEF RowAhead
    <3> HIDE DEF o
    <3>2. RowAhead(r) = [fact |-> FactAfter(fact[r], Deferred(r, o)), watch |-> watch[r]]
      BY <1>2, <3>1, ApplyDeferred DEF RowOf
    <3>3. fact'[r] = FactAfter(fact[r], Deferred(r, o))
      BY <1>2, <2>1, <2>5 DEF TypeOK
    <3> QED
      BY <1>2, <2>1, <2>3, <3>2, <3>3 DEF RowOf
  <2> QED
    BY <2>4, <2>5
<1>16. ASSUME NEW m \in Managers, AppendRing(m)
       PROVE  Rebuilt(r, NoRow, journal') = RowAhead(r)'
  <2>1. request[m].instance \in Instances /\ request[m].ring \in Rings
    BY DEF TypeOK, RequestState
  <2>2. Rebuilt(r, NoRow, journal') = RowAhead(r)
    BY <1>2, <1>5, <1>16, <2>1, ApplyOther, EventTypes DEF AppendRing
  <2>3. UNCHANGED <<pump, fact, watch>>
    BY <1>16 DEF AppendRing
  <2>4. RowAhead(r)' = RowAhead(r)
    BY <1>4, <2>3 DEF RowAhead, RowOf, Grounds
  <2> QED
    BY <2>2, <2>4
<1>17. ASSUME NEW q \in Runs, Report(q)
       PROVE  Rebuilt(r, NoRow, journal') = RowAhead(r)'
  <2>1. /\ watch[q] = "pending" /\ ~Has("fired", q) /\ Record(Fired(q, "success"))
        /\ watch' = [watch EXCEPT ![q] = WatchAfter(watch[q], Fired(q, "success"))]
        /\ UNCHANGED <<fact, pump>> /\ "success" \in Outcomes
    BY <1>17 DEF Report, Outcomes
  <2>2. Rebuilt(r, NoRow, journal') = ApplyTo(r, RowAhead(r), Fired(q, "success"))
    BY <1>5, <2>1, EventTypes
  <2>3. CASE q # r
    <3>1. watch'[r] = watch[r]
      BY <1>2, <2>1, <2>3 DEF TypeOK
    <3>2. RowAhead(r)' = RowAhead(r)
      BY <1>4, <2>1, <3>1 DEF RowAhead, RowOf, Grounds
    <3> QED
      BY <1>2, <2>1, <2>2, <2>3, <3>2, ApplyOther
  <2>4. CASE q = r
    <3>1. pump.pc \notin Waiting \/ pump.run # r
      <4>1. pump.pc \in {"rows", "watch"} => pump.run # r
        BY <1>2, <1>3, <2>1, <2>4 DEF SettlePcs
      <4>2. pump.pc \in {"flip", "promote"} => pump.run # r
        BY <2>1, <2>4 DEF Grounds
      <4> QED
        BY <4>1, <4>2 DEF Waiting
    <3>2. RowAhead(r) = RowOf(r) /\ RowAhead(r)' = RowOf(r)'
      BY <1>6, <1>7, <2>1, <3>1
    <3>3. ApplyTo(r, RowOf(r), Fired(r, "success")) =
             [fact |-> fact[r], watch |-> WatchAfter(watch[r], Fired(r, "success"))]
      BY <1>2, ApplyFired DEF RowOf
    <3>4. watch'[r] = WatchAfter(watch[r], Fired(r, "success"))
      BY <1>2, <2>1, <2>4 DEF TypeOK
    <3> QED
      BY <2>1, <2>2, <2>4, <3>2, <3>3, <3>4 DEF RowOf
  <2> QED
    BY <2>3, <2>4
<1>18. ASSUME (\E q \in Runs : Work(q)) \/ NoWork \/ ReadResume \/ WriteResume \/ Scan \/ Scanned
       PROVE  /\ UNCHANGED <<journal, fact, watch>>
              /\ pump.pc \notin Waiting /\ pump'.pc \notin Waiting
  BY <1>18 DEF Work, NoWork, ReadResume, WriteResume, Scan, Scanned, At, Goto, Leave,
               TypeOK, PumpState, Waiting
<1>19. ASSUME List \/ Mature \/ Matured \/ SaveEvalCase \/ ReadTrust \/ WriteTrust
       PROVE  /\ UNCHANGED <<journal, fact, watch>>
              /\ pump.pc \notin Waiting /\ pump'.pc \notin Waiting
  <2>1. CASE List \/ Matured \/ SaveEvalCase \/ ReadTrust \/ WriteTrust
    BY <2>1 DEF List, Matured, SaveEvalCase, ReadTrust, WriteTrust, At, Goto, Leave,
                TypeOK, PumpState, Waiting
  <2>2. CASE Mature
    <3>1. \/ pump' = [pump EXCEPT !.todo = Tail(pump.todo)]
          \/ pump' = [pump EXCEPT !.pc = "work", !.todo = <<>>, !.copy = NoResume]
          \/ pump' = [pump EXCEPT !.pc = "grade", !.run = Head(pump.todo)]
      BY <2>2 DEF Mature
    <3> QED
      BY <2>2, <3>1 DEF Mature, At, TypeOK, PumpState, Waiting
  <2> QED
    BY <1>19, <2>1, <2>2
<1>20. ASSUME NEW m \in Managers, Request(m)
       PROVE  AppendRing(m) \/ UNCHANGED <<journal, fact, watch, pump>>
  BY <1>1, <1>20 DEF Request, AskRing, ReadForRing, WriteRing
<1>21. ASSUME (\E q \in Runs : Deadline(q)) \/ UNCHANGED vars
       PROVE  UNCHANGED <<journal, fact, watch, pump>>
  BY <1>21 DEF Deadline, vars
<1> QED
  BY <1>1, <1>8, <1>9, <1>10, <1>11, <1>12, <1>13, <1>14, <1>15, <1>16, <1>17, <1>18, <1>19,
     <1>20, <1>21 DEF Next, Pump, Settlement, Firing, Maturation

(* Once nothing is in flight the rows are what either rebuild yields. *)
LEMMA RowsFollow == TypeOK /\ RebuildForgets /\ RowsKeepUp => RowsAreTheFold
<1> SUFFICES ASSUME TypeOK, RebuildForgets, RowsKeepUp, pump.pc \in {"work", "scan", "list"},
                    faults = 0, NEW r \in Watched
             PROVE  RowOf(r) = Rebuilt(r, NoRow, journal) /\ RowOf(r) = Rebuilt(r, RowOf(r), journal)
  BY DEF RowsAreTheFold
<1>1. r \in Runs /\ Rebuilt(r, NoRow, journal) = RowOf(r)
  BY WatchAssumption DEF RowsKeepUp, RowAhead
<1>2. RowOf(r) \in Rows /\ RowOf(r) = [fact |-> fact[r], watch |-> watch[r]]
  BY <1>1 DEF RowOf, Rows, TypeOK
<1>3. Rebuilt(r, RowOf(r), journal) = [fact |-> fact[r], watch |-> watch[r]]
  BY <1>1, <1>2 DEF RebuildForgets
<1> QED
  BY <1>1, <1>2, <1>3

-----------------------------------------------------------------------------
(* The resume follows the journal *)

LEMMA TrustMoves ==
    ASSUME NEW doc \in Resumes
    PROVE  /\ AddSettlement(doc).trust = doc.trust + 1
           /\ \A o : AddMaturation(doc, o).trust = doc.trust + Gain(o)
           /\ \A g : AddRing(doc, g).trust = doc.trust
<1>1. AddSettlement(doc).trust = doc.trust + 1
  BY DEF AddSettlement
<1>2. ASSUME NEW o PROVE AddMaturation(doc, o).trust = doc.trust + Gain(o)
  <2> DEFINE prior == IF doc = NoResume THEN NewResume ELSE doc
  <2>1. prior \in Resumes /\ prior.trust = doc.trust
    BY DEF Resumes, NewResume, NoResume
  <2>2. AddMaturation(doc, o) =
           IF o = "success" THEN [prior EXCEPT !.trust = @ + 1, !.streak = @ + 1, !.good = @ + 1]
           ELSE [prior EXCEPT !.trust = @ - 1, !.streak = 0, !.bad = @ + 1]
    BY DEF AddMaturation
  <2> HIDE DEF prior
  <2>3. CASE o = "success"
    BY <2>1, <2>2, <2>3 DEF Resumes, Gain
  <2>4. CASE o # "success"
    BY <2>1, <2>2, <2>4 DEF Resumes, Gain
  <2> QED
    BY <2>3, <2>4
<1>3. \A g : AddRing(doc, g).trust = doc.trust
  BY DEF AddRing, Resumes
<1> QED
  BY <1>1, <1>2, <1>3

LEMMA EarnTypes ==
    ASSUME NEW i, NEW doc \in Resumes, NEW e \in Events
    PROVE  Earn(i, doc, e) \in Resumes
<1>1. e.kind = "set_ring" => e.ring \in Rings
  BY DEF Events, Settled, Registered, Fired, Deferred, SetRing
<1> QED
  BY <1>1, ResumeTypes DEF Earn

(* What any journal earned is a resume. *)
LEMMA EarnedTypes ==
    ASSUME NEW i, NEW events \in Seq(Events)
    PROVE  Earned(i, events) \in Resumes
<1> DEFINE L == Len(events)
<1>1. L \in Nat /\ \A n \in 1 .. L : events[n] \in Events
  OBVIOUS
<1>2. PICK doc : /\ doc[0] = NoResume
                 /\ \A n \in 1 .. L : doc[n] = Earn(i, doc[n - 1], events[n])
                 /\ Earned(i, events) = doc[L]
  BY <1>1, EarnedExists
<1> HIDE DEF L
<1> DEFINE S == {n \in 0 .. L : doc[n] \in Resumes}
<1>3. 0 \in S
  BY <1>1, <1>2, NoResumeType
<1>4. ASSUME NEW n \in 0 .. L - 1, n \in S
      PROVE  n + 1 \in S
  <2>1. n + 1 \in 1 .. L /\ (n + 1) - 1 = n
    BY <1>1
  <2>2. doc[n + 1] = Earn(i, doc[n], events[n + 1])
    BY <1>2, <2>1
  <2> QED
    BY <1>1, <1>4, <2>1, <2>2, EarnTypes
<1> HIDE DEF S
<1>5. \A n \in 0 .. L : n \in S
  BY <1>1, <1>3, <1>4, InductTo
<1> QED
  BY <1>1, <1>2, <1>5 DEF S

(* One more event earns what Earn says. *)
LEMMA EarnedGrows ==
    ASSUME TypeOK, NEW i, NEW e \in Events, Record(e)
    PROVE  /\ Earned(i, journal') = Earn(i, Earned(i, journal), e)
           /\ Earned(i, journal) \in Resumes
<1>1. journal' = Append(journal, e) /\ journal \in Seq(Events)
  BY DEF Record, TypeOK
<1> QED
  BY <1>1, EarnedAppend, EarnedTypes

(* Most steps neither earn nor write, and leave a maturation in flight alone. *)
LEMMA AccountsKept ==
    ASSUME TypeOK, Grounds, MaturesOnce, [Next]_vars, NEW i \in Instances,
           ~AppendSettled, ~WriteResume, ~WriteTrust, ~AppendDeferred, ~Fault,
           \A m \in Managers : ~AppendRing(m)
    PROVE  /\ Settling(i)' <=> Settling(i)
           /\ Owed(i)' = Owed(i)
           /\ Journaled(i)' = Journaled(i)
<1> USE DEF env, rows
<1>1. \A q : Has("fired", q) => OutcomeOf(q)' = OutcomeOf(q)
  BY OutcomeKept
<1>2. Deferring(i) => Has("fired", pump.run)
  BY DEF Deferring, Grounds
<1>3. CASE /\ Earned(i, journal') = Earned(i, journal)
           /\ pump.pc # "defer" /\ pump'.pc # "defer"
           /\ Settling(i)' <=> Settling(i)
  BY <1>3 DEF Owed, Journaled, Deferring
<1>4. CASE UNCHANGED pump /\ Earned(i, journal') = Earned(i, journal)
  BY <1>1, <1>2, <1>4 DEF Owed, Journaled, Deferring, Settling
<1>5. ASSUME (\E q \in Runs : Work(q)) \/ NoWork \/ ProjectWatch \/ Scan \/ Scanned
             \/ FlipWatch \/ List \/ Matured \/ SaveEvalCase \/ ReadTrust \/ ProjectDeferred
             \/ ProjectRows \/ ReadResume
      PROVE  /\ UNCHANGED journal /\ pump.pc # "defer" /\ pump'.pc # "defer"
             /\ Settling(i)' <=> Settling(i)
  <2>1. CASE (\E q \in Runs : Work(q)) \/ NoWork \/ ProjectWatch \/ Scan \/ Scanned
    BY <2>1 DEF Work, NoWork, ProjectWatch, Scan, Scanned, At, Goto, TypeOK, PumpState, Settling
  <2>2. CASE FlipWatch \/ List \/ Matured \/ SaveEvalCase \/ ReadTrust \/ ProjectDeferred
    BY <2>2 DEF FlipWatch, List, Matured, SaveEvalCase, ReadTrust, ProjectDeferred, At, Goto,
                TypeOK, PumpState, Settling
  <2>3. CASE ProjectRows \/ ReadResume
    BY <2>3 DEF ProjectRows, ReadResume, At, Goto, TypeOK, PumpState, Settling
  <2> QED
    BY <1>5, <2>1, <2>2, <2>3
<1>6. CASE Mature
  <2>1. \/ pump' = [pump EXCEPT !.todo = Tail(pump.todo)]
        \/ pump' = [pump EXCEPT !.pc = "work", !.todo = <<>>, !.copy = NoResume]
        \/ pump' = [pump EXCEPT !.pc = "grade", !.run = Head(pump.todo)]
    BY <1>6 DEF Mature
  <2> QED
    BY <1>3, <1>6, <2>1 DEF Mature, At, TypeOK, PumpState, Settling
<1>7. CASE AppendRegistered
  <2>1. /\ Registered(pump.run) \in Events /\ Record(Registered(pump.run))
        /\ pump.pc = "register" /\ pump'.pc = "watch"
    BY <1>7, EventTypes DEF AppendRegistered, At, Goto, TypeOK, PumpState
  <2>2. Earned(i, journal') = Earned(i, journal)
    BY <2>1, EarnedGrows DEF Earn, Registered
  <2> QED
    BY <1>3, <2>1, <2>2 DEF Settling
<1>8. CASE Fire
  <2> DEFINE q == Head(pump.todo)
  <2>1. /\ q \in Runs /\ Fired(q, "no_signal") \in Events
        /\ pump.pc = "fire" /\ pump'.pc \in {"fire", "flip"}
        /\ UNCHANGED journal \/ Record(Fired(q, "no_signal"))
    <3>1. q \in Runs
      BY <1>8 DEF Fire, TypeOK, PumpState
    <3>2. Fired(q, "no_signal") \in Events
      BY <3>1, EventTypes DEF Outcomes
    <3> QED
      BY <1>8, <3>1, <3>2 DEF Fire, At, TypeOK, PumpState
  <2> HIDE DEF q
  <2>2. Earned(i, journal') = Earned(i, journal)
    BY <2>1, EarnedGrows DEF Earn, Fired
  <2> QED
    BY <1>3, <2>1, <2>2 DEF Settling
<1>9. ASSUME NEW q \in Runs, Report(q)
      PROVE  UNCHANGED pump /\ Earned(i, journal') = Earned(i, journal)
  <2>1. /\ Fired(q, "success") \in Events /\ Record(Fired(q, "success")) /\ UNCHANGED pump
    BY <1>9, EventTypes DEF Report, Outcomes
  <2> QED
    BY <2>1, EarnedGrows DEF Earn, Fired
<1>10. ASSUME NEW m \in Managers, Request(m) PROVE UNCHANGED <<pump, journal>>
  BY <1>10 DEF Request, AskRing, ReadForRing, WriteRing, RequestFault
<1>11. ASSUME (\E q \in Runs : Deadline(q)) \/ UNCHANGED vars PROVE UNCHANGED <<pump, journal>>
  BY <1>11 DEF Deadline, vars
<1>12. UNCHANGED journal => Earned(i, journal') = Earned(i, journal)
  OBVIOUS
<1>13. UNCHANGED pump => (Settling(i)' <=> Settling(i))
  BY DEF Settling
<1> QED
  BY <1>3, <1>4, <1>5, <1>6, <1>7, <1>8, <1>9, <1>10, <1>11, <1>12, <1>13
     DEF Next, Pump, Settlement, Firing, Maturation

(* A settlement, a maturation and a set_ring that are journaled. *)
LEMMA SettledEarns ==
    ASSUME TypeOK, AppendSettled, NEW i \in Instances
    PROVE  /\ Earned(i, journal') = IF InstanceOf[pump.run] = i
                                    THEN AddSettlement(Earned(i, journal)) ELSE Earned(i, journal)
           /\ ~Settling(i) /\ (Settling(i)' <=> InstanceOf[pump.run] = i)
           /\ ~Deferring(i) /\ ~Deferring(i)'
<1>1. /\ Settled(pump.run) \in Events /\ Record(Settled(pump.run))
      /\ pump.pc = "settle" /\ pump'.pc = "rows" /\ pump'.run = pump.run
  BY EventTypes DEF AppendSettled, At, Goto, TypeOK, PumpState
<1>2. Earned(i, journal') = IF InstanceOf[pump.run] = i
                            THEN AddSettlement(Earned(i, journal)) ELSE Earned(i, journal)
  BY <1>1, EarnedGrows DEF Earn, Settled
<1> QED
  BY <1>1, <1>2 DEF Settling, Deferring

LEMMA DeferredEarns ==
    ASSUME TypeOK, Grounds, AppendDeferred, NEW i \in Instances
    PROVE  /\ Earned(i, journal') = IF InstanceOf[pump.run] = i
                                    THEN AddMaturation(Earned(i, journal), OutcomeOf(pump.run))
                                    ELSE Earned(i, journal)
           /\ ~Settling(i) /\ ~Settling(i)'
           /\ (Deferring(i) <=> InstanceOf[pump.run] = i) /\ ~Deferring(i)'
<1> DEFINE o == OutcomeOf(pump.run)
<1>1. /\ pump.pc = "defer" /\ pump'.pc = "promote" /\ pump.run \in Runs
      /\ Record(Deferred(pump.run, o)) /\ Has("fired", pump.run)
  BY DEF AppendDeferred, At, Goto, TypeOK, PumpState, Grounds
<1>2. Deferred(pump.run, o) \in Events
  BY <1>1, OutcomeType, EventTypes
<1> HIDE DEF o
<1>3. Earned(i, journal') = IF InstanceOf[pump.run] = i
                            THEN AddMaturation(Earned(i, journal), o) ELSE Earned(i, journal)
  BY <1>1, <1>2, EarnedGrows DEF Earn, Deferred
<1> QED
  BY <1>1, <1>3 DEF Settling, Deferring, o

LEMMA RingEarns ==
    ASSUME TypeOK, NEW m \in Managers, AppendRing(m), NEW i \in Instances
    PROVE  /\ Earned(i, journal') = IF request[m].instance = i
                                    THEN AddRing(Earned(i, journal), request[m].ring)
                                    ELSE Earned(i, journal)
           /\ request[m].ring \in Rings /\ UNCHANGED <<pump, resume>>
<1>1. /\ SetRing(request[m].instance, request[m].ring) \in Events /\ UNCHANGED <<pump, resume>>
      /\ Record(SetRing(request[m].instance, request[m].ring)) /\ request[m].ring \in Rings
  BY EventTypes DEF AppendRing, TypeOK, RequestState
<1> QED
  BY <1>1, EarnedGrows DEF Earn, SetRing

(* The trust owed moves only with a write of the pump, or a fault. *)
LEMMA OwedKept ==
    ASSUME TypeOK, Grounds, MaturesOnce, [Next]_vars, ~WriteResume, ~WriteTrust, ~Fault,
           NEW i \in Instances
    PROVE  Owed(i)' = Owed(i)
<1>1. Earned(i, journal) \in Resumes /\ Earned(i, journal).trust \in Int
  <2>1. Earned(i, journal) \in Resumes
    BY EarnedTypes DEF TypeOK
  <2> QED
    BY <2>1 DEF Resumes
<1>2. CASE AppendSettled
  <2>1. Earned(i, journal').trust =
           Earned(i, journal).trust + IF InstanceOf[pump.run] = i THEN 1 ELSE 0
    BY <1>1, <1>2, SettledEarns, TrustMoves
  <2> QED
    BY <1>1, <1>2, <2>1, SettledEarns DEF Owed
<1>3. CASE AppendDeferred
  <2> DEFINE o == OutcomeOf(pump.run)
  <2>1. Owed(i) = Earned(i, journal).trust + IF InstanceOf[pump.run] = i THEN Gain(o) ELSE 0
    BY <1>1, <1>3, DeferredEarns DEF Owed, Gain
  <2> HIDE DEF o
  <2>2. Earned(i, journal').trust =
           Earned(i, journal).trust + IF InstanceOf[pump.run] = i THEN Gain(o) ELSE 0
    BY <1>1, <1>3, DeferredEarns, TrustMoves DEF o, Gain
  <2>3. Owed(i)' = Earned(i, journal').trust
    BY <1>1, <1>3, <2>2, DeferredEarns DEF Owed, Gain
  <2> QED
    BY <2>1, <2>2, <2>3
<1>4. ASSUME NEW m \in Managers, AppendRing(m) PROVE Owed(i)' = Owed(i)
  <2>1. Earned(i, journal').trust = Earned(i, journal).trust /\ UNCHANGED pump
    BY <1>1, <1>4, RingEarns, TrustMoves
  <2>2. \A q : Has("fired", q) => OutcomeOf(q)' = OutcomeOf(q)
    BY OutcomeKept
  <2>3. Deferring(i) => Has("fired", pump.run)
    BY DEF Deferring, Grounds
  <2> QED
    BY <2>1, <2>2, <2>3 DEF Owed, Deferring, Settling
<1> QED
  BY <1>2, <1>3, <1>4, AccountsKept

(* The copies that will be written are those that were held, or read now. *)
LEMMA CopiesKept ==
    ASSUME TypeOK, [Next]_vars, ~WriteResume, ~WriteTrust, ~Fault, NEW i \in Instances
    PROVE  /\ faults' >= faults /\ overlaps' >= overlaps
           /\ HeldByPump(i)' => \/ HeldByPump(i) /\ pump'.copy = pump.copy
                                \/ pump'.copy = resume[i]
           /\ \A m \in Managers :
                 Holding(m, i)' => \/ Holding(m, i) /\ request'[m].copy = request[m].copy
                                   \/ request'[m].copy = resume[i]
           /\ UNCHANGED resume \/ \E m \in Managers : WriteRing(m)
<1> USE DEF env, rows
<1>1. faults \in Nat /\ overlaps \in Nat
  BY WatchAssumption DEF TypeOK
<1>2. CASE (\E r \in Runs : Work(r)) \/ NoWork \/ Settlement \/ Firing \/ Maturation
  <2>1. UNCHANGED <<faults, overlaps, resume, request>>
    BY <1>2 DEF Work, NoWork, Settlement, Firing, Maturation, AppendSettled, ProjectRows,
                ReadResume, AppendRegistered, ProjectWatch, Scan, Fire, FlipWatch, Scanned, List,
                Mature, Matured, SaveEvalCase, ReadTrust, AppendDeferred, ProjectDeferred
  <2>2. CASE ReadResume \/ ReadTrust
    <3>1. pump'.run = pump.run /\ pump'.copy = resume[InstanceOf[pump.run]]
      BY <2>2 DEF ReadResume, ReadTrust, TypeOK, PumpState
    <3> QED
      BY <1>1, <2>1, <3>1 DEF HeldByPump, Holding
  <2>3. CASE ~ReadResume /\ ~ReadTrust
    <3>1. pump'.pc \notin {"write", "writeTrust"}
      <4>1. CASE (\E r \in Runs : Work(r)) \/ NoWork \/ Settlement
        BY <2>3, <4>1 DEF Work, NoWork, Settlement, AppendSettled, ProjectRows,
                          AppendRegistered, ProjectWatch, Goto, TypeOK, PumpState
      <4>2. CASE Firing
        BY <4>2 DEF Firing, Scan, Fire, FlipWatch, Scanned, At, Goto, TypeOK, PumpState
      <4>3. CASE Mature
        <5>1. \/ pump' = [pump EXCEPT !.todo = Tail(pump.todo)]
              \/ pump' = [pump EXCEPT !.pc = "work", !.todo = <<>>, !.copy = NoResume]
              \/ pump' = [pump EXCEPT !.pc = "grade", !.run = Head(pump.todo)]
          BY <4>3 DEF Mature
        <5> QED
          BY <4>3, <5>1 DEF Mature, At, TypeOK, PumpState
      <4>4. CASE Maturation /\ ~Mature
        BY <2>3, <4>4 DEF Maturation, List, Matured, SaveEvalCase, AppendDeferred,
                          ProjectDeferred, Goto, TypeOK, PumpState
      <4> QED
        BY <1>2, <4>1, <4>2, <4>3, <4>4
    <3> QED
      BY <1>1, <2>1, <3>1 DEF HeldByPump, Holding
  <2> QED
    BY SMTT(60), <2>2, <2>3
<1>3. ASSUME NEW m \in Managers, Request(m)
      PROVE  /\ faults' >= faults /\ overlaps' >= overlaps /\ UNCHANGED pump
             /\ \A n \in Managers :
                   Holding(n, i)' => \/ Holding(n, i) /\ request'[n].copy = request[n].copy
                                     \/ request'[n].copy = resume[i]
             /\ UNCHANGED resume \/ \E n \in Managers : WriteRing(n)
  <2>1. CASE \E j \in Instances, g \in Rings : AskRing(m, j, g)
    BY <1>1, <2>1 DEF AskRing, TypeOK, RequestState, Holding
  <2>2. CASE AppendRing(m)
    BY <1>1, <2>2 DEF AppendRing, TypeOK, RequestState, Holding
  <2>3. CASE ReadForRing(m)
    BY <1>1, <2>3 DEF ReadForRing, TypeOK, RequestState, Holding
  <2>4. CASE WriteRing(m)
    <3>1. overlaps' >= overlaps /\ UNCHANGED <<faults, pump>>
          /\ request' = [request EXCEPT ![m] = [NoRequest EXCEPT !.pc = "done"]]
      BY <1>1, <2>4 DEF WriteRing
    <3>2. [NoRequest EXCEPT !.pc = "done"].pc = "done"
      BY DEF NoRequest
    <3> QED
      BY <1>1, <2>4, <3>1, <3>2 DEF TypeOK, Holding
  <2>5. CASE RequestFault(m)
    <3>1. faults' = faults + 1 /\ UNCHANGED <<overlaps, pump, resume>>
          /\ request' = [request EXCEPT ![m] = [NoRequest EXCEPT !.pc = "done"]]
      BY <2>5 DEF RequestFault
    <3>2. [NoRequest EXCEPT !.pc = "done"].pc = "done"
      BY DEF NoRequest
    <3> QED
      BY <1>1, <3>1, <3>2 DEF TypeOK, Holding
  <2> QED
    BY <1>3, <2>1, <2>2, <2>3, <2>4, <2>5 DEF Request
<1>4. CASE (\E r \in Runs : Deadline(r) \/ Report(r)) \/ UNCHANGED vars
  <2>1. UNCHANGED <<faults, overlaps, resume, request, pump>>
    BY <1>4 DEF Deadline, Report, vars
  <2> QED
    BY <1>1, <2>1 DEF HeldByPump, Holding
<1> QED
  BY <1>2, <1>3, <1>4 DEF Next, Pump, HeldByPump

LEMMA NearTypes ==
    ASSUME TypeOK, Grounds, NEW i \in Instances
    PROVE  /\ Owed(i) \in Int /\ faults \in Nat /\ overlaps \in Nat
           /\ resume[i] \in Resumes /\ resume[i].trust \in Int
           /\ pump.copy \in Resumes /\ pump.copy.trust \in Int
           /\ \A m \in Managers : request[m].copy \in Resumes /\ request[m].copy.trust \in Int
<1>1. Earned(i, journal) \in Resumes
  BY EarnedTypes DEF TypeOK
<1>2. Earned(i, journal).trust \in Int
  BY <1>1 DEF Resumes
<1>3. Owed(i) \in Int
  BY <1>2 DEF Owed, Gain
<1>4. \A doc \in Resumes : doc.trust \in Int
  BY DEF Resumes
<1>5. resume[i] \in Resumes /\ pump.copy \in Resumes /\ faults \in Nat /\ overlaps \in Nat
  BY WatchAssumption DEF TypeOK, PumpState
<1>6. \A m \in Managers : request[m].copy \in Resumes
  BY DEF TypeOK, RequestState
<1> QED
  BY <1>3, <1>4, <1>5, <1>6

(* A write of the pump moves the trust owed to its instance as it moves its copy. *)
LEMMA PumpWrites ==
    ASSUME TypeOK, Grounds, MaturesOnce, [Next]_vars, WriteResume \/ WriteTrust,
           NEW i \in Instances
    PROVE  \E d \in {1, -1} :
              /\ Owed(i)' = IF i = InstanceOf[pump.run] THEN Owed(i) + d ELSE Owed(i)
              /\ resume'[i].trust = IF i = InstanceOf[pump.run] THEN pump.copy.trust + d
                                    ELSE resume[i].trust
              /\ i = InstanceOf[pump.run] => HeldByPump(i)
              /\ ~HeldByPump(i)'
              /\ UNCHANGED <<request, faults>>
              /\ overlaps' = IF HeldByRequest(InstanceOf[pump.run]) THEN overlaps + 1 ELSE overlaps
<1> DEFINE j == InstanceOf[pump.run]
<1>1. /\ j \in Instances /\ pump.run \in Runs
      /\ pump.copy \in Resumes /\ pump.copy.trust \in Int /\ Owed(i) \in Int
  BY WatchAssumption, NearTypes DEF TypeOK, PumpState
<1>2. Earned(i, journal).trust \in Int
  <2>1. Earned(i, journal) \in Resumes
    BY EarnedTypes DEF TypeOK
  <2> QED
    BY <2>1 DEF Resumes
<1>3. CASE WriteResume
  <2>1. /\ resume' = [resume EXCEPT ![j] = AddSettlement(pump.copy)]
        /\ overlaps' = IF HeldByRequest(j) THEN overlaps + 1 ELSE overlaps
        /\ pump.pc = "write" /\ pump'.pc \in {"register", "scan"} /\ pump'.run = pump.run
        /\ UNCHANGED <<journal, request, faults>>
    BY <1>3 DEF WriteResume, WriteByPump, Leave, At, TypeOK, PumpState
  <2>2. Owed(i) = Earned(i, journal).trust - (IF i = j THEN 1 ELSE 0)
    BY <1>2, <2>1 DEF Owed, Settling, Deferring
  <2>3. Owed(i)' = Earned(i, journal).trust
    BY <1>2, <2>1 DEF Owed, Settling, Deferring
  <2>4. resume'[i].trust = IF i = j THEN pump.copy.trust + 1 ELSE resume[i].trust
    BY <1>1, <2>1, TrustMoves DEF TypeOK
  <2>5. (i = j => HeldByPump(i)) /\ ~HeldByPump(i)'
    BY <2>1 DEF HeldByPump
  <2>6. Owed(i)' = IF i = j THEN Owed(i) + 1 ELSE Owed(i)
    BY <1>2, <2>2, <2>3
  <2> QED
    BY <2>1, <2>4, <2>5, <2>6
<1>4. CASE WriteTrust
  <2> DEFINE o == OutcomeOf(pump.run)
  <2>1. /\ resume' = [resume EXCEPT ![j] = AddMaturation(pump.copy, o)]
        /\ overlaps' = IF HeldByRequest(j) THEN overlaps + 1 ELSE overlaps
        /\ pump.pc = "writeTrust" /\ pump'.pc = "defer" /\ pump'.run = pump.run
        /\ UNCHANGED <<journal, request, faults>>
    BY <1>4 DEF WriteTrust, WriteByPump, Leave, At, TypeOK, PumpState
  <2>2. Owed(i) = Earned(i, journal).trust
    BY <1>2, <2>1 DEF Owed, Settling, Deferring
  <2>3. Owed(i)' = Earned(i, journal).trust + (IF i = j THEN Gain(o) ELSE 0)
    <3>1. OutcomeOf(pump.run)' = o
      BY <2>1 DEF OutcomeOf
    <3> QED
      BY <1>2, <2>1, <3>1 DEF Owed, Settling, Deferring, Gain
  <2> HIDE DEF o
  <2>4. resume'[i].trust = IF i = j THEN pump.copy.trust + Gain(o) ELSE resume[i].trust
    BY <1>1, <2>1, TrustMoves DEF TypeOK
  <2>5. (i = j => HeldByPump(i)) /\ ~HeldByPump(i)'
    BY <2>1 DEF HeldByPump
  <2>6. Owed(i)' = (IF i = j THEN Owed(i) + Gain(o) ELSE Owed(i)) /\ Gain(o) \in {1, -1}
    BY <1>2, <2>2, <2>3 DEF Gain
  <2> QED
    BY <2>1, <2>4, <2>5, <2>6
<1> QED
  BY <1>3, <1>4

(* A fault of the pump loses at most one update of one instance. *)
LEMMA FaultLoses ==
    ASSUME TypeOK, Grounds, Fault, NEW i \in Instances
    PROVE  /\ \E d \in {-1, 0, 1} : Owed(i)' = Owed(i) + d
           /\ UNCHANGED <<resume, request, overlaps>> /\ faults' = faults + 1
           /\ ~HeldByPump(i)'
<1>1. /\ UNCHANGED <<resume, request, overlaps, journal>> /\ faults' = faults + 1
      /\ pump'.pc \in {"scan", "work"}
  BY DEF Fault, TypeOK, PumpState
<1>2. Earned(i, journal).trust \in Int
  <2>1. Earned(i, journal) \in Resumes
    BY EarnedTypes DEF TypeOK
  <2> QED
    BY <2>1 DEF Resumes
<1>3. Owed(i)' = Earned(i, journal).trust
  BY <1>1, <1>2 DEF Owed, Settling, Deferring
<1>4. ~ (Settling(i) /\ Deferring(i))
  BY DEF Settling, Deferring
<1>5. \E d \in {-1, 0, 1} : Owed(i) = Earned(i, journal).trust - d
  BY <1>2, <1>4 DEF Owed, Gain
<1> QED
  BY <1>1, <1>2, <1>3, <1>5 DEF HeldByPump

LEMMA TrustStep ==
    TypeOK /\ Grounds /\ MaturesOnce /\ TrustIsNear /\ [Next]_vars => TrustIsNear'
<1> SUFFICES ASSUME TypeOK, Grounds, MaturesOnce, TrustIsNear, [Next]_vars, NEW i \in Instances
             PROVE  /\ Near(resume[i].trust, i)'
                    /\ \A m \in Managers : Holding(m, i)' => Near(request[m].copy.trust, i)'
                    /\ HeldByPump(i)' => Near(pump.copy.trust, i)'
  BY DEF TrustIsNear
<1>1. /\ Owed(i) \in Int /\ faults \in Nat /\ overlaps \in Nat
      /\ resume[i].trust \in Int /\ pump.copy.trust \in Int
      /\ \A m \in Managers : request[m].copy \in Resumes /\ request[m].copy.trust \in Int
  BY NearTypes
<1>2. /\ Distance(resume[i].trust, Owed(i)) <= faults + overlaps
      /\ \A m \in Managers :
            Holding(m, i) => Distance(request[m].copy.trust, Owed(i)) <= faults + overlaps
      /\ HeldByPump(i) => Distance(pump.copy.trust, Owed(i)) <= faults + overlaps
  BY DEF TrustIsNear, Near
<1>3. faults' \in Nat /\ overlaps' \in Nat
  BY TypeStep, WatchAssumption DEF TypeOK
<1>4. CASE ~WriteResume /\ ~WriteTrust /\ ~Fault
  <2>1. Owed(i)' = Owed(i)
    BY <1>4, OwedKept
  <2>2. /\ faults' >= faults /\ overlaps' >= overlaps
        /\ HeldByPump(i)' => \/ HeldByPump(i) /\ pump'.copy = pump.copy
                             \/ pump'.copy = resume[i]
        /\ \A m \in Managers :
              Holding(m, i)' => \/ Holding(m, i) /\ request'[m].copy = request[m].copy
                                \/ request'[m].copy = resume[i]
        /\ UNCHANGED resume \/ \E m \in Managers : WriteRing(m)
    BY <1>4, CopiesKept
  <2>3. \A t \in Int : Distance(t, Owed(i)) <= faults + overlaps
                        => Distance(t, Owed(i)') <= faults' + overlaps'
    BY <1>1, <1>3, <2>1, <2>2 DEF Distance
  <2>4. ASSUME NEW m \in Managers, WriteRing(m)
        PROVE  \/ resume'[i] = resume[i]
               \/ Holding(m, i) /\ resume'[i].trust = request[m].copy.trust
    <3>1. /\ request[m].pc = "write"
          /\ resume' = [resume EXCEPT ![request[m].instance] =
                           AddRing(request[m].copy, request[m].ring)]
      BY <2>4 DEF WriteRing
    <3>2. AddRing(request[m].copy, request[m].ring).trust = request[m].copy.trust
      BY <1>1, TrustMoves
    <3> QED
      BY <3>1, <3>2 DEF Holding, TypeOK
  <2>5. Distance(resume'[i].trust, Owed(i)') <= faults' + overlaps'
    BY <1>1, <1>2, <2>2, <2>3, <2>4
  <2>6. \A m \in Managers :
           Holding(m, i)' => Distance(request'[m].copy.trust, Owed(i)') <= faults' + overlaps'
    BY <1>1, <1>2, <2>2, <2>3
  <2>7. HeldByPump(i)' => Distance(pump'.copy.trust, Owed(i)') <= faults' + overlaps'
    BY <1>1, <1>2, <2>2, <2>3
  <2> QED
    BY <2>5, <2>6, <2>7 DEF Near
<1>5. CASE WriteResume \/ WriteTrust
  <2> DEFINE j == InstanceOf[pump.run]
  <2>1. PICK d \in {1, -1} :
           /\ Owed(i)' = IF i = j THEN Owed(i) + d ELSE Owed(i)
           /\ resume'[i].trust = IF i = j THEN pump.copy.trust + d ELSE resume[i].trust
           /\ i = j => HeldByPump(i)
           /\ ~HeldByPump(i)'
           /\ UNCHANGED <<request, faults>>
           /\ overlaps' = IF HeldByRequest(j) THEN overlaps + 1 ELSE overlaps
    BY <1>5, PumpWrites
  <2> HIDE DEF j
  <2>2. Distance(resume'[i].trust, Owed(i)') <= faults' + overlaps'
    BY <1>1, <1>2, <2>1 DEF Distance
  <2>3. ASSUME NEW m \in Managers, Holding(m, i)'
        PROVE  Distance(request'[m].copy.trust, Owed(i)') <= faults' + overlaps'
    <3>1. Holding(m, i) /\ request'[m] = request[m]
      BY <2>1, <2>3 DEF Holding
    <3>2. i = j => HeldByRequest(j)
      BY <3>1 DEF Holding, HeldByRequest
    <3>3. Distance(request[m].copy.trust, Owed(i)) <= faults + overlaps
      BY <1>2, <3>1
    <3> QED
      BY <1>1, <2>1, <3>1, <3>2, <3>3 DEF Distance
  <2> QED
    BY <2>1, <2>2, <2>3 DEF Near
<1>6. CASE Fault
  <2>1. PICK d \in {-1, 0, 1} : Owed(i)' = Owed(i) + d
    BY <1>6, FaultLoses
  <2>2. UNCHANGED <<resume, request, overlaps>> /\ faults' = faults + 1 /\ ~HeldByPump(i)'
    BY <1>6, FaultLoses
  <2>3. \A t \in Int : Distance(t, Owed(i)) <= faults + overlaps
                        => Distance(t, Owed(i)') <= faults' + overlaps'
    BY <1>1, <2>1, <2>2 DEF Distance
  <2> QED
    BY <1>1, <1>2, <2>2, <2>3 DEF Near, Holding
<1> QED
  BY <1>4, <1>5, <1>6

(* A set_ring commutes with what the pump adds. *)
LEMMA RingCommutes ==
    ASSUME NEW doc \in Resumes, NEW g \in Rings
    PROVE  /\ AddRing(AddSettlement(doc), g) = AddSettlement(AddRing(doc, g))
           /\ \A o : AddRing(AddMaturation(doc, o), g) = AddMaturation(AddRing(doc, g), o)
<1>1. AddRing(doc, g).ring = g /\ g # "none" /\ NoResume.ring = "none"
  BY WatchAssumption DEF AddRing, Resumes, NoResume
<1>2. AddRing(doc, g) # NoResume /\ AddRing(doc, g) = [doc EXCEPT !.ring = g]
  BY <1>1 DEF AddRing
<1>3. AddRing(AddSettlement(doc), g) = AddSettlement(AddRing(doc, g))
  <2>1. AddSettlement(AddRing(doc, g)) =
           [ring |-> g, trust |-> doc.trust + 1, streak |-> doc.streak + 1,
            settled |-> doc.settled + 1, good |-> 0, bad |-> 0]
    BY <1>2 DEF AddSettlement, Resumes
  <2>2. AddRing(AddSettlement(doc), g) =
           [ring |-> g, trust |-> doc.trust + 1, streak |-> doc.streak + 1,
            settled |-> doc.settled + 1, good |-> 0, bad |-> 0]
    BY DEF AddSettlement, AddRing
  <2> QED
    BY <2>1, <2>2
<1>4. ASSUME NEW o
      PROVE  AddRing(AddMaturation(doc, o), g) = AddMaturation(AddRing(doc, g), o)
  <2> DEFINE good == o = "success"
             ring == IF doc = NoResume THEN "L0" ELSE doc.ring
  <2>1. AddMaturation(doc, o) =
           [ring |-> ring, trust |-> IF good THEN doc.trust + 1 ELSE doc.trust - 1,
            streak |-> IF good THEN doc.streak + 1 ELSE 0, settled |-> doc.settled,
            good |-> IF good THEN doc.good + 1 ELSE doc.good,
            bad |-> IF good THEN doc.bad ELSE doc.bad + 1]
    <3>1. CASE doc = NoResume
      BY <3>1 DEF AddMaturation, NoResume, NewResume
    <3>2. CASE doc # NoResume /\ good
      BY <3>2 DEF AddMaturation, Resumes
    <3>3. CASE doc # NoResume /\ ~good
      BY <3>3 DEF AddMaturation, Resumes
    <3> QED
      BY <3>1, <3>2, <3>3
  <2> HIDE DEF ring
  <2>3. AddRing(AddMaturation(doc, o), g) =
           [ring |-> g, trust |-> IF good THEN doc.trust + 1 ELSE doc.trust - 1,
            streak |-> IF good THEN doc.streak + 1 ELSE 0, settled |-> doc.settled,
            good |-> IF good THEN doc.good + 1 ELSE doc.good,
            bad |-> IF good THEN doc.bad ELSE doc.bad + 1]
    BY <2>1 DEF AddRing
  <2>4. AddMaturation(AddRing(doc, g), o) =
           [ring |-> g, trust |-> IF good THEN doc.trust + 1 ELSE doc.trust - 1,
            streak |-> IF good THEN doc.streak + 1 ELSE 0, settled |-> doc.settled,
            good |-> IF good THEN doc.good + 1 ELSE doc.good,
            bad |-> IF good THEN doc.bad ELSE doc.bad + 1]
    <3>1. CASE good
      BY <1>2, <3>1 DEF AddMaturation, Resumes
    <3>2. CASE ~good
      BY <1>2, <3>2 DEF AddMaturation, Resumes
    <3> QED
      BY <3>1, <3>2
  <2> QED
    BY <2>3, <2>4
<1> QED
  BY <1>3, <1>4

LEMMA OverlapsGrow == TypeOK /\ [Next]_vars => overlaps' \in {overlaps, overlaps + 1}
<1> SUFFICES ASSUME TypeOK, [Next]_vars PROVE overlaps' \in {overlaps, overlaps + 1}
  OBVIOUS
<1>1. CASE WriteResume \/ WriteTrust
  BY <1>1 DEF WriteResume, WriteTrust, WriteByPump
<1>2. ASSUME NEW m \in Managers, Request(m) PROVE overlaps' \in {overlaps, overlaps + 1}
  <2>1. CASE AppendRing(m) \/ WriteRing(m)
    BY SMTT(60), <2>1 DEF AppendRing, WriteRing
  <2> QED
    BY <1>2, <2>1 DEF Request, AskRing, ReadForRing, RequestFault, env
<1>3. CASE ~WriteResume /\ ~WriteTrust /\ \A m \in Managers : ~Request(m)
  BY <1>3 DEF Next, Pump, Settlement, Firing, Maturation, Work, NoWork, AppendSettled,
       ProjectRows, ReadResume, AppendRegistered, ProjectWatch, Scan, Fire,
       FlipWatch, Scanned, List, Mature, Matured, SaveEvalCase, ReadTrust,
       AppendDeferred, ProjectDeferred, Deadline, Report, Fault, vars, env
<1> QED
  BY <1>1, <1>2, <1>3

(* Only an appended and a finished request enter and leave the race. *)
LEMMA RacingKept ==
    ASSUME TypeOK, [Next]_vars, NEW i \in Instances,
           \A m \in Managers : ~AppendRing(m) /\ ~WriteRing(m) /\ ~RequestFault(m)
    PROVE  \A m \in Managers : /\ Racing(m, i)' <=> Racing(m, i)
                               /\ Racing(m, i) => request'[m].ring = request[m].ring
<1>1. CASE UNCHANGED request
  BY <1>1 DEF Racing
<1>2. ASSUME NEW n \in Managers, NEW j \in Instances, NEW g \in Rings, AskRing(n, j, g)
      PROVE  \A m \in Managers : /\ Racing(m, i)' <=> Racing(m, i)
                                 /\ Racing(m, i) => request'[m].ring = request[m].ring
  BY <1>2 DEF AskRing, TypeOK, RequestState, Racing
<1>3. ASSUME NEW n \in Managers, ReadForRing(n)
      PROVE  \A m \in Managers : /\ Racing(m, i)' <=> Racing(m, i)
                                 /\ Racing(m, i) => request'[m].ring = request[m].ring
  BY <1>3 DEF ReadForRing, TypeOK, RequestState, Racing
<1>4. CASE \A m \in Managers : ~Request(m)
  <2>1. UNCHANGED request
    BY <1>4 DEF Next, Pump, Settlement, Firing, Maturation, Work, NoWork, AppendSettled,
       ProjectRows, ReadResume, WriteResume, AppendRegistered, ProjectWatch, Scan, Fire,
       FlipWatch, Scanned, List, Mature, Matured, SaveEvalCase, ReadTrust, WriteTrust,
       AppendDeferred, ProjectDeferred, Deadline, Report, Fault, vars, env
  <2> QED
    BY SMTT(60), <1>1, <2>1
<1> QED
  BY <1>2, <1>3, <1>4 DEF Request

(* Of one instance: the copies are the row, one request races, and what is
   written and will be is what is journaled and will be. *)
Exact(i) ==
    /\ \A m \in Managers : Holding(m, i) => request[m].copy = resume[i]
    /\ HeldByPump(i) => pump.copy = resume[i]
    /\ \A m, n \in Managers : Racing(m, i) /\ Racing(n, i) => m = n
    /\ \A m \in Managers : Racing(m, i) => AddRing(Written(i), request[m].ring) = Journaled(i)
    /\ (\A m \in Managers : ~Racing(m, i)) => Written(i) = Journaled(i)

LEMMA ExactStep ==
    TypeOK /\ Grounds /\ MaturesOnce /\ ResumeIsExact /\ [Next]_vars => ResumeIsExact'
<1> SUFFICES ASSUME TypeOK, Grounds, MaturesOnce, ResumeIsExact, [Next]_vars,
                    faults' + overlaps' = 0, NEW i \in Instances
             PROVE  Exact(i)'
  BY DEF ResumeIsExact, Exact
<1> USE DEF env, rows
<1>1. /\ faults = 0 /\ overlaps = 0 /\ faults' = 0 /\ overlaps' = 0
      /\ ~Fault /\ \A m \in Managers : ~RequestFault(m)
  <2>1. /\ faults \in Nat /\ overlaps \in Nat /\ overlaps' \in {overlaps, overlaps + 1}
        /\ faults' = faults \/ faults' = faults + 1
    BY WatchAssumption, FaultsGrow, OverlapsGrow DEF TypeOK
  <2>2. faults = 0 /\ overlaps = 0 /\ faults' = 0 /\ overlaps' = 0
    BY <2>1
  <2> QED
    BY <2>2 DEF Fault, RequestFault
<1>2. Exact(i)
  BY <1>1 DEF ResumeIsExact, Exact
<1>3. /\ Earned(i, journal) \in Resumes /\ resume[i] \in Resumes /\ Written(i) \in Resumes
      /\ \A m \in Managers : request[m].ring \in Rings
  <2>1. Earned(i, journal) \in Resumes /\ resume[i] \in Resumes
    BY EarnedTypes DEF TypeOK
  <2> QED
    BY <2>1, ResumeTypes DEF Written, TypeOK, RequestState
<1>4. ASSUME ~WriteResume, ~WriteTrust, \A m \in Managers : ~WriteRing(m)
      PROVE  /\ UNCHANGED resume
             /\ \A m \in Managers : Holding(m, i)' => request'[m].copy = resume'[i]
             /\ HeldByPump(i)' => pump'.copy = resume'[i]
  BY <1>1, <1>2, <1>4, CopiesKept DEF Exact
<1>5. ASSUME \A m \in Managers : ~AppendRing(m) /\ ~WriteRing(m)
      PROVE  /\ \A m, n \in Managers : Racing(m, i)' /\ Racing(n, i)' => m = n
             /\ \A m \in Managers : /\ Racing(m, i)' <=> Racing(m, i)
                                    /\ Racing(m, i) => request'[m].ring = request[m].ring
  BY <1>1, <1>2, <1>5, RacingKept DEF Exact
<1>6. ASSUME Written(i)' = Written(i), Journaled(i)' = Journaled(i),
             \A m \in Managers : ~AppendRing(m) /\ ~WriteRing(m),
             \A m \in Managers : Holding(m, i)' => request'[m].copy = resume'[i],
             HeldByPump(i)' => pump'.copy = resume'[i]
      PROVE  Exact(i)'
  BY <1>2, <1>5, <1>6 DEF Exact
<1>7. CASE /\ ~AppendSettled /\ ~WriteResume /\ ~WriteTrust /\ ~AppendDeferred
           /\ \A m \in Managers : ~AppendRing(m) /\ ~WriteRing(m)
  <2>1. Journaled(i)' = Journaled(i) /\ (Settling(i)' <=> Settling(i))
    BY <1>1, <1>7, AccountsKept
  <2>2. Written(i)' = Written(i)
    BY <1>4, <1>7, <2>1 DEF Written
  <2> QED
    BY <1>4, <1>6, <1>7, <2>1, <2>2
<1>8. CASE AppendSettled
  <2>1. /\ ~WriteResume /\ ~WriteTrust /\ \A m \in Managers : ~AppendRing(m) /\ ~WriteRing(m)
    <3>1. pump.pc = "settle" /\ pump'.pc = "rows"
      BY <1>8 DEF AppendSettled, At, Goto, TypeOK, PumpState
    <3> QED
      BY <3>1 DEF WriteResume, WriteTrust, At, AppendRing, WriteRing
  <2>2. CASE InstanceOf[pump.run] # i
    <3>1. Journaled(i)' = Journaled(i) /\ Written(i)' = Written(i)
      BY <1>4, <1>8, <2>1, <2>2, SettledEarns DEF Journaled, Written
    <3> QED
      BY <1>4, <1>6, <2>1, <3>1
  <2>3. CASE InstanceOf[pump.run] = i
    <3>1. /\ Journaled(i) = Earned(i, journal)
          /\ Journaled(i)' = AddSettlement(Earned(i, journal))
          /\ Written(i) = resume[i] /\ Written(i)' = AddSettlement(resume[i])
      BY <1>4, <1>8, <2>1, <2>3, SettledEarns DEF Journaled, Written
    <3>2. ASSUME NEW m \in Managers, Racing(m, i)'
          PROVE  AddRing(Written(i)', request'[m].ring) = Journaled(i)'
      <4>1. Racing(m, i) /\ request'[m].ring = request[m].ring
        BY <1>5, <2>1, <3>2
      <4>2. AddRing(resume[i], request[m].ring) = Earned(i, journal)
        BY <1>2, <3>1, <4>1 DEF Exact
      <4> QED
        BY <1>3, <3>1, <4>1, <4>2, RingCommutes
    <3>3. (\A m \in Managers : ~Racing(m, i)') => Written(i)' = Journaled(i)'
      BY <1>2, <1>5, <2>1, <3>1 DEF Exact
    <3> QED
      BY <1>4, <1>5, <2>1, <3>2, <3>3 DEF Exact
  <2> QED
    BY <2>2, <2>3
<1>9. CASE AppendDeferred
  <2>1. /\ ~WriteResume /\ ~WriteTrust /\ \A m \in Managers : ~AppendRing(m) /\ ~WriteRing(m)
    <3>1. pump.pc = "defer" /\ pump'.pc = "promote"
      BY <1>9 DEF AppendDeferred, At, Goto, TypeOK, PumpState
    <3> QED
      BY <3>1 DEF WriteResume, WriteTrust, At, AppendRing, WriteRing
  <2>2. Journaled(i)' = Journaled(i)
    BY <1>9, DeferredEarns DEF Journaled
  <2>3. Written(i)' = Written(i)
    BY <1>4, <1>9, <2>1, DeferredEarns DEF Written
  <2> QED
    BY <1>4, <1>6, <2>1, <2>2, <2>3
<1>10. CASE WriteResume \/ WriteTrust
  <2> DEFINE j == InstanceOf[pump.run]
  <2>1. /\ pump.run \in Runs /\ pump'.run = pump.run /\ UNCHANGED <<journal, request>>
        /\ overlaps' = IF HeldByRequest(j) THEN overlaps + 1 ELSE overlaps
        /\ pump'.pc \notin {"rows", "read", "write", "writeTrust"}
        /\ pump.pc \in {"write", "writeTrust"}
    BY <1>10 DEF WriteResume, WriteTrust, WriteByPump, Leave, At, TypeOK, PumpState
  <2>2. \A m \in Managers : ~AppendRing(m) /\ ~WriteRing(m)
    BY <2>1 DEF AppendRing, WriteRing
  <2>3. ~HeldByRequest(j) /\ ~HeldByPump(i)' /\ ~Settling(i)'
    BY <1>1, <2>1 DEF HeldByPump, Settling
  <2>4. i # j => resume'[i] = resume[i]
    BY <1>10 DEF WriteResume, WriteTrust, WriteByPump, TypeOK
  <2>5. \A m \in Managers : Holding(m, i)' => request'[m].copy = resume'[i]
    BY <1>2, <2>1, <2>3, <2>4 DEF Exact, Holding, HeldByRequest
  <2>6. CASE i # j
    <3>1. Written(i)' = Written(i) /\ Journaled(i)' = Journaled(i)
      BY <2>1, <2>3, <2>4, <2>6 DEF Written, Journaled, Settling, Deferring
    <3> QED
      BY <1>6, <2>2, <2>3, <2>5, <3>1
  <2>7. pump.copy = resume[i] \/ i # j
    BY <1>2, <2>1 DEF Exact, HeldByPump
  <2>8. CASE i = j /\ WriteResume
    <3>1. resume'[i] = AddSettlement(resume[i]) /\ pump.pc = "write" /\ pump'.pc # "defer"
      BY <2>7, <2>8 DEF WriteResume, WriteByPump, Leave, At, TypeOK, PumpState
    <3>2. Written(i)' = Written(i) /\ Journaled(i)' = Journaled(i)
      BY <2>1, <2>3, <2>8, <3>1 DEF Written, Journaled, Settling, Deferring
    <3> QED
      BY <1>6, <2>2, <2>3, <2>5, <3>2
  <2>9. CASE i = j /\ WriteTrust
    <3> DEFINE o == OutcomeOf(pump.run)
    <3>1. resume'[i] = AddMaturation(resume[i], o) /\ pump.pc = "writeTrust" /\ pump'.pc = "defer"
      BY <2>7, <2>9 DEF WriteTrust, WriteByPump, Leave, At, TypeOK, PumpState
    <3>2. OutcomeOf(pump.run)' = o
      BY <2>1 DEF OutcomeOf
    <3>3. Journaled(i)' = AddMaturation(Earned(i, journal), o)
      BY <2>1, <2>9, <3>1, <3>2 DEF Journaled, Deferring
    <3> HIDE DEF o
    <3>4. /\ Written(i) = resume[i] /\ Written(i)' = AddMaturation(resume[i], o)
          /\ Journaled(i) = Earned(i, journal)
      BY <2>3, <3>1 DEF Written, Journaled, Settling, Deferring
    <3>5. ASSUME NEW m \in Managers, Racing(m, i)'
          PROVE  AddRing(Written(i)', request'[m].ring) = Journaled(i)'
      <4>1. Racing(m, i) /\ request'[m].ring = request[m].ring
        BY <1>5, <2>2, <3>5
      <4>2. AddRing(resume[i], request[m].ring) = Earned(i, journal)
        BY <1>2, <3>4, <4>1 DEF Exact
      <4> QED
        BY <1>3, <3>3, <3>4, <4>1, <4>2, RingCommutes
    <3>6. (\A m \in Managers : ~Racing(m, i)') => Written(i)' = Journaled(i)'
      BY <1>2, <1>5, <2>2, <3>3, <3>4 DEF Exact
    <3> QED
      BY <1>5, <2>2, <2>3, <2>5, <3>5, <3>6 DEF Exact
  <2> QED
    BY <1>10, <2>6, <2>8, <2>9
<1>11. ASSUME NEW m \in Managers, AppendRing(m) PROVE Exact(i)'
  <2> DEFINE g == request[m].ring
  <2>1. /\ UNCHANGED <<pump, resume>> /\ request[m].pc = "append" /\ g \in Rings
        /\ request' = [request EXCEPT ![m].pc = "read"]
        /\ Earned(i, journal') = IF request[m].instance = i THEN AddRing(Earned(i, journal), g)
                                 ELSE Earned(i, journal)
    BY <1>11, RingEarns DEF AppendRing
  <2>2. \A n \in Managers : /\ n # m => request'[n] = request[n]
                            /\ request'[n].instance = request[n].instance
                            /\ request'[n].ring = request[n].ring
                            /\ request'[n].copy = request[n].copy
                            /\ Holding(n, i)' => Holding(n, i)
    BY <2>1 DEF TypeOK, RequestState, Holding
  <2>3. request'[m].pc = "read" /\ ~Racing(m, i) /\ (Racing(m, i)' <=> request[m].instance = i)
    BY <2>1 DEF TypeOK, RequestState, Racing
  <2>4. Written(i)' = Written(i)
    BY <2>1 DEF Written, Settling
  <2>5. \A q : Has("fired", q) => OutcomeOf(q)' = OutcomeOf(q)
    BY OutcomeKept
  <2>6. Deferring(i) => Has("fired", pump.run)
    BY DEF Deferring, Grounds
  <2>7. Journaled(i)' = IF request[m].instance = i THEN AddRing(Journaled(i), g) ELSE Journaled(i)
    BY <1>3, <2>1, <2>5, <2>6, RingCommutes DEF Journaled, Deferring
  <2>8. /\ \A n \in Managers : Holding(n, i)' => request'[n].copy = resume'[i]
        /\ HeldByPump(i)' => pump'.copy = resume'[i]
    BY <1>2, <2>1, <2>2 DEF Exact, HeldByPump
  <2> HIDE DEF g
  <2>9. CASE request[m].instance # i
    <3>1. \A n \in Managers : Racing(n, i)' <=> Racing(n, i)
      BY <2>2, <2>3, <2>9 DEF Racing
    <3> QED
      BY <1>2, <2>2, <2>4, <2>7, <2>8, <2>9, <3>1 DEF Exact
  <2>10. CASE request[m].instance = i
    <3>1. \A n \in Managers : ~Racing(n, i)
      <4>1. \A n \in Managers \ {m} : ~ (/\ request[n].pc \in {"read", "write"}
                                         /\ request[n].instance = request[m].instance)
        BY <1>1, <1>11 DEF AppendRing
      <4> QED
        BY <2>3, <2>10, <4>1 DEF Racing
    <3>2. \A n \in Managers : Racing(n, i)' => n = m
      BY <2>2, <3>1 DEF Racing
    <3>3. AddRing(Written(i)', request'[m].ring) = Journaled(i)'
      BY <1>2, <2>2, <2>4, <2>7, <2>10, <3>1 DEF Exact, g
    <3> QED
      BY <2>3, <2>8, <2>10, <3>2, <3>3 DEF Exact
  <2> QED
    BY <2>9, <2>10
<1>12. ASSUME NEW m \in Managers, WriteRing(m) PROVE Exact(i)'
  <2> DEFINE g == request[m].ring
             j == request[m].instance
  <2>1. /\ UNCHANGED <<pump, journal>> /\ request[m].pc = "write" /\ g \in Rings
        /\ request' = [request EXCEPT ![m] = [NoRequest EXCEPT !.pc = "done"]]
        /\ resume' = [resume EXCEPT ![j] = AddRing(request[m].copy, g)]
        /\ ~HeldByPump(j)
        /\ \A n \in Managers \ {m} : ~ (request[n].pc = "write" /\ request[n].instance = j)
    BY <1>1, <1>12 DEF WriteRing, TypeOK, RequestState
  <2>2. /\ \A n \in Managers : n # m => request'[n] = request[n]
        /\ ~Racing(m, i)' /\ ~Holding(m, i)'
    BY <2>1 DEF TypeOK, NoRequest, Racing, Holding
  <2>3. Journaled(i)' = Journaled(i)
    BY <2>1 DEF Journaled, Deferring, OutcomeOf
  <2> HIDE DEF g
  <2>4. CASE i # j
    <3>1. resume'[i] = resume[i] /\ Written(i)' = Written(i)
      BY <2>1, <2>4 DEF TypeOK, Written, Settling
    <3>2. /\ \A n \in Managers : Racing(n, i)' <=> Racing(n, i)
          /\ \A n \in Managers : Racing(n, i)' \/ Holding(n, i)' => request'[n] = request[n]
          /\ \A n \in Managers : Holding(n, i)' => Holding(n, i)
      BY <2>2, <2>4 DEF Racing, Holding
    <3>3. HeldByPump(i)' => HeldByPump(i) /\ pump'.copy = pump.copy
      BY <2>1 DEF HeldByPump
    <3> QED
      BY <1>2, <2>3, <3>1, <3>2, <3>3 DEF Exact
  <2>5. CASE i = j
    <3>1. resume'[i] = AddRing(resume[i], g)
      BY <1>2, <2>1, <2>5 DEF Exact, Holding, TypeOK
    <3>2. \A n \in Managers : ~Racing(n, i)' /\ ~Holding(n, i)'
      BY <1>2, <2>1, <2>2, <2>5 DEF Exact, Racing, Holding
    <3>3. ~HeldByPump(i)'
      BY <2>1, <2>5 DEF HeldByPump
    <3>4. Written(i)' = AddRing(Written(i), g)
      BY <1>3, <2>1, <3>1, RingCommutes DEF Written, Settling
    <3>5. AddRing(Written(i), g) = Journaled(i)
      BY <1>2, <2>1, <2>5 DEF Exact, Racing, g
    <3> QED
      BY <2>3, <3>2, <3>3, <3>4, <3>5 DEF Exact
  <2> QED
    BY <2>4, <2>5
<1> QED
  BY <1>7, <1>8, <1>9, <1>10, <1>11, <1>12

-----------------------------------------------------------------------------
(* The invariant is inductive *)

LEMMA InitAccounts == Init => RowsKeepUp /\ QueueIsTrue /\ TrustIsNear /\ ResumeIsExact
<1> SUFFICES ASSUME Init PROVE RowsKeepUp /\ QueueIsTrue /\ TrustIsNear /\ ResumeIsExact
  OBVIOUS
<1>1. /\ journal = <<>> /\ pump.pc = "work" /\ faults = 0 /\ overlaps = 0
      /\ \A r \in Runs : fact[r] = "none" /\ watch[r] = "none"
      /\ \A i \in Instances : resume[i] = NoResume
      /\ \A m \in Managers : request[m].pc = "idle"
  BY DEF Init, NoRequest
<1>2. RowsKeepUp
  <2>1. \A r \in Watched : Rebuilt(r, NoRow, journal) = NoRow
    BY <1>1, RebuiltEmpty
  <2>2. \A r \in Watched : RowAhead(r) = NoRow
    BY <1>1, WatchAssumption DEF RowAhead, RowOf, NoRow
  <2> QED
    BY <2>1, <2>2 DEF RowsKeepUp
<1>3. QueueIsTrue
  BY <1>1 DEF QueueIsTrue, SettlePcs
<1>4. ASSUME NEW i \in Instances
      PROVE  /\ ~Settling(i) /\ ~Deferring(i) /\ ~HeldByPump(i)
             /\ \A m \in Managers : ~Holding(m, i) /\ ~Racing(m, i)
             /\ Earned(i, journal) = NoResume /\ resume[i] = NoResume
  <2>1. Earned(i, journal) = NoResume
    BY <1>1, EarnedEmpty
  <2> QED
    BY <1>1, <2>1 DEF Settling, Deferring, HeldByPump, Holding, Racing
<1>5. TrustIsNear
  <2>1. ASSUME NEW i \in Instances PROVE Near(resume[i].trust, i)
    <3>1. Owed(i) = 0 /\ resume[i].trust = 0
      BY <1>4 DEF Owed, NoResume
    <3> QED
      BY <1>1, <3>1 DEF Near, Distance
  <2> QED
    BY <1>4, <2>1 DEF TrustIsNear
<1>6. ResumeIsExact
  BY <1>4 DEF ResumeIsExact, Written, Journaled
<1> QED
  BY <1>2, <1>3, <1>5, <1>6

LEMMA InitIInv == Init => IInv
BY InitTypes, InitGrounds, InitRebuild, InitAccounts DEF IInv

LEMMA GroundsStep == TypeOK /\ Grounds /\ [Next]_vars => Grounds'
<1> SUFFICES ASSUME TypeOK, Grounds, [Next]_vars PROVE Grounds'
  OBVIOUS
<1>1. CASE UNCHANGED journal
  BY <1>1, GroundsKept
<1>2. ASSUME NEW e \in Events, Record(e) PROVE Grounds'
  BY <1>2, GroundsGrow
<1> QED
  BY <1>1, <1>2, JournalStep

LEMMA InductiveStep == IInv /\ [Next]_vars => IInv'
<1> SUFFICES ASSUME IInv, [Next]_vars PROVE IInv'
  OBVIOUS
<1>1. /\ TypeOK /\ Grounds /\ MaturesOnce /\ RebuildForgets /\ RowsKeepUp
      /\ QueueIsTrue /\ TrustIsNear /\ ResumeIsExact
  BY DEF IInv
<1>2. TypeOK' /\ Grounds'
  BY <1>1, TypeStep, GroundsStep
<1>3. MaturesOnce'
  BY <1>1, MaturesOnceStep
<1>4. RebuildForgets'
  BY <1>1, RebuildStep
<1>5. RowsKeepUp' /\ QueueIsTrue'
  BY <1>1, RowsStep, QueueStep
<1>6. TrustIsNear' /\ ResumeIsExact'
  BY <1>1, TrustStep, ExactStep
<1> QED
  BY <1>2, <1>3, <1>4, <1>5, <1>6 DEF IInv

LEMMA IInvHolds == Spec => []IInv
<1>1. Init => IInv
  BY InitIInv
<1>2. IInv /\ [Next]_vars => IInv'
  BY InductiveStep
<1> QED
  BY <1>1, <1>2, PTL DEF Spec

(* Of an instance nobody is writing, what is owed is what is journaled, and
   what is written is the row. *)
LEMMA ResumeFollows == TypeOK /\ Grounds /\ TrustIsNear /\ ResumeIsExact => ResumeFollowsJournal
<1> SUFFICES ASSUME TypeOK, Grounds, TrustIsNear, ResumeIsExact,
                    NEW i \in Instances, Quiet(i)
             PROVE  /\ Distance(resume[i].trust, Earned(i, journal).trust) <= faults + overlaps
                    /\ faults + overlaps = 0 => resume[i] = Earned(i, journal)
  BY DEF ResumeFollowsJournal
<1>1. ~Settling(i) /\ ~Deferring(i) /\ \A m \in Managers : ~Racing(m, i)
  BY DEF Quiet, Settling, Deferring, Racing
<1>2. Earned(i, journal).trust \in Int
  BY EarnedTypes DEF TypeOK, Resumes
<1>3. Owed(i) = Earned(i, journal).trust
  BY <1>1, <1>2 DEF Owed
<1>4. Distance(resume[i].trust, Owed(i)) <= faults + overlaps
  BY DEF TrustIsNear, Near
<1>5. Written(i) = resume[i] /\ Journaled(i) = Earned(i, journal)
  BY <1>1 DEF Written, Journaled
<1>6. faults + overlaps = 0 => Written(i) = Journaled(i)
  BY <1>1 DEF ResumeIsExact
<1> QED
  BY <1>3, <1>4, <1>5, <1>6

-----------------------------------------------------------------------------
(* The theorems *)

(* Every variable keeps its type, for any number of runs and requests. *)
THEOREM TypeCorrect == Spec => []TypeOK
<1>1. IInv => TypeOK
  BY DEF IInv
<1> QED
  BY <1>1, IInvHolds, PTL

(* WatchMaturationWorker fires a run's watch once and matures the run once,
   after its RunSettled and with its EvalCase stored, whatever is claimed
   again, scanned again, reported from outside or cut off between two writes. *)
THEOREM WatchesMatureOnce == Spec => []MaturesOnce
<1>1. IInv => MaturesOnce
  BY DEF IInv
<1> QED
  BY <1>1, IInvHolds, PTL

(* Until an await has failed, the heap and watch rows that the projectors
   wrote one event at a time are those a rebuild folds from the journal, with
   nothing to start from or over the rows already there. *)
THEOREM RowsFollowTheJournal == Spec => []RowsAreTheFold
<1>1. IInv => RowsAreTheFold
  BY RowsFollow DEF IInv
<1> QED
  BY <1>1, IInvHolds, PTL

(* The resume of an instance nobody is writing is what its journal earned:
   exactly, until an await has failed or two read-modify-writes overlapped;
   and each of those costs its trust one update at most. *)
THEOREM ResumesFollowTheJournal == Spec => []ResumeFollowsJournal
<1>1. IInv => ResumeFollowsJournal
  BY ResumeFollows DEF IInv
<1> QED
  BY <1>1, IInvHolds, PTL
=============================================================================
