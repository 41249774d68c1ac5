-------------------------- MODULE OperatorProofs ---------------------------
(***************************************************************************)
(* The operator API, for any types, instances, runs, managers and limits:     *)
(* what a promotion rests on and what races may replace (Catalog), and the    *)
(* run list shows what the page of a run shows (Console).                     *)
(***************************************************************************)
EXTENDS Catalog, Console, FiniteSetTheorems, WellFoundedInduction, TLAPS

-----------------------------------------------------------------------------
(* The catalog and its promotions *)

Ops == {"none", "publish", "swarm", "promote", "instantiate", "trigger"}
Ats == {"idle", "get", "find", "upsert", "type", "grade", "gather", "known", "instance", "store",
        "row", "bind"}
Command0 == [op : Ops, at : Ats, type : Docs, ref : Refs, inst : Instances \cup {"none"},
             ring : Rings \cup {0}]

(* What no step takes back: a document goes only with its ref raced, an id stays   *)
(* taken, evidence is never withdrawn, and an instance is bound to another ref    *)
(* only if that is raced.                                                    *)
Lasts ==
    /\ raced \subseteq raced' /\ cases \subseteq cases'
    /\ \A s \in types : s \in types' \/ s.ref \in raced'
    /\ \A s \in types : \E u \in types' : u.id = s.id
    /\ \A i \in DOMAIN instances :
          /\ i \in DOMAIN instances'
          /\ instances'[i].ref = instances[i].ref \/ instances'[i].ref \in raced'

(* The catalog an earlier process left, or the seeded one, satisfies the invariant. *)
LEMMA InitInv == Init => IInv
<1> SUFFICES ASSUME Init PROVE IInv
  OBVIOUS
<1>1. Canonical \in Docs /\ Canonical \in Published /\ Canonical.ref \in Refs
  BY CatalogAssumption DEF Published, Refs
<1>2. types \subseteq Published /\ OneOfAVersion(types)
  BY CatalogAssumption DEF Init, Published
<1>3. TypeOK
  BY <1>1, <1>2, CatalogAssumption DEF Init, TypeOK, Idle
<1>4. TypesArePublished /\ CasesAreGraded /\ RunsItsType /\ PromotedAreRegistered
  BY <1>2 DEF Init, TypesArePublished, CasesAreGraded, RunsItsType, PromotedAreRegistered
<1>5. ReadsWereEmpty /\ \A r \in Requests : Knows(request[r])
  BY DEF Init, ReadsWereEmpty, OnlyLater, Knows, Idle
<1> QED
  BY <1>2, <1>3, <1>4, <1>5 DEF IInv

(* What a case is of, it stays of. *)
LEMMA IsOfLasts == ASSUME Lasts, NEW content, NEW ref, IsOf(content, ref) PROVE IsOf(content, ref)'
BY DEF Lasts, IsOf

(* A gate that was passed stays passed. *)
LEMMA GatesStayOpen ==
    ASSUME Lasts, NEW ref, NEW ring, Allowed(CasesOf(ref), ring)
    PROVE  Allowed(CasesOf(ref), ring)'
BY DEF Lasts, Allowed, CanaryGate, PromotionGate, CasesOf, Passed

(* What a request remembers outlives the steps of the others. *)
LEMMA KnowledgeLasts == ASSUME Lasts, NEW q, Knows(q) PROVE Knows(q)'
<1>1. q.op = "promote" /\ q.at # "gather" => Allowed(CasesOf(q.ref), q.ring)'
  BY GatesStayOpen DEF Knows
<1>2. \A ref : WithRef(ref) # {} \/ ref \in raced => WithRef(ref)' # {} \/ ref \in raced'
  BY DEF WithRef, Lasts
<1>3. \A id : WithId(id) # {} => WithId(id)' # {}
  BY DEF WithId, Lasts
<1>4. \A content, ref : IsOf(content, ref) => IsOf(content, ref)'
  BY IsOfLasts
<1>5. CASE q.op = "trigger"
  <2>1. q.at # "row" => q.inst \in DOMAIN instances'
                       /\ (instances'[q.inst].ref = q.ref \/ instances'[q.inst].ref \in raced')
    BY <1>5 DEF Knows, Lasts
  <2> QED
    BY <1>3, <1>4, <1>5, <2>1 DEF Knows
<1>6. CASE q.op = "instantiate"
  BY <1>2, <1>6 DEF Knows, Lasts
<1>7. CASE q.op \notin {"trigger", "instantiate"}
  BY <1>1, <1>4, <1>7 DEF Knows
<1> QED
  BY <1>5, <1>6, <1>7

(* One request's step: the others know what they knew. *)
LEMMA OneRequestSteps ==
    ASSUME IInv, Lasts, NEW r \in Requests, NEW q, request' = [request EXCEPT ![r] = q], Knows(q)
    PROVE  \A s \in Requests : Knows(request[s])'
<1> SUFFICES ASSUME NEW s \in Requests PROVE Knows(request[s])'
  OBVIOUS
<1>1. PICK p : p = IF s = r THEN q ELSE request[s]
  OBVIOUS
<1>2. request'[s] = p /\ Knows(p)
  BY <1>1 DEF IInv, TypeOK
<1>3. Knows(p)'
  BY <1>2, KnowledgeLasts
<1> QED
  BY <1>2, <1>3 DEF Knows, WithRef, WithId, IsOf, CasesOf, Allowed, CanaryGate, PromotionGate, Passed

(* What the invariant says of the evidence, the work and the promotions that are   *)
(* there outlives any step.                                                  *)
LEMMA OldStands ==
    ASSUME IInv, Lasts
    PROVE  /\ \A c \in cases : IsOf(c.graded, c.ref)'
           /\ \A w \in work : IsOf(w.type.content, w.ref)'
           /\ \A p \in promoted : /\ Allowed(CasesOf(p.ref), p.ring)'
                                  /\ p.type \in types' \/ p.type.ref \in raced'
<1>1. \A p \in promoted : Allowed(CasesOf(p.ref), p.ring)'
  BY GatesStayOpen DEF IInv, PromotedAreRegistered
<1>2. \A p \in promoted : p.type \in types' \/ p.type.ref \in raced'
  BY DEF IInv, PromotedAreRegistered, Lasts
<1>3. \A c \in cases : IsOf(c.graded, c.ref)'
  BY IsOfLasts DEF IInv, CasesAreGraded
<1>4. \A w \in work : IsOf(w.type.content, w.ref)'
  BY IsOfLasts DEF IInv, RunsItsType
<1> QED
  BY <1>1, <1>2, <1>3, <1>4

(* What the registrations in progress have read. *)
LEMMA OthersRead ==
    ASSUME IInv, NEW r \in Requests, NEW q, request' = [request EXCEPT ![r] = q],
           types' = types, OnlyLater(q, missed'[r]),
           \A s \in Requests \ {r} : missed'[s] = missed[s]
    PROVE  ReadsWereEmpty'
<1> SUFFICES ASSUME NEW s \in Requests PROVE OnlyLater(request[s], missed[s])'
  BY DEF ReadsWereEmpty
<1>1. CASE s = r
  BY <1>1 DEF IInv, TypeOK, OnlyLater, WithId, WithRef
<1>2. CASE s # r
  BY <1>2 DEF IInv, TypeOK, ReadsWereEmpty, OnlyLater, WithId, WithRef
<1> QED
  BY <1>1, <1>2

(* A step that leaves the catalog alone, whatever it does to the instances, the   *)
(* work and the cases.                                                       *)
LEMMA RestMoves ==
    ASSUME IInv, Lasts, TypeOK', NEW r \in Requests, NEW q, Knows(q),
           request' = [request EXCEPT ![r] = q], q.at \notin {"find", "upsert"},
           UNCHANGED <<types, promoted, missed>>, CasesAreGraded', RunsItsType'
    PROVE  IInv'
<1>1. \A s \in Requests : Knows(request[s])'
  BY OneRequestSteps
<1>2. ReadsWereEmpty'
  BY OthersRead DEF OnlyLater
<1>3. TypesArePublished' /\ OneOfAVersion(types)'
  BY DEF IInv, TypesArePublished, OneOfAVersion, Lasts
<1>4. PromotedAreRegistered'
  BY OldStands DEF PromotedAreRegistered
<1> QED
  BY <1>1, <1>2, <1>3, <1>4 DEF IInv

(* A step that changes nothing but one request. *)
LEMMA RequestMoves ==
    ASSUME IInv, NEW r \in Requests, NEW q \in Command0, Knows(q),
           request' = [request EXCEPT ![r] = q], commands' \in 0..MaxCommands,
           missed' \in [Requests -> SUBSET Docs], OnlyLater(q, missed'[r]),
           \A s \in Requests \ {r} : missed'[s] = missed[s],
           UNCHANGED <<types, instances, cases, work, promoted, raced>>
    PROVE  IInv'
<1>1. Lasts
  BY DEF Lasts
<1>2. TypeOK'
  BY DEF IInv, TypeOK, Command0, Ops, Ats
<1>3. \A s \in Requests : Knows(request[s])'
  BY <1>1, OneRequestSteps
<1>4. ReadsWereEmpty'
  BY OthersRead
<1>5. TypesArePublished' /\ OneOfAVersion(types)'
  BY DEF IInv, TypesArePublished, OneOfAVersion
<1>6. CasesAreGraded' /\ RunsItsType' /\ PromotedAreRegistered'
  BY <1>1, OldStands DEF CasesAreGraded, RunsItsType, PromotedAreRegistered
<1> QED
  BY <1>2, <1>3, <1>4, <1>5, <1>6 DEF IInv

(* Idle requests know nothing. *)
LEMMA IdleKnows == Idle \in Command0 /\ Knows(Idle)
BY CatalogAssumption DEF Idle, Command0, Ops, Ats, Knows, Published, Refs

(* A command that is known, and has read nothing, is taken by an idle request. *)
LEMMA AskMoves ==
    ASSUME IInv, NEW r \in Requests, NEW q \in Command0, Knows(q), Ask(r, q),
           q.at \notin {"find", "upsert"}
    PROVE  IInv'
<1>1. commands' \in 0..MaxCommands
  BY CatalogAssumption DEF Ask, IInv, TypeOK
<1>2. /\ request' = [request EXCEPT ![r] = q]
      /\ UNCHANGED <<types, instances, cases, work, promoted, missed, raced>>
  BY DEF Ask
<1>3. missed' \in [Requests -> SUBSET Docs] /\ OnlyLater(q, missed'[r])
  BY <1>2 DEF IInv, TypeOK, OnlyLater
<1> QED
  BY <1>1, <1>2, <1>3, RequestMoves

(* A command arrives: a request that is idle holds what was asked. *)
LEMMA CommandsAreKnown == ASSUME IInv, NEW r \in Requests, Command(r) PROVE IInv'
<1> USE DEF Command0, Ops, Ats, Knows
<1>1. CASE Publish(r)
  <2>1. PICK t \in Published : Ask(r, [Idle EXCEPT !.op = "publish", !.at = "get", !.type = t])
    BY <1>1 DEF Publish
  <2> DEFINE q == [Idle EXCEPT !.op = "publish", !.at = "get", !.type = t]
  <2>2. q \in Command0 /\ Knows(q) /\ q.at \notin {"find", "upsert"}
    BY IdleKnows, CatalogAssumption DEF Idle
  <2>4. Ask(r, q)
    BY <2>1
  <2> HIDE DEF q, Command0, Knows
  <2> QED
    BY <2>2, <2>4, AskMoves
<1>2. CASE Swarm(r)
  <2>1. PICK ref \in Refs : Ask(r, [Idle EXCEPT !.op = "swarm", !.at = "type", !.ref = ref])
    BY <1>2 DEF Swarm
  <2> DEFINE q == [Idle EXCEPT !.op = "swarm", !.at = "type", !.ref = ref]
  <2>2. q \in Command0 /\ Knows(q) /\ q.at \notin {"find", "upsert"}
    BY IdleKnows DEF Idle
  <2>4. Ask(r, q)
    BY <2>1
  <2> HIDE DEF q, Command0, Knows
  <2> QED
    BY <2>2, <2>4, AskMoves
<1>3. CASE Promote(r)
  <2>1. PICK candidate \in Candidates, ring \in Rings :
           Ask(r, [Idle EXCEPT !.op = "promote", !.at = "gather", !.ring = ring,
                               !.ref = candidate.ref, !.type = candidate.type])
    BY <1>3 DEF Promote
  <2> DEFINE q == [Idle EXCEPT !.op = "promote", !.at = "gather", !.ring = ring,
                               !.ref = candidate.ref, !.type = candidate.type]
  <2>1a. candidate.ref \in Refs /\ candidate.type \in Published
    BY CatalogAssumption
  <2>2. q \in Command0 /\ Knows(q) /\ q.at \notin {"find", "upsert"}
    BY <2>1a, IdleKnows, CatalogAssumption DEF Idle
  <2>4. Ask(r, q)
    BY <2>1
  <2> HIDE DEF q, Command0, Knows
  <2> QED
    BY <2>2, <2>4, AskMoves
<1>4. CASE Instantiate(r)
  <2>1. PICK i \in Instances, ref \in Refs, ring \in Rings, target \in Targets \cup {Default} :
           Ask(r, [Idle EXCEPT !.op = "instantiate", !.at = "type", !.ref = ref, !.inst = i,
                               !.ring = ring, !.type.target = target])
    BY <1>4 DEF Instantiate
  <2> DEFINE q == [Idle EXCEPT !.op = "instantiate", !.at = "type", !.ref = ref, !.inst = i,
                               !.ring = ring, !.type.target = target]
  <2>2. q \in Command0 /\ Knows(q) /\ q.at \notin {"find", "upsert"}
    BY IdleKnows DEF Idle, Docs
  <2>4. Ask(r, q)
    BY <2>1
  <2> HIDE DEF q, Command0, Knows
  <2> QED
    BY <2>2, <2>4, AskMoves
<1>5. CASE Trigger(r)
  <2>1. PICK i \in Instances, target \in Targets \cup {Default} :
           Ask(r, [Idle EXCEPT !.op = "trigger", !.at = "row", !.inst = i, !.type.target = target])
    BY <1>5 DEF Trigger
  <2> DEFINE q == [Idle EXCEPT !.op = "trigger", !.at = "row", !.inst = i, !.type.target = target]
  <2>2. q \in Command0 /\ Knows(q) /\ q.at \notin {"find", "upsert"}
    BY IdleKnows DEF Idle, Docs
  <2>4. Ask(r, q)
    BY <2>1
  <2> HIDE DEF q, Command0, Knows
  <2> QED
    BY <2>2, <2>4, AskMoves
<1> QED
  BY <1>1, <1>2, <1>3, <1>4, <1>5 DEF Command

(* What a request in progress is. *)
LEMMA RequestIsKnown ==
    ASSUME IInv, NEW r \in Requests
    PROVE  request[r] \in Command0 /\ Knows(request[r]) /\ OnlyLater(request[r], missed[r])
BY DEF IInv, TypeOK, Command0, Ops, Ats, ReadsWereEmpty

(* A command that is over. *)
LEMMA ReturnMoves ==
    ASSUME IInv, NEW r \in Requests, Return(r),
           missed' = missed \/ missed' = [missed EXCEPT ![r] = {}],
           UNCHANGED <<types, instances, cases, work, promoted, commands, raced>>
    PROVE  IInv'
<1>1. missed' \in [Requests -> SUBSET Docs] /\ \A s \in Requests \ {r} : missed'[s] = missed[s]
  BY DEF IInv, TypeOK
<1>2. \A later : OnlyLater(Idle, later)
  BY DEF OnlyLater, Idle
<1> QED
  BY <1>1, <1>2, RequestMoves, IdleKnows DEF Return, IInv, TypeOK

(* A command that goes on. *)
LEMMA GotoMoves ==
    ASSUME IInv, NEW r \in Requests, NEW at \in Ats, Goto(r, at),
           Knows([request[r] EXCEPT !.at = at]), OnlyLater([request[r] EXCEPT !.at = at], missed'[r]),
           missed' = missed \/ missed' = [missed EXCEPT ![r] = {}],
           UNCHANGED <<types, instances, cases, work, promoted, commands, raced>>
    PROVE  IInv'
<1>1. PICK q : q = [request[r] EXCEPT !.at = at]
  OBVIOUS
<1>2. q \in Command0
  BY <1>1, RequestIsKnown DEF Command0
<1>3. request' = [request EXCEPT ![r] = q]
  BY <1>1, RequestIsKnown DEF Goto, IInv, TypeOK
<1>4. commands' \in 0..MaxCommands /\ missed' \in [Requests -> SUBSET Docs]
      /\ \A s \in Requests \ {r} : missed'[s] = missed[s]
  BY DEF IInv, TypeOK
<1> QED
  BY <1>1, <1>2, <1>3, <1>4, RequestMoves

(* register_type ends with its type in the catalog: a candidate that is promoted    *)
(* now passed its gate on the cases of the ref in its file.                    *)
LEMMA RegisteredMoves ==
    ASSUME IInv, Lasts, NEW r \in Requests, request[r].at \in {"get", "find", "upsert"}, Registered(r),
           request[r].type \in types', types' \subseteq Docs, raced' \subseteq Refs,
           TypesArePublished', OneOfAVersion(types'), ReadsWereEmpty',
           missed' \in [Requests -> SUBSET Docs], UNCHANGED <<instances, cases, work, commands>>
    PROVE  IInv'
<1>0. PICK q : q = request[r]
  OBVIOUS
<1> DEFINE p == [ref |-> q.ref, type |-> q.type, ring |-> q.ring]
<1>1. q \in Command0 /\ Knows(q) /\ q.type \in types' /\ q.at \in {"get", "find", "upsert"}
  BY <1>0, RequestIsKnown
<1>2. PICK next \in Command0 : Knows(next) /\ request' = [request EXCEPT ![r] = next]
  <2>1. CASE q.op = "trigger"
    <3>1. PICK next : next = [q EXCEPT !.at = "bind"]
      OBVIOUS
    <3>2. next \in Command0 /\ Knows(next)
      BY <1>1, <2>1, <3>1 DEF Knows, Command0, Ats
    <3>3. request' = [request EXCEPT ![r] = next]
      BY <1>0, <1>1, <2>1, <3>1 DEF Registered, Goto, IInv, TypeOK
    <3> QED
      BY <3>2, <3>3
  <2>2. CASE q.op # "trigger"
    BY <1>0, <2>2, IdleKnows DEF Registered, Return
  <2> QED
    BY <2>1, <2>2
<1>3. \A s \in Requests : Knows(request[s])'
  BY <1>2, OneRequestSteps
<1>4. \A o \in promoted' : o \in promoted \/ (o = p /\ q.op = "promote")
  <2>1. promoted' = promoted \cup (IF q.op = "promote" THEN {p} ELSE {})
    BY <1>0 DEF Registered
  <2> QED
    BY <2>1
<1>5. q.op = "promote" => /\ q.type \in Published /\ q.ring \in Rings /\ q.ref \in Refs
                          /\ Allowed(CasesOf(q.ref), q.ring)
  BY <1>1 DEF Knows, Command0
<1>6. TypeOK'
  <2>1. promoted' \subseteq [ref : Refs, type : Published, ring : Rings]
    BY <1>4, <1>5 DEF IInv, TypeOK
  <2>2. request' \in [Requests -> Command0]
    BY <1>2 DEF IInv, TypeOK, Command0, Ops, Ats
  <2> QED
    BY <2>1, <2>2 DEF IInv, TypeOK, Command0, Ops, Ats
<1>7. CasesAreGraded' /\ RunsItsType'
  BY OldStands DEF CasesAreGraded, RunsItsType
<1>8. PromotedAreRegistered'
  <2>1. ASSUME q.op = "promote" PROVE Allowed(CasesOf(p.ref), p.ring)'
    BY <1>5, <2>1, GatesStayOpen
  <2> SUFFICES ASSUME NEW o \in promoted'
               PROVE  Allowed(CasesOf(o.ref), o.ring)' /\ (o.type \in types' \/ o.type.ref \in raced')
    BY DEF PromotedAreRegistered
  <2>2. CASE o \in promoted
    BY <2>2, OldStands
  <2>3. CASE o = p /\ q.op = "promote"
    BY <1>1, <2>1, <2>3
  <2> QED
    BY <1>4, <2>2, <2>3
<1> QED
  BY <1>3, <1>6, <1>7, <1>8 DEF IInv, OneOfAVersion

(* A read of register_type that finds nothing goes on. *)
LEMMA EmptyReadMoves ==
    ASSUME IInv, NEW r \in Requests, NEW found, NEW next \in Ats, Compare(r, found, next), found = {},
           Knows([request[r] EXCEPT !.at = next]), OnlyLater([request[r] EXCEPT !.at = next], missed[r])
    PROVE  IInv'
<1>1. Goto(r, next) /\ UNCHANGED <<types, instances, cases, work, promoted, commands, missed, raced>>
  BY DEF Compare
<1> QED
  BY <1>1, GotoMoves

(* One that finds a document ends the registration; a conflict lets a trigger go on   *)
(* with its merged type, nothing else.                                         *)
LEMMA FullReadMoves ==
    ASSUME IInv, NEW r \in Requests, NEW found, found \subseteq types, NEW next,
           Compare(r, found, next), found # {}, request[r].at \in {"get", "find"}
    PROVE  IInv'
<1>1. UNCHANGED <<types, instances, cases, work, commands, raced>> /\ missed' = [missed EXCEPT ![r] = {}]
  BY DEF Compare
<1>2. missed' \in [Requests -> SUBSET Docs] /\ Lasts
  BY <1>1 DEF IInv, TypeOK, Lasts
<1>3. PICK q : q = request[r]
  OBVIOUS
<1>4. q \in Command0 /\ Knows(q) /\ q.at \in {"get", "find"}
  BY <1>3, RequestIsKnown
<1>5. CASE request[r].type \in found
  <2>1. Registered(r)
    BY <1>5 DEF Compare
  <2>2. \E n : request' = [request EXCEPT ![r] = n] /\ n.at \notin {"find", "upsert"}
    <3>1. CASE q.op = "trigger"
      <4>1. PICK n : n = [q EXCEPT !.at = "bind"]
        OBVIOUS
      <4>2. n.at = "bind" /\ request' = [request EXCEPT ![r] = n]
        BY <1>3, <1>4, <2>1, <3>1, <4>1 DEF Registered, Goto, Command0, IInv, TypeOK
      <4> QED
        BY <4>2
    <3>2. CASE q.op # "trigger"
      BY <1>3, <2>1, <3>2 DEF Registered, Return, Idle
    <3> QED
      BY <3>1, <3>2
  <2>3. ReadsWereEmpty'
    BY <1>1, <2>2, OthersRead DEF OnlyLater, IInv, TypeOK
  <2>4. /\ types' \subseteq Docs /\ raced' \subseteq Refs /\ TypesArePublished' /\ OneOfAVersion(types')
        /\ request[r].type \in types'
    BY <1>1, <1>5 DEF IInv, TypeOK, TypesArePublished, OneOfAVersion
  <2> QED
    BY <1>1, <1>2, <2>1, <2>3, <2>4, RegisteredMoves
<1>6. CASE request[r].type \notin found /\ q.op = "trigger"
  <2>1. Goto(r, "bind") /\ UNCHANGED promoted
    BY <1>3, <1>6 DEF Compare, Conflict
  <2>2. PICK n : n = [q EXCEPT !.at = "bind"]
    OBVIOUS
  <2>3. n.op = q.op /\ n.at = "bind" /\ n.type = q.type /\ n.ref = q.ref /\ n.inst = q.inst
    BY <1>4, <2>2 DEF Command0
  <2>4. Knows(n) /\ OnlyLater(n, missed'[r])
    BY <1>4, <1>6, <2>3 DEF Knows, OnlyLater
  <2> QED
    BY <1>1, <1>3, <2>1, <2>2, <2>4, GotoMoves DEF Ats
<1>7. CASE request[r].type \notin found /\ q.op # "trigger"
  BY <1>1, <1>3, <1>7, ReturnMoves DEF Compare, Conflict
<1> QED
  BY <1>5, <1>6, <1>7

(* The first read, by id: a trigger ends here, since what it runs has the id of a   *)
(* registered type.                                                          *)
LEMMA GetMoves == ASSUME IInv, NEW r \in Requests, Get(r) PROVE IInv'
<1>1. PICK q, found : q = request[r] /\ found = WithId(request[r].type.id)
  OBVIOUS
<1>2. q \in Command0 /\ Knows(q) /\ q.at = "get" /\ Compare(r, found, "find")
  BY <1>1, RequestIsKnown DEF Get
<1>3. CASE found = {}
  <2>1. PICK n : n = [q EXCEPT !.at = "find"]
    OBVIOUS
  <2>2. /\ n.op = q.op /\ n.at = "find" /\ n.type = q.type /\ n.ref = q.ref /\ n.inst = q.inst
        /\ n.ring = q.ring
    BY <1>2, <2>1 DEF Command0
  <2>3. q.op # "trigger"
    BY <1>1, <1>2, <1>3 DEF Knows
  <2>4. Knows(n)
    BY <1>2, <2>2, <2>3 DEF Knows
  <2>5. OnlyLater(n, missed[r])
    BY <1>1, <1>3, <2>2 DEF OnlyLater
  <2> QED
    BY <1>1, <1>2, <1>3, <2>1, <2>4, <2>5, EmptyReadMoves DEF Ats
<1>4. CASE found # {}
  BY <1>1, <1>2, <1>4, FullReadMoves DEF WithId
<1> QED
  BY <1>3, <1>4

(* The second read, by version: an override that finds its parent gone goes on,     *)
(* and then the version is raced.                                             *)
LEMMA FindMoves == ASSUME IInv, NEW r \in Requests, Find(r) PROVE IInv'
<1>1. PICK q, found : q = request[r] /\ found = WithRef(request[r].type.ref)
  OBVIOUS
<1>2. /\ q \in Command0 /\ Knows(q) /\ q.at = "find" /\ Compare(r, found, "upsert")
      /\ WithId(q.type.id) \subseteq missed[r]
  BY <1>1, RequestIsKnown DEF Find, OnlyLater
<1>3. CASE found = {}
  <2>1. PICK n : n = [q EXCEPT !.at = "upsert"]
    OBVIOUS
  <2>2. /\ n.op = q.op /\ n.at = "upsert" /\ n.type = q.type /\ n.ref = q.ref /\ n.inst = q.inst
        /\ n.ring = q.ring
    BY <1>2, <2>1 DEF Command0
  <2>3. q.op = "instantiate" => q.ref \in raced
    BY <1>1, <1>2, <1>3 DEF Knows
  <2>4. Knows(n)
    BY <1>2, <2>2, <2>3 DEF Knows
  <2>5. OnlyLater(n, missed[r])
    BY <1>1, <1>2, <1>3, <2>2 DEF OnlyLater
  <2> QED
    BY <1>1, <1>2, <1>3, <2>1, <2>4, <2>5, EmptyReadMoves DEF Ats
<1>4. CASE found # {}
  BY <1>1, <1>2, <1>4, FullReadMoves DEF WithRef
<1> QED
  BY <1>3, <1>4

(* The write: refused by the index, or a document in the place of those of its id,  *)
(* which all came after the reads.                                            *)
LEMMA UpsertMoves == ASSUME IInv, NEW r \in Requests, Upsert(r) PROVE IInv'
<1>0. PICK q, t : q = request[r] /\ t = request[r].type
  OBVIOUS
<1>1. /\ q.at = "upsert" /\ UNCHANGED <<instances, cases, work, commands>>
      /\ q \in Command0 /\ Knows(q) /\ t = q.type /\ t \in Docs
  BY <1>0, RequestIsKnown DEF Upsert, Command0
<1>2. CASE \E s \in WithRef(t.ref) : s.id # t.id
  BY <1>0, <1>1, <1>2, ReturnMoves DEF Upsert
<1>3. CASE ~\E s \in WithRef(t.ref) : s.id # t.id
  <2>1. /\ types' = {s \in types : s.id # t.id} \cup {t}
        /\ Registered(r)
        /\ missed' = [s \in Requests |-> IF s = r THEN {} ELSE
              missed[s] \cup {d \in {t} : request[s].at \in {"find", "upsert"}}]
        /\ raced' = raced \cup {s.ref : s \in types \ types'}
    BY <1>0, <1>3 DEF Upsert
  <2>2. Lasts
    BY <1>1, <2>1 DEF Lasts
  <2>3. types' \subseteq Docs /\ raced' \subseteq Refs /\ missed' \in [Requests -> SUBSET Docs]
    BY <1>1, <2>1 DEF IInv, TypeOK, Docs
  <2>4. OneOfAVersion(types')
    BY <1>3, <2>1 DEF IInv, OneOfAVersion, WithRef
  <2>5. TypesArePublished'
    <3>1. t \in Published \/ t \in [id : Instances, ref : raced, content : Contents, target : Targets]
      <4>1. CASE q.op = "instantiate"
        <5>1. t.id \in Instances /\ t.ref \in raced /\ t.target # Default
          BY <1>1, <4>1 DEF Knows
        <5> QED
          BY <1>1, <5>1 DEF Docs
      <4>2. CASE q.op # "instantiate"
        BY <1>1, <4>2 DEF Knows, Command0, Ops
      <4> QED
        BY <4>1, <4>2
    <3> QED
      BY <2>1, <3>1 DEF IInv, TypesArePublished
  <2>6. ReadsWereEmpty'
    <3> SUFFICES ASSUME NEW s \in Requests PROVE OnlyLater(request[s], missed[s])'
      BY DEF ReadsWereEmpty
    <3>1. CASE s = r
      BY <1>0, <1>1, <2>1, <3>1 DEF Registered, Goto, Return, Idle, IInv, TypeOK, OnlyLater, Knows
    <3>2. CASE s # r
      <4>1. request'[s] = request[s]
        BY <2>1, <3>2 DEF Registered, Goto, Return, IInv, TypeOK
      <4>2. missed'[s] = missed[s] \cup {d \in {t} : request[s].at \in {"find", "upsert"}}
        BY <2>1, <3>2
      <4>3. OnlyLater(request[s], missed[s])
        BY RequestIsKnown
      <4> QED
        BY <2>1, <4>1, <4>2, <4>3 DEF OnlyLater, WithId, WithRef
    <3> QED
      BY <3>1, <3>2
  <2> QED
    BY <1>0, <1>1, <2>1, <2>2, <2>3, <2>4, <2>5, <2>6, RegisteredMoves
<1> QED
  BY <1>2, <1>3

(* A step that reads and goes on with what it found. *)
LEMMA ReadMoves ==
    ASSUME IInv, NEW r \in Requests, NEW q \in Command0, Knows(q), request' = [request EXCEPT ![r] = q],
           q.at \notin {"find", "upsert"},
           UNCHANGED <<types, instances, cases, work, promoted, commands, missed, raced>>
    PROVE  IInv'
<1>1. missed' \in [Requests -> SUBSET Docs] /\ commands' \in 0..MaxCommands
  BY DEF IInv, TypeOK
<1>2. OnlyLater(q, missed'[r])
  BY DEF OnlyLater
<1> QED
  BY <1>1, <1>2, RequestMoves

(* A swarm run has a registered type, or the one of this release. *)
LEMMA SwarmTypeMoves == ASSUME IInv, NEW r \in Requests, SwarmType(r) PROVE IInv'
<1>1. PICK q : q = request[r]
  OBVIOUS
<1>2. q \in Command0 /\ Knows(q) /\ q.op = "swarm" /\ q.at = "type"
  BY <1>1, RequestIsKnown DEF SwarmType
<1>3. PICK t \in types \cup {Canonical} : request' = [request EXCEPT ![r].type = t, ![r].at = "grade"]
  BY <1>1 DEF SwarmType, WithRef
<1>4. t \in Docs /\ IsOf(t.content, t.ref)
  BY CatalogAssumption DEF IInv, TypeOK, IsOf, Published
<1>5. PICK n : n = [q EXCEPT !.type = t, !.at = "grade"]
  OBVIOUS
<1>6. n \in Command0 /\ n.op = "swarm" /\ n.at = "grade" /\ n.type = t
  BY <1>2, <1>4, <1>5 DEF Command0, Ats
<1>7. Knows(n)
  BY <1>4, <1>6 DEF Knows
<1>8. request' = [request EXCEPT ![r] = n]
  BY <1>1, <1>2, <1>3, <1>5 DEF IInv, TypeOK
<1> QED
  BY <1>6, <1>7, <1>8, ReadMoves DEF SwarmType

(* An instance is made of a registered type, asked for twice. *)
LEMMA InstanceTypeMoves == ASSUME IInv, NEW r \in Requests, InstanceType(r) \/ KnownType(r) PROVE IInv'
<1>1. PICK q : q = request[r]
  OBVIOUS
<1>2. /\ q \in Command0 /\ Knows(q)
      /\ UNCHANGED <<types, instances, cases, work, promoted, commands, missed, raced>>
  BY <1>1, RequestIsKnown DEF InstanceType, KnownType
<1>3. CASE WithRef(q.ref) = {}
  BY <1>1, <1>2, <1>3, ReturnMoves DEF InstanceType, KnownType
<1>4. CASE InstanceType(r) /\ WithRef(q.ref) # {}
  <2>1. q.op = "instantiate" /\ q.at = "type" /\ q.inst \in Instances /\ q.ring \in Rings
    BY <1>1, <1>2, <1>4 DEF InstanceType, Knows
  <2>2. PICK t \in types :
           request' = [request EXCEPT ![r].at = "known",
              ![r].type = [id |-> q.inst, ref |-> q.ref, content |-> t.content, target |-> q.type.target]]
    BY <1>1, <1>4 DEF InstanceType, WithRef
  <2>3. PICK m : m = [id |-> q.inst, ref |-> q.ref, content |-> t.content, target |-> q.type.target]
    OBVIOUS
  <2>4. m \in Docs
    BY <1>2, <2>1, <2>3 DEF IInv, TypeOK, Docs, Command0
  <2>5. PICK n : n = [q EXCEPT !.at = "known", !.type = m]
    OBVIOUS
  <2>6. /\ n \in Command0 /\ n.op = "instantiate" /\ n.at = "known" /\ n.type = m
        /\ n.ref = q.ref /\ n.inst = q.inst /\ n.ring = q.ring
    BY <1>2, <2>1, <2>4, <2>5 DEF Command0, Ats
  <2>7. Knows(n)
    BY <1>4, <2>1, <2>3, <2>6 DEF Knows
  <2>8. request' = [request EXCEPT ![r] = n]
    BY <1>1, <1>2, <2>2, <2>3, <2>5 DEF IInv, TypeOK
  <2> QED
    BY <1>2, <2>6, <2>7, <2>8, ReadMoves
<1>5. CASE KnownType(r) /\ WithRef(q.ref) # {}
  <2>1. q.at = "known" /\ Goto(r, "instance")
    BY <1>1, <1>5 DEF KnownType
  <2>2. PICK n : n = [q EXCEPT !.at = "instance"]
    OBVIOUS
  <2>3. /\ n.op = q.op /\ n.at = "instance" /\ n.type = q.type
        /\ n.ref = q.ref /\ n.inst = q.inst /\ n.ring = q.ring
    BY <1>2, <2>2 DEF Command0
  <2>4. Knows(n)
    BY <1>2, <1>5, <2>1, <2>3 DEF Knows
  <2>5. OnlyLater(n, missed'[r])
    BY <2>3 DEF OnlyLater
  <2> QED
    BY <1>1, <1>2, <2>1, <2>2, <2>4, <2>5, GotoMoves DEF Ats
<1> QED
  BY <1>3, <1>4, <1>5

(* A trigger goes on with the ref of its instance, and with a registered type of it.  *)
LEMMA TriggerMoves == ASSUME IInv, NEW r \in Requests, TriggerInstance(r) \/ TriggerType(r) PROVE IInv'
<1>1. PICK q, i : q = request[r] /\ i = request[r].inst
  OBVIOUS
<1>2. /\ q \in Command0 /\ Knows(q) /\ i = q.inst
      /\ UNCHANGED <<types, instances, cases, work, promoted, commands, missed, raced>>
  BY <1>1, RequestIsKnown DEF TriggerInstance, TriggerType
<1>3. CASE TriggerInstance(r)
  <2>1. CASE i \notin DOMAIN instances
    BY <1>1, <1>2, <1>3, <2>1, ReturnMoves DEF TriggerInstance
  <2>2. CASE i \in DOMAIN instances
    <3>1. PICK n : n = [q EXCEPT !.at = "type", !.ref = instances[i].ref]
      OBVIOUS
    <3>2. instances[i].ref \in Refs /\ q.op = "trigger"
      BY <1>1, <1>2, <1>3, <2>2 DEF IInv, TypeOK, TriggerInstance, Knows, Command0, Ops
    <3>3. n \in Command0 /\ n.op = "trigger" /\ n.at = "type" /\ n.inst = i /\ n.ref = instances[i].ref
      BY <1>2, <3>1, <3>2 DEF Command0, Ats
    <3>4. Knows(n)
      BY <2>2, <3>3 DEF Knows
    <3>5. request' = [request EXCEPT ![r] = n]
      BY <1>1, <1>2, <1>3, <2>2, <3>1 DEF TriggerInstance, IInv, TypeOK
    <3> QED
      BY <1>2, <3>3, <3>4, <3>5, ReadMoves
  <2> QED
    BY <2>1, <2>2
<1>4. CASE TriggerType(r)
  <2>0. q.op = "trigger" /\ q.at = "type"
    BY <1>1, <1>4 DEF TriggerType
  <2>1. CASE WithRef(q.ref) = {}
    BY <1>1, <1>2, <1>4, <2>1, ReturnMoves DEF TriggerType
  <2>2. CASE WithRef(q.ref) # {}
    <3>1. PICK t \in WithRef(q.ref) :
             request' = [request EXCEPT ![r].at = "get",
               ![r].type = [t EXCEPT !.target = IF q.type.target = Default THEN @ ELSE q.type.target]]
      BY <1>1, <1>4, <2>2 DEF TriggerType
    <3>2. t \in types /\ t \in Docs /\ t.ref = q.ref /\ IsOf(t.content, q.ref)
      BY <3>1 DEF WithRef, IInv, TypeOK, IsOf
    <3>3. PICK m : m = [t EXCEPT !.target = IF q.type.target = Default THEN @ ELSE q.type.target]
      OBVIOUS
    <3>4. m \in Docs /\ m.id = t.id /\ m.content = t.content /\ m.ref = t.ref
      BY <1>2, <3>2, <3>3 DEF Docs, Command0
    <3>5. PICK n : n = [q EXCEPT !.at = "get", !.type = m]
      OBVIOUS
    <3>6. n \in Command0 /\ n.op = "trigger" /\ n.at = "get" /\ n.inst = i /\ n.type = m /\ n.ref = q.ref
      BY <1>2, <2>0, <3>4, <3>5 DEF Command0, Ats
    <3>7. i \in DOMAIN instances /\ (instances[i].ref = q.ref \/ instances[i].ref \in raced)
      BY <1>2, <2>0 DEF Knows
    <3>8. WithId(m.id) # {}
      BY <3>2, <3>4 DEF WithId
    <3>9. Knows(n)
      BY <3>2, <3>4, <3>6, <3>7, <3>8 DEF Knows
    <3>10. request' = [request EXCEPT ![r] = n]
      BY <1>1, <1>2, <3>1, <3>3, <3>5 DEF IInv, TypeOK
    <3> QED
      BY <1>2, <3>6, <3>9, <3>10, ReadMoves
  <2> QED
    BY <2>1, <2>2
<1> QED
  BY <1>3, <1>4

(* The gates are asked on the cases of the ref in the file. *)
LEMMA GatherMoves == ASSUME IInv, NEW r \in Requests, Gather(r) PROVE IInv'
<1>1. PICK q : q = request[r]
  OBVIOUS
<1>2. /\ q \in Command0 /\ Knows(q) /\ q.at = "gather"
      /\ UNCHANGED <<types, instances, cases, work, promoted, commands, missed, raced>>
  BY <1>1, RequestIsKnown DEF Gather
<1>3. CASE Allowed(CasesOf(q.ref), q.ring)
  <2>1. Goto(r, "get")
    BY <1>1, <1>3 DEF Gather
  <2>2. PICK n : n = [q EXCEPT !.at = "get"]
    OBVIOUS
  <2>3. /\ n.op = q.op /\ n.at = "get" /\ n.type = q.type /\ n.ref = q.ref
        /\ n.ring = q.ring /\ n.inst = q.inst
    BY <1>2, <2>2 DEF Command0
  <2>4. Knows(n) /\ OnlyLater(n, missed'[r])
    BY <1>2, <1>3, <2>3 DEF Knows, OnlyLater
  <2> QED
    BY <1>1, <1>2, <2>1, <2>2, <2>4, GotoMoves DEF Ats
<1>4. CASE ~Allowed(CasesOf(q.ref), q.ring)
  BY <1>1, <1>2, <1>4, ReturnMoves DEF Gather
<1> QED
  BY <1>3, <1>4

(* After the instance, instantiate goes on to its variant if it has one. *)
LEMMA VariantKnows ==
    ASSUME IInv, NEW r \in Requests, request[r].at \in {"instance", "store"}, Variant(r)
    PROVE  \E n \in Command0 : Knows(n) /\ n.at \in {"get", "idle"} /\ request' = [request EXCEPT ![r] = n]
<1>1. request[r] \in Command0 /\ Knows(request[r])
  BY RequestIsKnown
<1>2. CASE request[r].type.target # Default
  <2>1. PICK n : n = [request[r] EXCEPT !.at = "get"]
    OBVIOUS
  <2>2. n \in Command0 /\ Knows(n) /\ n.at = "get"
    BY <1>1, <1>2, <2>1 DEF Command0, Ats, Ops, Knows
  <2>3. request' = [request EXCEPT ![r] = n]
    BY <1>1, <1>2, <2>1 DEF Variant, Goto, IInv, TypeOK
  <2> QED
    BY <2>2, <2>3
<1>3. CASE request[r].type.target = Default
  <2>1. Idle.at = "idle" /\ request' = [request EXCEPT ![r] = Idle]
    BY <1>3 DEF Variant, Return, Idle
  <2> QED
    BY <2>1, IdleKnows
<1> QED
  BY <1>2, <1>3

(* An instance that is there is the answer, or a conflict. *)
LEMMA GetInstanceMoves == ASSUME IInv, NEW r \in Requests, GetInstance(r) PROVE IInv'
<1>1. PICK q, i : q = request[r] /\ i = request[r].inst
  OBVIOUS
<1>2. /\ q \in Command0 /\ Knows(q) /\ q.at = "instance"
      /\ UNCHANGED <<types, instances, cases, work, promoted, commands, missed, raced>>
  BY <1>1, RequestIsKnown DEF GetInstance
<1>3. CASE i \notin DOMAIN instances
  <2>1. Goto(r, "store")
    BY <1>1, <1>3 DEF GetInstance
  <2>2. PICK n : n = [q EXCEPT !.at = "store"]
    OBVIOUS
  <2>3. /\ n.op = q.op /\ n.at = "store" /\ n.type = q.type /\ n.ref = q.ref
        /\ n.ring = q.ring /\ n.inst = q.inst
    BY <1>2, <2>2 DEF Command0
  <2>4. Knows(n) /\ OnlyLater(n, missed'[r])
    BY <1>2, <2>3 DEF Knows, OnlyLater
  <2> QED
    BY <1>1, <1>2, <2>1, <2>2, <2>4, GotoMoves DEF Ats
<1>4. CASE i \in DOMAIN instances /\ instances[i] = Row(r)
  <2>1. Variant(r)
    BY <1>1, <1>4 DEF GetInstance
  <2> QED
    BY <1>1, <1>2, <2>1, VariantKnows, ReadMoves
<1>5. CASE i \in DOMAIN instances /\ instances[i] # Row(r)
  BY <1>1, <1>2, <1>5, ReturnMoves DEF GetInstance
<1> QED
  BY <1>3, <1>4, <1>5

(* Whoever replaces an instance that came after its read leaves its new ref raced. *)
LEMMA StoreInstanceMoves == ASSUME IInv, NEW r \in Requests, StoreInstance(r) PROVE IInv'
<1>1. PICK q, i : q = request[r] /\ i = request[r].inst
  OBVIOUS
<1>2. /\ q \in Command0 /\ Knows(q) /\ q.at = "store"
      /\ instances' = [j \in DOMAIN instances \cup {i} |-> IF j = i THEN Row(r) ELSE instances[j]]
      /\ raced' = raced \cup {instances'[j].ref :
                     j \in {k \in DOMAIN instances : instances'[k].ref # instances[k].ref}}
      /\ UNCHANGED <<types, cases, work, promoted, commands, missed>>
  BY <1>1, RequestIsKnown DEF StoreInstance
<1>3. i \in Instances /\ q.ring \in Rings /\ q.ref \in Refs /\ Row(r) = [ref |-> q.ref, ring |-> q.ring]
  BY <1>1, <1>2 DEF Knows, Command0, Ops, Row
<1>4. PICK n \in Command0 : /\ Knows(n) /\ n.at \in {"get", "idle"}
                            /\ request' = [request EXCEPT ![r] = n]
  BY <1>1, <1>2, VariantKnows DEF StoreInstance
<1>5. Lasts
  BY <1>2 DEF Lasts
<1>6. TypeOK'
  <2>1. /\ DOMAIN instances' \subseteq Instances
        /\ \A j \in DOMAIN instances' : instances'[j] \in [ref : Refs, ring : Rings]
    BY <1>2, <1>3 DEF IInv, TypeOK
  <2>2. request' \in [Requests -> Command0]
    BY <1>4 DEF IInv, TypeOK, Command0, Ops, Ats
  <2>3. raced' \subseteq Refs
    BY <1>2, <2>1 DEF IInv, TypeOK
  <2> QED
    BY <1>2, <2>1, <2>2, <2>3 DEF IInv, TypeOK, Command0, Ops, Ats
<1>7. CasesAreGraded' /\ RunsItsType'
  BY <1>2, <1>5, OldStands DEF CasesAreGraded, RunsItsType
<1> QED
  BY <1>2, <1>4, <1>5, <1>6, <1>7, RestMoves

(* The case of a swarm run is filed under the type that ran. *)
LEMMA GradeMoves == ASSUME IInv, NEW r \in Requests, Grade(r) PROVE IInv'
<1>1. PICK t : t = request[r].type
  OBVIOUS
<1>2. t \in Docs /\ IsOf(t.content, t.ref)
  BY <1>1, RequestIsKnown DEF Grade, Knows, Command0, Ops
<1>3. PICK score \in Verdicts :
         cases' = cases \cup {Case(t, t.ref, "synthetic", v) : v \in {score} \ {NoScore}}
  BY <1>1 DEF Grade
<1>4. UNCHANGED <<types, instances, work, promoted, commands, missed, raced>> /\ Return(r)
  BY DEF Grade
<1>5. \A c \in cases' \ cases :
         c = [ref |-> t.ref, graded |-> t.content, origin |-> "synthetic", score |-> score] /\ score \in Scores
  BY <1>3 DEF Case, Verdicts
<1>6. Lasts
  BY <1>3, <1>4 DEF Lasts
<1>7. CasesAreGraded' /\ RunsItsType'
  <2>1. IsOf(t.content, t.ref)'
    BY <1>2, <1>6, IsOfLasts
  <2> QED
    BY <1>4, <1>5, <1>6, <2>1, OldStands DEF CasesAreGraded, RunsItsType
<1>8. TypeOK'
  <2>1. cases' \subseteq [ref : Refs, graded : Contents, origin : {"synthetic", "real"}, score : Scores]
    BY <1>2, <1>5 DEF IInv, TypeOK, Docs
  <2>2. request' \in [Requests -> Command0]
    BY <1>4, IdleKnows DEF IInv, TypeOK, Command0, Ops, Ats, Return
  <2> QED
    BY <1>4, <2>1, <2>2 DEF IInv, TypeOK, Command0, Ops, Ats
<1>9. request' = [request EXCEPT ![r] = Idle] /\ Idle.at \notin {"find", "upsert"}
  BY <1>4 DEF Return, Idle
<1> QED
  BY <1>4, <1>6, <1>7, <1>8, <1>9, IdleKnows, RestMoves

(* What is enqueued is of the ref its instance is bound to, even if that changed     *)
(* since the trigger read it.                                                 *)
LEMMA BindMoves == ASSUME IInv, NEW r \in Requests, Bind(r) PROVE IInv'
<1>1. PICK q, i : q = request[r] /\ i = request[r].inst
  OBVIOUS
<1>2. /\ q \in Command0 /\ Knows(q) /\ q.at = "bind" /\ i = q.inst
      /\ work' = work \cup {[type |-> q.type, ref |-> instances[i].ref]}
      /\ Return(r) /\ UNCHANGED <<types, instances, cases, promoted, commands, missed, raced>>
  BY <1>1, RequestIsKnown DEF Bind
<1>3. i \in DOMAIN instances /\ q.type \in Docs /\ instances[i].ref \in Refs
  BY <1>2 DEF Knows, Command0, Ops, IInv, TypeOK
<1>4. IsOf(q.type.content, instances[i].ref)
  BY <1>2 DEF Knows, Command0, Ops, IsOf
<1>5. Lasts
  BY <1>2 DEF Lasts
<1>6. CasesAreGraded' /\ RunsItsType'
  <2>1. PICK content, ref : content = q.type.content /\ ref = instances[i].ref
    OBVIOUS
  <2>2. IsOf(content, ref)'
    BY <1>4, <1>5, <2>1, IsOfLasts
  <2> QED
    BY <1>2, <1>5, <2>1, <2>2, OldStands DEF CasesAreGraded, RunsItsType
<1>7. TypeOK'
  <2>1. request' \in [Requests -> Command0]
    BY <1>2, IdleKnows DEF IInv, TypeOK, Command0, Ops, Ats, Return
  <2> QED
    BY <1>2, <1>3, <2>1 DEF IInv, TypeOK, Command0, Ops, Ats
<1>8. request' = [request EXCEPT ![r] = Idle] /\ Idle.at \notin {"find", "upsert"}
  BY <1>2 DEF Return, Idle
<1> QED
  BY <1>2, <1>5, <1>6, <1>7, <1>8, IdleKnows, RestMoves

(* A script runs a built-in type, and a real case grades what ran. *)
LEMMA OutsideMoves == ASSUME IInv, ScriptRun \/ Mature PROVE IInv'
<1>1. UNCHANGED <<types, instances, promoted, request, commands, missed, raced>>
  BY DEF ScriptRun, Mature
<1>2. cases \subseteq cases'
  BY DEF ScriptRun, Mature
<1>3. Lasts
  BY <1>1, <1>2 DEF Lasts
<1>4. TypeOK' /\ CasesAreGraded' /\ RunsItsType'
  <2>1. CASE ScriptRun
    <3>1. PICK b \in BuiltIns : work' = work \cup {[type |-> b, ref |-> b.ref]}
      BY <2>1 DEF ScriptRun
    <3>2. cases' = cases /\ b \in Docs /\ b.ref \in Refs /\ IsOf(b.content, b.ref)
      BY <2>1, CatalogAssumption DEF ScriptRun, Published, Docs, IsOf
    <3>3. IsOf(b.content, b.ref)'
      BY <1>3, <3>2, IsOfLasts
    <3> QED
      BY <1>1, <1>3, <3>1, <3>2, <3>3, OldStands DEF CasesAreGraded, RunsItsType, IInv, TypeOK
  <2>2. CASE Mature
    <3>1. PICK w \in work, score \in Scores : cases' = cases \cup {Case(w.type, w.ref, "real", score)}
      BY <2>2 DEF Mature
    <3>2. /\ work' = work /\ IsOf(w.type.content, w.ref)'
          /\ Case(w.type, w.ref, "real", score) \in
                [ref : Refs, graded : Contents, origin : {"synthetic", "real"}, score : Scores]
      BY <1>3, <2>2, OldStands DEF Mature, IInv, TypeOK, Docs, Case
    <3> QED
      BY <1>1, <1>3, <3>1, <3>2, OldStands DEF CasesAreGraded, RunsItsType, IInv, TypeOK, Case
  <2> QED
    BY <2>1, <2>2
<1>5. TypesArePublished' /\ OneOfAVersion(types)' /\ ReadsWereEmpty' /\ PromotedAreRegistered'
  BY <1>1, <1>3, OldStands DEF IInv, TypesArePublished, OneOfAVersion, ReadsWereEmpty, OnlyLater,
                               WithId, WithRef, PromotedAreRegistered
<1>6. \A r \in Requests : Knows(request[r])'
  <2> SUFFICES ASSUME NEW r \in Requests PROVE Knows(request[r])'
    OBVIOUS
  <2>1. PICK q : q = request[r]
    OBVIOUS
  <2>2. Knows(q)' /\ request'[r] = q
    BY <1>1, <1>3, <2>1, KnowledgeLasts DEF IInv
  <2> QED
    BY <2>2 DEF Knows, WithRef, WithId, IsOf, CasesOf, Allowed, CanaryGate, PromotionGate, Passed
<1> QED
  BY <1>4, <1>5, <1>6 DEF IInv

(* The invariant is inductive: one case per action. *)
LEMMA NextInv == IInv /\ [Next]_vars => IInv'
<1> SUFFICES ASSUME IInv, [Next]_vars PROVE IInv'
  OBVIOUS
<1>1. CASE ScriptRun \/ Mature
  BY <1>1, OutsideMoves
<1>2. ASSUME NEW r \in Requests, Command(r) PROVE IInv'
  BY <1>2, CommandsAreKnown
<1>3. ASSUME NEW r \in Requests, Step(r) PROVE IInv'
  <2>1. CASE Get(r) \/ Find(r) \/ Upsert(r)
    BY <2>1, GetMoves, FindMoves, UpsertMoves
  <2>2. CASE SwarmType(r) \/ InstanceType(r) \/ KnownType(r) \/ TriggerInstance(r) \/ TriggerType(r)
    BY <2>2, SwarmTypeMoves, InstanceTypeMoves, TriggerMoves
  <2>3. CASE Grade(r) \/ Gather(r) \/ Bind(r)
    BY <2>3, GradeMoves, GatherMoves, BindMoves
  <2>4. CASE GetInstance(r) \/ StoreInstance(r)
    BY <2>4, GetInstanceMoves, StoreInstanceMoves
  <2> QED
    BY <1>3, <2>1, <2>2, <2>3, <2>4 DEF Step
<1>4. CASE UNCHANGED vars
  <2>1. UNCHANGED <<types, instances, cases, work, promoted, request, commands, missed, raced>>
    BY <1>4 DEF vars
  <2>2. /\ TypeOK' /\ TypesArePublished' /\ OneOfAVersion(types)' /\ CasesAreGraded' /\ RunsItsType'
        /\ PromotedAreRegistered' /\ ReadsWereEmpty'
    BY <2>1 DEF IInv, TypeOK, TypesArePublished, OneOfAVersion, CasesAreGraded, RunsItsType, IsOf,
                PromotedAreRegistered, Allowed, CanaryGate, PromotionGate, Passed, CasesOf,
                ReadsWereEmpty, OnlyLater, WithId, WithRef
  <2>3. \A r \in Requests : Knows(request[r])'
    BY <2>1 DEF IInv, Knows, WithRef, WithId, IsOf, CasesOf, Allowed, CanaryGate, PromotionGate, Passed
  <2> QED
    BY <2>2, <2>3 DEF IInv
<1> QED
  BY <1>1, <1>2, <1>3, <1>4 DEF Next

(* The strengthening holds in every reachable state. *)
LEMMA Invariance == Spec => []IInv
BY InitInv, NextInv, PTL DEF Spec

(* The catalog, the instances, the cases, the work, the requests and the history of   *)
(* races keep their types.                                                    *)
THEOREM TypeCorrect == Spec => []TypeOK
<1>1. IInv => TypeOK
  BY DEF IInv
<1> QED
  BY <1>1, Invariance, PTL

(* However publishers, triggers, overrides, scripts and swarm runs interleave between *)
(* a promotion's gate and its registration, and whichever ids, versions and files    *)
(* the candidates have, what is promoted passed its gate on cases of the ref in its   *)
(* file; and if that is the ref of its type, on a case that graded this very type,    *)
(* or a built-in one of the ref, or the ref was raced.                          *)
THEOREM PromotionIsEarned == Spec => []PromotedOnItsOwnEvidence
<1>1. IInv => PromotedOnItsOwnEvidence
  <2> SUFFICES ASSUME IInv, NEW p \in promoted
               PROVE  \E c \in CasesOf(p.ref) :
                        /\ Passed(c)
                        /\ p.ring \notin Canary => c.origin = "real"
                        /\ p.ref = p.type.ref =>
                              \/ c.graded = p.type.content
                              \/ \E b \in BuiltIns : b.ref = p.ref /\ b.content = c.graded
                              \/ p.ref \in raced
    BY DEF PromotedOnItsOwnEvidence
  <2>1. PICK c \in CasesOf(p.ref) : Passed(c) /\ (p.ring \notin Canary => c.origin = "real")
    BY DEF IInv, PromotedAreRegistered, Allowed, CanaryGate, PromotionGate
  <2>2. IsOf(c.graded, p.ref)
    BY DEF IInv, CasesAreGraded, CasesOf
  <2>3. ASSUME p.ref = p.type.ref, p.ref \notin raced, NEW t \in types, t.ref = p.ref
        PROVE  t = p.type
    BY <2>3 DEF IInv, PromotedAreRegistered, OneOfAVersion
  <2> QED
    BY <2>1, <2>2, <2>3 DEF IsOf
<1> QED
  BY <1>1, Invariance, PTL

(* What is enqueued, by a trigger or by a script, has the content of a document that   *)
(* was registered under the ref its instance is bound to, or of a built-in type of     *)
(* it, or the ref was raced.                                                    *)
THEOREM TriggersRunTheirType == Spec => []RunsItsType
<1>1. IInv => RunsItsType
  BY DEF IInv
<1> QED
  BY <1>1, Invariance, PTL

(* One customer's target gets into the catalog only where a race took the parent of   *)
(* the variant away.                                                           *)
THEOREM OverridesStayOut == Spec => []VariantsStayOut
<1>1. IInv => VariantsStayOut
  BY CatalogAssumption DEF IInv, TypesArePublished, VariantsStayOut
<1> QED
  BY <1>1, Invariance, PTL

(* Only an upsert takes a document away, and only one of its id that it has not seen. *)
LEMMA OnlyUpsertsReplace ==
    ASSUME IInv, Next, NEW t \in types \ types'
    PROVE  \E r \in Requests : request[r].at = "upsert" /\ t \in missed[r]
<1>1. PICK r \in Requests : Upsert(r)
  <2>1. ~ScriptRun /\ ~Mature
    BY DEF ScriptRun, Mature
  <2>2. ASSUME NEW r \in Requests, Command(r) PROVE FALSE
    BY <2>2 DEF Command, Publish, Swarm, Promote, Instantiate, Trigger, Ask
  <2>3. ASSUME NEW r \in Requests, Step(r), ~Upsert(r) PROVE FALSE
    BY <2>3 DEF Step, Get, Find, Compare, SwarmType, Grade, Gather, InstanceType, KnownType,
                GetInstance, StoreInstance, TriggerInstance, TriggerType, Bind
  <2> QED
    BY <2>1, <2>2, <2>3 DEF Next
<1>2. request[r].at = "upsert" /\ t \in WithId(request[r].type.id)
  BY <1>1 DEF Upsert, WithId
<1> QED
  BY <1>2, RequestIsKnown DEF OnlyLater

(* A version is one document, whoever publishes; and a document gives way only to a    *)
(* registration that had begun to read before it came, for any number of publishers   *)
(* and for rivals of one id, of one version or of both.                          *)
THEOREM VersionsAreStable == Spec => OnlyRacesReplace
<1>1. IInv /\ IInv' /\ [Next]_vars =>
         [/\ OneOfAVersion(types')
          /\ \A t \in types \ types' : \E r \in Requests : request[r].at = "upsert" /\ t \in missed[r]]_vars
  BY OnlyUpsertsReplace DEF IInv, OneOfAVersion
<1> QED
  BY <1>1, Invariance, PTL DEF Spec, OnlyRacesReplace

-----------------------------------------------------------------------------
(* The run list and the page of a run *)

(* An event is named by its instance and its place there. *)
LEMMA Names ==
    ASSUME SystemTypeOK, NEW e
    PROVE  /\ e \in Prefix(Heads) <=>
                \E i \in InstanceIds : \E n \in 1 .. Len(journal[i]) : e = <<i, n>>
           /\ e \in Prefix(Heads) => Event(e) \in Record /\ e[1] \in InstanceIds /\ e[2] \in Nat
<1>1. e \in Prefix(Heads) <=> \E i \in InstanceIds : \E n \in 1 .. Len(journal[i]) : e = <<i, n>>
  BY DEF Prefix, Heads
<1>2. ASSUME NEW i \in InstanceIds, NEW n \in 1 .. Len(journal[i]), e = <<i, n>>
      PROVE  Event(e) \in Record /\ e[1] \in InstanceIds /\ e[2] \in Nat
  <2>1. journal[i] \in Seq(Record)
    BY DEF SystemTypeOK
  <2>2. journal[i][n] \in Record
    BY <2>1
  <2> QED
    BY <1>2, <2>2, ConsoleAssumption DEF Event
<1> QED
  BY <1>1, <1>2

(* What a step adds to the journal: events of one run, of the kinds K and with   *)
(* one stamp, behind all that run has.                                      *)
Grows(r, K, ts) ==
    /\ \A s \in Runs : /\ EventsOf(s) \subseteq EventsOf(s)'
                       /\ s # r => EventsOf(s)' = EventsOf(s)
                       /\ \A e \in EventsOf(s) : Event(e)' = Event(e)
    /\ \A e \in EventsOf(r)' : e \notin EventsOf(r) =>
          /\ e \in InstanceIds \X Nat /\ e[1] = InstanceOf[r]
          /\ Event(e)'.kind \in K /\ Event(e)'.ts = ts
          /\ \A f \in EventsOf(r) : f[1] = e[1] => f[2] < e[2]
    /\ \A k \in K : \E e \in EventsOf(r)' : /\ e \notin EventsOf(r)
                                            /\ Event(e)'.kind = k /\ Event(e)'.ts = ts

LEMMA NothingGrows == ASSUME UNCHANGED journal, NEW r, NEW ts PROVE Grows(r, {}, ts)
BY DEF Grows, EventsOf, Event, Prefix, Heads

(* What stands where in two sequences put together. *)
LEMMA Concatenated ==
    ASSUME NEW T, NEW s \in Seq(T), NEW t \in Seq(T)
    PROVE  /\ s \o t \in Seq(T) /\ Len(s \o t) = Len(s) + Len(t)
           /\ \A n \in 1 .. Len(s) : (s \o t)[n] = s[n]
           /\ \A n \in 1 .. Len(t) : (s \o t)[Len(s) + n] = t[n]
OBVIOUS

LEMMA PutGrows ==
    ASSUME SystemTypeOK, NEW r \in Runs, NEW kinds \in Seq(Kinds), NEW ts \in 0 .. MaxTime,
           Put(r, kinds, ts)
    PROVE  Grows(r, Range(kinds), ts) /\ journal' \in [InstanceIds -> Seq(Record)]
<1> DEFINE i == InstanceOf[r]
           L == Len(journal[i])
           new == [n \in DOMAIN kinds |-> [run |-> r, kind |-> kinds[n], ts |-> ts]]
<1>1. i \in InstanceIds /\ journal[i] \in Seq(Record) /\ L \in Nat /\ InstanceIds \subseteq Nat
  <2>1. i \in InstanceIds /\ InstanceIds \subseteq Nat
    BY ConsoleAssumption
  <2>2. journal[i] \in Seq(Record)
    BY <2>1 DEF SystemTypeOK
  <2> QED
    BY <2>1, <2>2
<1>2. DOMAIN kinds = 1 .. Len(kinds) /\ Len(kinds) \in Nat /\ \A n \in DOMAIN kinds : kinds[n] \in Kinds
  OBVIOUS
<1>3. \A n \in DOMAIN kinds : [run |-> r, kind |-> kinds[n], ts |-> ts] \in Record
  BY <1>2 DEF Record
<1>4. new \in Seq(Record) /\ Len(new) = Len(kinds)
      /\ \A n \in 1 .. Len(kinds) : new[n] = [run |-> r, kind |-> kinds[n], ts |-> ts]
  BY <1>2, <1>3
<1>5. journal' = [journal EXCEPT ![i] = @ \o new]
  BY DEF Put
<1> HIDE DEF new
<1>6. journal[i] \o new \in Seq(Record) /\ Len(journal[i] \o new) = L + Len(kinds)
      /\ (\A n \in 1 .. L : (journal[i] \o new)[n] = journal[i][n])
      /\ (\A n \in 1 .. Len(kinds) : (journal[i] \o new)[L + n] = new[n])
  <2> DEFINE old == journal[i]
  <2>1. old \in Seq(Record) /\ new \in Seq(Record)
    BY <1>1, <1>4
  <2> HIDE DEF old
  <2>2. /\ old \o new \in Seq(Record) /\ Len(old \o new) = Len(old) + Len(new)
        /\ \A n \in 1 .. Len(old) : (old \o new)[n] = old[n]
        /\ \A n \in 1 .. Len(new) : (old \o new)[Len(old) + n] = new[n]
    BY <2>1, Concatenated
  <2> QED
    BY <2>2, <1>4 DEF old
<1>7. journal' \in [InstanceIds -> Seq(Record)]
  BY <1>1, <1>5, <1>6 DEF SystemTypeOK
<1>8. /\ journal'[i] = journal[i] \o new
      /\ \A j \in InstanceIds : j # i => journal'[j] = journal[j]
  BY <1>1, <1>5 DEF SystemTypeOK
<1>9. \A e : e \in Prefix(Heads)' <=>
             \E j \in InstanceIds : \E n \in 1 .. Len(journal'[j]) : e = <<j, n>>
  BY DEF Prefix, Heads
<1>10. \A e : e \in Prefix(Heads) <=>
              \E j \in InstanceIds : \E n \in 1 .. Len(journal[j]) : e = <<j, n>>
  BY DEF Prefix, Heads
<1>11. \A e : Event(e)' = journal'[e[1]][e[2]] /\ Event(e) = journal[e[1]][e[2]]
  BY DEF Event
<1>12. ASSUME NEW e \in Prefix(Heads) PROVE e \in Prefix(Heads)' /\ Event(e)' = Event(e)
  <2>0. PICK j \in InstanceIds : \E n \in 1 .. Len(journal[j]) : e = <<j, n>>
    BY <1>10
  <2>1. PICK n \in 1 .. Len(journal[j]) : e = <<j, n>>
    BY <2>0
  <2>2. CASE j # i
    BY <2>1, <2>2, <1>8, <1>9, <1>11
  <2>3. CASE j = i
    <3>1. n \in 1 .. Len(journal'[i]) /\ journal'[i][n] = journal[i][n]
      BY <2>3, <1>1, <1>2, <1>6, <1>8
    <3> QED
      BY <2>1, <2>3, <3>1, <1>9, <1>11
  <2> QED
    BY <2>2, <2>3
<1>13. ASSUME NEW e \in Prefix(Heads)', e \notin Prefix(Heads)
       PROVE  /\ e \in InstanceIds \X Nat /\ e[1] = i /\ e[2] > L
              /\ \E n \in DOMAIN kinds : Event(e)' = [run |-> r, kind |-> kinds[n], ts |-> ts]
  <2>0. PICK j \in InstanceIds : \E n \in 1 .. Len(journal'[j]) : e = <<j, n>>
    BY <1>9
  <2>1. PICK n \in 1 .. Len(journal'[j]) : e = <<j, n>>
    BY <2>0
  <2>2. j = i
    BY <2>1, <1>8, <1>10, <1>13
  <2>3. n \in 1 .. L + Len(kinds) /\ ~(n \in 1 .. L)
    BY <2>1, <2>2, <1>6, <1>8, <1>10, <1>13
  <2>4. n \in Nat /\ n > L /\ n - L \in 1 .. Len(kinds) /\ L + (n - L) = n
    BY <2>3, <1>1, <1>2
  <2>5. journal'[i][n] = new[n - L]
    BY <2>4, <1>6, <1>8
  <2>6. Event(e)' = [run |-> r, kind |-> kinds[n - L], ts |-> ts]
    BY <2>1, <2>2, <2>4, <2>5, <1>4, <1>11
  <2> QED
    BY <2>1, <2>2, <2>4, <2>6, <1>2
<1>14. ASSUME NEW n \in DOMAIN kinds
       PROVE  \E e \in Prefix(Heads)' : e \notin Prefix(Heads)
                 /\ Event(e)' = [run |-> r, kind |-> kinds[n], ts |-> ts]
  <2>0. PICK e : e = <<i, L + n>>
    OBVIOUS
  <2>1. L + n \in 1 .. Len(journal'[i]) /\ ~(L + n \in 1 .. L)
    <3>1. Len(journal'[i]) = L + Len(kinds)
      BY <1>6, <1>8
    <3>2. n \in 1 .. Len(kinds) /\ L \in Nat /\ Len(kinds) \in Nat
      BY <1>1, <1>2
    <3> HIDE DEF L
    <3> QED
      BY <3>1, <3>2
  <2>2. e \in Prefix(Heads)'
    BY <2>0, <2>1, <1>1, <1>9
  <2>3. e \notin Prefix(Heads)
    <3> SUFFICES ASSUME NEW j \in InstanceIds, NEW m \in 1 .. Len(journal[j]), e = <<j, m>>
                 PROVE  FALSE
      BY <1>10
    <3>1. j = i /\ m = L + n
      BY <2>0
    <3> QED
      BY <3>1, <2>1
  <2>4. e[1] = i /\ e[2] = L + n
    BY <2>0
  <2>5. journal'[i][L + n] = new[n]
    BY <1>2, <1>6, <1>8
  <2>6. Event(e)' = [run |-> r, kind |-> kinds[n], ts |-> ts]
    BY <2>4, <2>5, <1>2, <1>4, <1>11
  <2> QED
    BY <2>2, <2>3, <2>6
<1>15. \A f \in Prefix(Heads) : f[1] = i => f[2] <= L /\ f[2] \in Nat
  BY <1>1, <1>10
<1> HIDE DEF i, L
<1>16. \A s \in Runs : \A e : /\ e \in EventsOf(s) <=> e \in Prefix(Heads) /\ Event(e).run = s
                              /\ e \in EventsOf(s)' <=> e \in Prefix(Heads)' /\ Event(e)'.run = s
  BY DEF EventsOf
<1>17. \A s \in Runs : /\ EventsOf(s) \subseteq EventsOf(s)'
                       /\ \A e \in EventsOf(s) : Event(e)' = Event(e)
  BY <1>12, <1>16
<1>18. \A e : e \in Prefix(Heads)' /\ e \notin Prefix(Heads) => Event(e)'.run = r
  BY <1>13
<1>19. ASSUME NEW s \in Runs, s # r PROVE EventsOf(s)' = EventsOf(s)
  <2>1. ASSUME NEW e \in EventsOf(s)' PROVE e \in EventsOf(s)
    <3>1. e \in Prefix(Heads)' /\ Event(e)'.run = s
      BY <1>16
    <3>2. e \in Prefix(Heads)
      BY <3>1, <1>18, <1>19
    <3> QED
      BY <3>1, <3>2, <1>12, <1>16
  <2> QED
    BY <2>1, <1>17
<1>20. ASSUME NEW e \in EventsOf(r)', e \notin EventsOf(r)
       PROVE  /\ e \in InstanceIds \X Nat /\ e[1] = InstanceOf[r]
              /\ Event(e)'.kind \in Range(kinds) /\ Event(e)'.ts = ts
              /\ \A f \in EventsOf(r) : f[1] = e[1] => f[2] < e[2]
  <2>1. e \in Prefix(Heads)' /\ e \notin Prefix(Heads)
    BY <1>12, <1>16, <1>20
  <2>2. /\ e \in InstanceIds \X Nat /\ e[1] = i /\ e[2] > L
        /\ \E n \in DOMAIN kinds : Event(e)' = [run |-> r, kind |-> kinds[n], ts |-> ts]
    BY <2>1, <1>13
  <2>3. \A f \in EventsOf(r) : f[1] = e[1] => f[2] < e[2]
    BY <2>2, <1>1, <1>15, <1>16
  <2>4. Event(e)'.kind \in Range(kinds) /\ Event(e)'.ts = ts
    BY <2>2 DEF Range
  <2> QED
    BY <2>2, <2>3, <2>4 DEF i
<1>21. ASSUME NEW k \in Range(kinds)
       PROVE  \E e \in EventsOf(r)' : /\ e \notin EventsOf(r)
                                      /\ Event(e)'.kind = k /\ Event(e)'.ts = ts
  <2>1. PICK n \in DOMAIN kinds : kinds[n] = k
    BY DEF Range
  <2>2. PICK e \in Prefix(Heads)' : e \notin Prefix(Heads)
                 /\ Event(e)' = [run |-> r, kind |-> kinds[n], ts |-> ts]
    BY <1>14
  <2> QED
    BY <2>1, <2>2, <1>16
<1> QED
  BY <1>7, <1>17, <1>19, <1>20, <1>21 DEF Grows

(* What a run has stays what it is: one that was decided or invoked twice       *)
(* remains so.                                                              *)
LEMMA GrowthKeeps ==
    ASSUME NEW r \in Runs, NEW K, NEW ts, Grows(r, K, ts), NEW s \in Runs
    PROVE  /\ Decisions(s) \subseteq Decisions(s)' /\ Invocations(s) \subseteq Invocations(s)'
           /\ \A k : Has(s, k) => Has(s, k)'
           /\ Plain(s)' => Plain(s)
<1>1. EventsOf(s) \subseteq EventsOf(s)' /\ \A e \in EventsOf(s) : Event(e)' = Event(e)
  BY DEF Grows
<1>2. Decisions(s) \subseteq Decisions(s)' /\ Invocations(s) \subseteq Invocations(s)'
  BY <1>1 DEF Decisions, Invocations
<1>3. \A k : Has(s, k) => Has(s, k)'
  BY <1>1 DEF Has
<1>4. (DecidedTwice(s) => DecidedTwice(s)') /\ (InvokedAgain(s) => InvokedAgain(s)')
  BY <1>2 DEF DecidedTwice, InvokedAgain
<1> QED
  BY <1>2, <1>3, <1>4 DEF Plain

(* The other runs, and every run if nothing is added, keep what they are. *)
LEMMA GrowthSpares ==
    ASSUME NEW r \in Runs, NEW K, NEW ts, Grows(r, K, ts), NEW s \in Runs, s # r \/ K = {}
    PROVE  /\ Decisions(s)' = Decisions(s) /\ Plain(s)' = Plain(s) /\ Sorted(s)' = Sorted(s)
           /\ \A t : JustCreated(s, t)' = JustCreated(s, t) /\ StampedBy(s, t)' = StampedBy(s, t)
<1>1. EventsOf(s)' = EventsOf(s)
  BY DEF Grows
<1>2. \A e \in EventsOf(s) : Event(e)' = Event(e)
  BY DEF Grows
<1>3. Decisions(s)' = Decisions(s) /\ Invocations(s)' = Invocations(s)
  BY <1>1, <1>2 DEF Decisions, Invocations
<1>4. Plain(s)' = Plain(s)
  BY <1>3 DEF Plain, DecidedTwice, InvokedAgain
<1>5. Sorted(s)' = Sorted(s)
  BY <1>1, <1>2 DEF Sorted
<1>6. \A t : JustCreated(s, t)' = JustCreated(s, t) /\ StampedBy(s, t)' = StampedBy(s, t)
  BY <1>1, <1>2 DEF JustCreated, StampedBy
<1> QED
  BY <1>3, <1>4, <1>5, <1>6

LEMMA GrowthIsAtHome ==
    ASSUME WrittenHome, NEW r \in Runs, NEW K, NEW ts, Grows(r, K, ts)
    PROVE  WrittenHome'
BY DEF WrittenHome, Grows

(* Events with the newest stamp leave a run sorted. *)
LEMMA GrowthFollows ==
    ASSUME SystemTypeOK, WrittenHome, NEW r \in Runs, NEW K, NEW ts \in Nat, Grows(r, K, ts),
           StampedBy(r, ts)
    PROVE  /\ \A t \in Nat : ts <= t => StampedBy(r, t)'
           /\ Sorted(r) => Sorted(r)'
<1>1. \A e \in EventsOf(r) : Event(e).ts \in Nat /\ Event(e)' = Event(e) /\ e[2] \in Nat
  BY Names DEF EventsOf, Record, Grows
<1>2. \A e \in EventsOf(r)' : e \notin EventsOf(r) =>
         Event(e)'.ts = ts /\ e[2] \in Nat /\ \A f \in EventsOf(r) : f[2] < e[2]
  BY DEF Grows, WrittenHome
<1>3. \A e \in EventsOf(r)' : Event(e)'.ts <= ts
  BY <1>1, <1>2 DEF StampedBy
<1>4. \A e \in EventsOf(r)' : Event(e)'.ts \in Nat
  BY <1>1, <1>2
<1>5. \A t \in Nat : ts <= t => StampedBy(r, t)'
  BY <1>3, <1>4 DEF StampedBy
<1>6. ASSUME Sorted(r), NEW e \in EventsOf(r)', NEW f \in EventsOf(r)', e[2] <= f[2]
      PROVE  Event(e)'.ts <= Event(f)'.ts
  <2>1. CASE f \notin EventsOf(r)
    BY <2>1, <1>2, <1>3, <1>6
  <2>2. CASE f \in EventsOf(r) /\ e \in EventsOf(r)
    BY <2>2, <1>1, <1>6 DEF Sorted
  <2>3. CASE f \in EventsOf(r) /\ e \notin EventsOf(r)
    BY <2>3, <1>1, <1>2, <1>6
  <2> QED
    BY <2>1, <2>2, <2>3
<1> QED
  BY <1>5, <1>6 DEF Sorted

(* Stamps stay past when what is added is not of the future. *)
LEMMA GrowthIsPast ==
    ASSUME SystemTypeOK, \A s \in Runs : StampedBy(s, now), NEW r \in Runs, NEW K, NEW ts \in Nat,
           Grows(r, K, ts), ts <= now, now' \in Nat, now <= now'
    PROVE  \A s \in Runs : StampedBy(s, now)'
<1> SUFFICES ASSUME NEW s \in Runs, NEW e \in EventsOf(s)' PROVE Event(e)'.ts <= now'
  BY DEF StampedBy
<1>0. now \in Nat
  BY DEF SystemTypeOK
<1>1. CASE e \in EventsOf(s)
  <2>1. Event(e).ts \in Nat /\ Event(e)' = Event(e) /\ Event(e).ts <= now
    BY <1>1, Names DEF EventsOf, Record, Grows, StampedBy
  <2> QED
    BY <2>1, <1>0
<1>2. CASE e \notin EventsOf(s)
  <2>1. Event(e)'.ts = ts
    BY <1>2 DEF Grows
  <2> QED
    BY <2>1, <1>0
<1> QED
  BY <1>1, <1>2

(* A run that has an event begins with its creation. *)
LEMMA GrowthBegins ==
    ASSUME \A s \in Runs : EventsOf(s) # {} => Invocations(s) # {},
           NEW r \in Runs, NEW K, NEW ts, Grows(r, K, ts),
           K = {} \/ "created" \in K \/ EventsOf(r) # {}
    PROVE  \A s \in Runs : EventsOf(s)' # {} => Invocations(s)' # {}
<1> SUFFICES ASSUME NEW s \in Runs, EventsOf(s)' # {} PROVE Invocations(s)' # {}
  OBVIOUS
<1>1. CASE EventsOf(s) # {}
  BY <1>1, GrowthKeeps
<1>2. CASE EventsOf(s) = {}
  <2>1. s = r /\ "created" \in K
    BY <1>2 DEF Grows
  <2> QED
    BY <2>1 DEF Grows, Invocations
<1> QED
  BY <1>1, <1>2

(* A step that adds to one run at most, when nothing that is at hand is older    *)
(* than what it adds.                                                       *)
LEMMA StepKeeps ==
    ASSUME ConsoleIInv, SystemTypeOK', BusyHasAnItem',
           NEW r \in Runs, NEW K, NEW ts \in Nat, Grows(r, K, ts),
           K = {} \/ "created" \in K \/ EventsOf(r) # {},
           ts <= now, now <= now',
           \A item \in AtHand' : item \notin AtHand =>
              /\ item.ts <= now'
              /\ item.of = "approval" => /\ \E d \in Decisions(item.run)' : Event(d)'.ts = item.ts
                                         /\ Plain(item.run)' => StampedBy(item.run, item.ts)',
           \A s \in Runs, m \in Managers :
              deciding'[m].pc = "resolve" /\ deciding'[m] # deciding[m] /\ deciding'[m].run = s =>
                 deciding'[m].ts <= now' /\ Has(s, "parked")' /\ \A t : t = deciding'[m].ts => StampedBy(s, t)',
           \A s \in Runs : Busy' /\ worker'.item.run = s =>
              (Busy /\ worker.item.run = s) \/ Invocations(s)' # {},
           \A s \in Runs : worker'.pc = "run" /\ worker'.item.of = "trigger" /\ worker'.item.run = s
              /\ Plain(s)' => \A t : t = worker'.item.ts => JustCreated(s, t)',
           K # {} /\ Plain(r)' =>
              /\ StampedBy(r, ts)
              /\ \A item \in AtHand : item.run = r /\ item.of = "approval" => ts <= item.ts
              /\ \A m \in Managers : deciding[m].pc = "resolve" /\ deciding[m].run = r
                                     /\ Decisions(r)' = {} => ts <= deciding[m].ts
    PROVE  ConsoleIInv'
<1> USE DEF ConsoleIInv
<1>0. now \in Nat /\ now' \in Nat
  BY ConsoleAssumption DEF SystemTypeOK
<1>1. AtHand \subseteq Item /\ AtHand' \subseteq Item
  BY DEF AtHand, BusyHasAnItem, SystemTypeOK
<1>2. \A item \in Item : item.run \in Runs /\ item.ts \in Nat
  BY ConsoleAssumption DEF Item
<1>3. \A m \in Managers : deciding[m].run \in Runs /\ deciding[m].ts \in Nat
                          /\ deciding'[m].run \in Runs /\ deciding'[m].ts \in Nat
  <2>1. \A q \in Request : q.run \in Runs /\ q.ts \in Nat
    BY ConsoleAssumption DEF Request
  <2> QED
    BY <2>1 DEF SystemTypeOK
<1>4. WrittenHome'
  BY GrowthIsAtHome
<1>5. StampsArePast'
  <2>1. \A s \in Runs : StampedBy(s, now)'
    BY <1>0, GrowthIsPast DEF StampsArePast
  <2>2. ASSUME NEW item \in AtHand' PROVE item.ts <= now'
    <3>1. CASE item \in AtHand
      BY <3>1, <1>0, <1>1, <1>2 DEF StampsArePast
    <3> QED
      BY <3>1
  <2>3. ASSUME NEW m \in Managers, deciding'[m].pc = "resolve" PROVE deciding'[m].ts <= now'
    <3>1. CASE deciding'[m] = deciding[m]
      BY <2>3, <3>1, <1>0, <1>3 DEF StampsArePast
    <3> QED
      BY <2>3, <3>1, <1>3
  <2> QED
    BY <2>1, <2>2, <2>3 DEF StampsArePast
<1>6. EveryRunBegins'
  <2>1. \A s \in Runs : EventsOf(s)' # {} => Invocations(s)' # {}
    BY GrowthBegins DEF EveryRunBegins
  <2>2. ASSUME NEW s \in Runs, Busy', worker'.item.run = s PROVE Invocations(s)' # {}
    <3>1. CASE Busy /\ worker.item.run = s
      BY <3>1, GrowthKeeps DEF EveryRunBegins
    <3> QED
      BY <2>2, <3>1
  <2>3. ASSUME NEW item \in AtHand', item.of = "approval"
        PROVE  \E d \in Decisions(item.run)' : Event(d)'.ts = item.ts
    <3>1. CASE item \in AtHand
      <4>1. PICK d \in Decisions(item.run) : Event(d).ts = item.ts
        BY <2>3, <3>1 DEF EveryRunBegins
      <4>2. d \in EventsOf(item.run) /\ item.run \in Runs
        BY <4>1, <1>1, <1>2 DEF Decisions
      <4>3. d \in Decisions(item.run)'
        BY <4>1, <4>2, GrowthKeeps
      <4> QED
        BY <4>1, <4>2, <4>3 DEF Grows
    <3> QED
      BY <2>3, <3>1
  <2>4. ASSUME NEW s \in Runs, NEW m \in Managers, deciding'[m].pc = "resolve", deciding'[m].run = s
        PROVE  Has(s, "parked")'
    <3>1. CASE deciding'[m] = deciding[m]
      BY <2>4, <3>1, GrowthKeeps DEF EveryRunBegins
    <3> QED
      BY <2>4, <3>1
  <2>5. \A s \in Runs : EventsOf(s)' # {} \/ (Busy' /\ worker'.item.run = s) => Invocations(s)' # {}
    BY <2>1, <2>2
  <2> QED
    BY <2>3, <2>4, <2>5 DEF EveryRunBegins
<1>7. ASSUME NEW s \in Runs, Plain(s)'
      PROVE  /\ Sorted(s)'
             /\ \A item \in AtHand' : item.run = s /\ item.of = "approval" => StampedBy(s, item.ts)'
             /\ \A m \in Managers : deciding'[m].pc = "resolve" /\ deciding'[m].run = s
                                    /\ Decisions(s)' = {}
                                    => \A t : t = deciding'[m].ts => StampedBy(s, t)'
  <2>0. Plain(s) /\ Decisions(s) \subseteq Decisions(s)'
    BY <1>7, GrowthKeeps
  <2>1. /\ Sorted(s)
        /\ \A item \in AtHand : item.run = s /\ item.of = "approval" => StampedBy(s, item.ts)
        /\ \A m \in Managers : deciding[m].pc = "resolve" /\ deciding[m].run = s
                               /\ Decisions(s) = {} => StampedBy(s, deciding[m].ts)
    BY <2>0 DEF StampsFollow
  <2>2. /\ Sorted(s)'
        /\ \A item \in AtHand : item.run = s /\ item.of = "approval" => StampedBy(s, item.ts)'
        /\ \A m \in Managers : deciding[m].pc = "resolve" /\ deciding[m].run = s
                               /\ Decisions(s)' = {}
                               => \A t : t = deciding[m].ts => StampedBy(s, t)'
    <3>1. CASE s # r \/ K = {}
      <4>1. /\ Decisions(s)' = Decisions(s) /\ Sorted(s)' = Sorted(s)
            /\ \A t : StampedBy(s, t)' = StampedBy(s, t)
        BY <3>1, GrowthSpares
      <4> QED
        BY <2>1, <4>1
    <3>2. CASE s = r /\ K # {}
      <4>1. /\ StampedBy(r, ts)
            /\ \A item \in AtHand : item.run = r /\ item.of = "approval" => ts <= item.ts
            /\ \A m \in Managers : deciding[m].pc = "resolve" /\ deciding[m].run = r
                                   /\ Decisions(r)' = {} => ts <= deciding[m].ts
        BY <3>2, <1>7
      <4>2. (\A t \in Nat : ts <= t => StampedBy(r, t)') /\ Sorted(r)'
        BY <2>1, <3>2, <4>1, GrowthFollows
      <4> QED
        BY <3>2, <4>1, <4>2, <1>1, <1>2, <1>3
    <3> QED
      BY <3>1, <3>2
  <2>3. ASSUME NEW item \in AtHand', item.run = s, item.of = "approval" PROVE StampedBy(s, item.ts)'
    BY <1>7, <2>2, <2>3
  <2>4. ASSUME NEW m \in Managers, deciding'[m].pc = "resolve", deciding'[m].run = s, Decisions(s)' = {}
        PROVE  \A t : t = deciding'[m].ts => StampedBy(s, t)'
    BY <2>2, <2>4
  <2> QED
    BY <2>2, <2>3, <2>4
<1>8. StampsFollow'
  <2> SUFFICES ASSUME NEW s \in Runs, Plain(s)'
               PROVE  /\ Sorted(s)'
                      /\ worker'.pc = "run" /\ worker'.item.run = s /\ worker'.item.of = "trigger"
                         => JustCreated(s, worker.item.ts)'
                      /\ \A item \in AtHand' : item.run = s /\ item.of = "approval" => StampedBy(s, item.ts)'
                      /\ \A m \in Managers :
                            deciding'[m].pc = "resolve" /\ deciding'[m].run = s /\ Decisions(s)' = {}
                            => StampedBy(s, deciding[m].ts)'
    BY DEF StampsFollow
  <2>1. worker'.pc = "run" /\ worker'.item.run = s /\ worker'.item.of = "trigger"
        => JustCreated(s, worker.item.ts)'
    BY DEF JustCreated
  <2>2. \A m \in Managers : deciding'[m].pc = "resolve" /\ deciding'[m].run = s /\ Decisions(s)' = {}
                            => StampedBy(s, deciding[m].ts)'
    BY <1>7 DEF StampedBy
  <2> QED
    BY <1>7, <2>1, <2>2
<1> QED
  BY <1>4, <1>5, <1>6, <1>8

(* A step that leaves the journal alone. *)
LEMMA QuietStepKeeps ==
    ASSUME ConsoleIInv, SystemTypeOK', BusyHasAnItem', UNCHANGED journal, now <= now',
           \A item \in AtHand' : item \notin AtHand => item.ts <= now' /\ item.of = "trigger",
           \A s \in Runs, m \in Managers :
              deciding'[m].pc = "resolve" /\ deciding'[m] # deciding[m] /\ deciding'[m].run = s =>
                 deciding'[m].ts = now /\ Has(s, "parked"),
           \/ worker'.pc = "idle" \/ worker' = worker
           \/ worker'.item \in AtHand /\ worker'.item.of = "approval"
    PROVE  ConsoleIInv'
<1> USE DEF ConsoleIInv
<1>0. now \in Nat /\ now' \in Nat
  BY ConsoleAssumption DEF SystemTypeOK
<1>1. PICK r \in Runs : TRUE
  BY ConsoleAssumption
<1>2. Grows(r, {}, 0)
  BY NothingGrows
<1>3. \A s \in Runs : /\ \A k : Has(s, k) => Has(s, k)'
                      /\ Invocations(s) \subseteq Invocations(s)' /\ Plain(s)' = Plain(s)
                      /\ \A t : JustCreated(s, t)' = JustCreated(s, t) /\ StampedBy(s, t)' = StampedBy(s, t)
  BY <1>2, GrowthKeeps, GrowthSpares
<1>4. ASSUME NEW s \in Runs, NEW m \in Managers,
             deciding'[m].pc = "resolve", deciding'[m] # deciding[m], deciding'[m].run = s
      PROVE  deciding'[m].ts <= now' /\ Has(s, "parked")' /\ \A t : t = deciding'[m].ts => StampedBy(s, t)'
  <2>1. deciding'[m].ts = now /\ Has(s, "parked") /\ StampedBy(s, now)
    BY <1>4 DEF StampsArePast
  <2> QED
    BY <2>1, <1>0, <1>3
<1>5. ASSUME NEW s \in Runs, Busy', worker'.item.run = s
      PROVE  (Busy /\ worker.item.run = s) \/ Invocations(s)' # {}
  <2>1. CASE worker' = worker
    BY <1>5, <2>1 DEF Busy
  <2>2. CASE worker'.item \in AtHand /\ worker'.item.of = "approval"
    <3>1. \E d \in Decisions(s) : TRUE
      BY <1>5, <2>2 DEF EveryRunBegins
    <3>2. EventsOf(s) # {}
      BY <3>1 DEF Decisions
    <3> QED
      BY <3>2, <1>3 DEF EveryRunBegins
  <2> QED
    BY <1>5, <2>1, <2>2 DEF Busy
<1>6. ASSUME NEW s \in Runs, worker'.pc = "run", worker'.item.of = "trigger", worker'.item.run = s, Plain(s)'
      PROVE  \A t : t = worker'.item.ts => JustCreated(s, t)'
  <2>1. worker' = worker
    BY <1>6
  <2> QED
    BY <1>3, <1>6, <2>1 DEF StampsFollow
<1> HIDE DEF ConsoleIInv
<1> QED
  BY <1>0, <1>1, <1>2, <1>4, <1>5, <1>6, StepKeeps

LEMMA TickMoves == ASSUME ConsoleIInv, Tick PROVE ConsoleIInv'
<1> USE DEF ConsoleIInv
<1>1. now \in 0 .. MaxTime /\ now' = now + 1 /\ now < MaxTime /\ MaxTime \in Nat
  BY ConsoleAssumption DEF Tick, SystemTypeOK
<1>2. SystemTypeOK' /\ BusyHasAnItem'
  BY <1>1 DEF Tick, SystemTypeOK, BusyHasAnItem, Busy
<1> QED
  BY <1>1, <1>2, QuietStepKeeps DEF Tick, AtHand, Busy, StampsArePast

LEMMA TriggerRunMoves == ASSUME ConsoleIInv, NEW r \in Runs, TriggerRun(r) PROVE ConsoleIInv'
<1> USE DEF ConsoleIInv
<1> DEFINE item == [run |-> r, of |-> "trigger", ts |-> now]
<1>1. item \in Item /\ now \in Nat
  BY ConsoleAssumption DEF SystemTypeOK, Item
<1>2. SystemTypeOK' /\ BusyHasAnItem'
  BY <1>1 DEF TriggerRun, SystemTypeOK, BusyHasAnItem, Busy
<1>3. \A i \in AtHand' : i \notin AtHand => i.ts <= now' /\ i.of = "trigger"
  BY <1>1 DEF TriggerRun, AtHand, Busy
<1> QED
  BY <1>1, <1>2, <1>3, QuietStepKeeps DEF TriggerRun

LEMMA ResumeMoves == ASSUME ConsoleIInv, Resume PROVE ConsoleIInv'
<1> USE DEF ConsoleIInv
<1>1. PICK item \in items : item.of = "approval" /\ Take(item)
  BY DEF Resume
<1>2. item \in Item /\ items \subseteq Item /\ now \in Nat
  BY ConsoleAssumption DEF SystemTypeOK
<1>3. SystemTypeOK'
  BY <1>1, <1>2 DEF Resume, SystemTypeOK, Take
<1>4. BusyHasAnItem' /\ AtHand' \subseteq AtHand /\ worker'.item = item /\ item \in AtHand
  BY <1>1, <1>2 DEF BusyHasAnItem, Busy, AtHand, Take
<1> QED
  BY <1>1, <1>2, <1>3, <1>4, QuietStepKeeps DEF Resume

(* The worker is done with its item, or gives it back. *)
LEMMA HandBackMoves ==
    ASSUME ConsoleIInv, UNCHANGED <<journal, now, deciding>>, WorkerReturns,
           saved' \subseteq Runs, items' \subseteq AtHand
    PROVE  ConsoleIInv'
<1> USE DEF ConsoleIInv
<1>1. AtHand \subseteq Item /\ now \in Nat
  BY ConsoleAssumption DEF SystemTypeOK, AtHand, BusyHasAnItem
<1>2. SystemTypeOK'
  BY <1>1 DEF SystemTypeOK, WorkerReturns
<1>3. BusyHasAnItem' /\ AtHand' \subseteq AtHand /\ worker'.pc = "idle"
  BY DEF BusyHasAnItem, Busy, AtHand, WorkerReturns
<1> QED
  BY <1>1, <1>2, <1>3, QuietStepKeeps

LEMMA DoneMoves == ASSUME ConsoleIInv, SaveContinuation \/ Project \/ Raise PROVE ConsoleIInv'
<1> USE DEF ConsoleIInv
<1>1. saved \subseteq Runs /\ \A item \in Item : item.run \in Runs
  BY DEF SystemTypeOK, Item
<1>2. CASE SaveContinuation
  <2>1. worker.item.run \in Runs
    BY <1>1, <1>2 DEF SaveContinuation, BusyHasAnItem, Busy
  <2> QED
    BY <1>1, <1>2, <2>1, HandBackMoves DEF SaveContinuation, AtHand
<1>3. CASE Project
  BY <1>1, <1>3, HandBackMoves DEF Project, AtHand
<1>4. CASE Raise
  BY <1>1, <1>4, HandBackMoves DEF Raise, AtHand, Busy
<1> QED
  BY <1>2, <1>3, <1>4

LEMMA AskDecisionMoves == ASSUME ConsoleIInv, NEW m \in Managers, AskDecision(m) PROVE ConsoleIInv'
<1> USE DEF ConsoleIInv
<1>1. PICK r \in Runs, decision \in {"approve", "reject"} :
         /\ InInbox(r)
         /\ deciding' = [deciding EXCEPT ![m] = [pc |-> "resolve", run |-> r, decision |-> decision, ts |-> now]]
  BY DEF AskDecision
<1> DEFINE q == [pc |-> "resolve", run |-> r, decision |-> decision, ts |-> now]
<1>2. q \in Request /\ now \in Nat
  BY ConsoleAssumption DEF Request, SystemTypeOK
<1>3. deciding'[m] = q /\ (\A n \in Managers : n # m => deciding'[n] = deciding[n])
      /\ deciding' \in [Managers -> Request]
  BY <1>1, <1>2 DEF SystemTypeOK
<1>4. SystemTypeOK' /\ BusyHasAnItem' /\ AtHand' = AtHand
  BY <1>3 DEF AskDecision, SystemTypeOK, BusyHasAnItem, Busy, AtHand
<1>5. \A s \in Runs, n \in Managers :
        deciding'[n].pc = "resolve" /\ deciding'[n] # deciding[n] /\ deciding'[n].run = s =>
           deciding'[n].ts = now /\ Has(s, "parked")
  BY <1>1, <1>3 DEF InInbox
<1> QED
  BY <1>2, <1>4, <1>5, QuietStepKeeps DEF AskDecision

(* The first event of a run is its creation; a second one ends what is promised. *)
LEMMA InvokeMoves == ASSUME ConsoleIInv, Invoke PROVE ConsoleIInv'
<1> USE DEF ConsoleIInv
<1>1. PICK item \in items : item.of = "trigger" /\ Take(item) /\ Put(item.run, <<"created">>, item.ts)
  BY DEF Invoke
<1> DEFINE r == item.run
           ts == item.ts
<1>2. item \in Item /\ items \subseteq Item /\ now \in Nat /\ item \in AtHand
  BY <1>1, ConsoleAssumption DEF SystemTypeOK, AtHand
<1>3. r \in Runs /\ ts \in 0 .. MaxTime /\ ts \in Nat /\ ts <= now
  BY <1>2, ConsoleAssumption DEF Item, StampsArePast
<1>4. <<"created">> \in Seq(Kinds) /\ Range(<<"created">>) = {"created"}
  BY DEF Kinds, Range
<1>5. Grows(r, {"created"}, ts) /\ journal' \in [InstanceIds -> Seq(Record)]
  BY <1>1, <1>3, <1>4, PutGrows
<1>6. SystemTypeOK'
  BY <1>1, <1>2, <1>5 DEF Invoke, SystemTypeOK, Take
<1>7. BusyHasAnItem' /\ AtHand' \subseteq AtHand /\ worker'.item = item
  BY <1>1, <1>2 DEF BusyHasAnItem, Busy, AtHand, Take
<1> HIDE DEF r, ts
<1>8. PICK e \in EventsOf(r)' : e \notin EventsOf(r) /\ Event(e)'.kind = "created"
  BY <1>5 DEF Grows
<1>9. e \in Invocations(r)'
  BY <1>8 DEF Invocations
<1>10. Plain(r)' => EventsOf(r) = {}
  <2> SUFFICES ASSUME EventsOf(r) # {} PROVE InvokedAgain(r)'
    BY DEF Plain
  <2>1. PICK d \in Invocations(r) : TRUE
    BY <1>3 DEF EveryRunBegins
  <2>2. d \in EventsOf(r) /\ d \in Invocations(r)'
    BY <2>1, <1>3, <1>5, GrowthKeeps DEF Invocations
  <2> QED
    BY <2>2, <1>8, <1>9 DEF InvokedAgain
<1>11. Plain(r)' => /\ StampedBy(r, ts)
                    /\ \A i \in AtHand : ~(i.run = r /\ i.of = "approval")
                    /\ \A m \in Managers : ~(deciding[m].pc = "resolve" /\ deciding[m].run = r)
  BY <1>3, <1>10 DEF StampedBy, EveryRunBegins, Decisions, Has
<1>12. Plain(r)' => JustCreated(r, ts)'
  BY <1>5, <1>10 DEF JustCreated, Grows
<1>13. \A s \in Runs : worker'.pc = "run" /\ worker'.item.of = "trigger" /\ worker'.item.run = s
          /\ Plain(s)' => \A t : t = worker'.item.ts => JustCreated(s, t)'
  BY <1>7, <1>12 DEF r, ts
<1>14. \A s \in Runs : Busy' /\ worker'.item.run = s => Invocations(s)' # {}
  BY <1>7, <1>9 DEF r
<1>15. now' = now /\ now <= now' /\ deciding' = deciding
  BY <1>2 DEF Invoke
<1> DEFINE K == {"created"}
<1>16. Grows(r, K, ts) /\ "created" \in K
  BY <1>5
<1> HIDE DEF ConsoleIInv, K
<1>17. \A i \in AtHand' : i \in AtHand
  BY <1>7
<1>18. \A s \in Runs, m \in Managers : deciding'[m] = deciding[m]
  BY <1>15
<1> QED
  BY <1>3, <1>6, <1>7, <1>11, <1>13, <1>14, <1>15, <1>16, <1>17, <1>18, StepKeeps

(* What the worker appends for an item is no older than what the run has. *)
LEMMA WorkerMoves == ASSUME ConsoleIInv, Park \/ Settle PROVE ConsoleIInv'
<1> USE DEF ConsoleIInv
<1> DEFINE item == worker.item
<1>1. PICK kind \in {"parked", "settled"}, pc \in {"save", "settle"} :
         Put(item.run, <<kind>>, item.ts) /\ WorkerGoto(pc)
  BY DEF Park, Settle, Stamp
<1>2. worker.pc = "run" /\ Busy /\ UNCHANGED <<now, items, saved, deciding>>
  BY DEF Park, Settle, Busy
<1>3. item \in Item /\ now \in Nat /\ item \in AtHand
  BY <1>2, ConsoleAssumption DEF SystemTypeOK, AtHand, BusyHasAnItem
<1>4. worker' = [item |-> item, pc |-> pc]
  BY <1>1 DEF WorkerGoto, SystemTypeOK
<1>5. PICK r \in Runs, ts \in 0 .. MaxTime : r = item.run /\ ts = item.ts /\ ts \in Nat /\ ts <= now
  BY <1>3, ConsoleAssumption DEF Item, StampsArePast
<1>6. <<kind>> \in Seq(Kinds) /\ Range(<<kind>>) = {kind}
  BY DEF Kinds, Range
<1>7. Grows(r, {kind}, ts) /\ journal' \in [InstanceIds -> Seq(Record)]
  BY <1>1, <1>5, <1>6, PutGrows
<1>8. SystemTypeOK' /\ BusyHasAnItem' /\ AtHand' = AtHand /\ worker'.item = worker.item
  BY <1>2, <1>3, <1>4, <1>7 DEF SystemTypeOK, BusyHasAnItem, Busy, AtHand
<1>9. EventsOf(r) # {}
  BY <1>2, <1>5 DEF EveryRunBegins, Invocations
<1>10. ASSUME Plain(r)'
       PROVE  /\ StampedBy(r, ts)
              /\ \A i \in AtHand : i.run = r /\ i.of = "approval" => ts <= i.ts
              /\ \A m \in Managers : deciding[m].pc = "resolve" /\ deciding[m].run = r
                                     /\ Decisions(r)' = {} => ts <= deciding[m].ts
  <2>1. Plain(r) /\ Decisions(r) \subseteq Decisions(r)'
    BY <1>7, <1>10, GrowthKeeps
  <2>2. CASE item.of = "trigger"
    <3>1. JustCreated(r, ts)
      BY <2>1, <2>2, <1>2, <1>5 DEF StampsFollow
    <3>2. StampedBy(r, ts) /\ Decisions(r) = {} /\ ~Has(r, "parked")
      BY <3>1, <1>5 DEF JustCreated, StampedBy, Decisions, Has
    <3> QED
      BY <3>2 DEF EveryRunBegins
  <2>3. CASE item.of = "approval"
    <3>1. StampedBy(r, ts)
      BY <2>1, <2>3, <1>3, <1>5 DEF StampsFollow
    <3>2. \A i \in AtHand : i.run = r /\ i.of = "approval" => \E d \in Decisions(r) : Event(d).ts = i.ts
      BY DEF EveryRunBegins
    <3>3. PICK d \in Decisions(r) : Event(d).ts = ts
      BY <2>3, <3>2, <1>3, <1>5
    <3>4. \A e \in Decisions(r) : e = d
      BY <2>1 DEF Plain, DecidedTwice
    <3>5. \A i \in AtHand : i.run = r /\ i.of = "approval" => ts = i.ts
      BY <3>2, <3>3, <3>4
    <3> QED
      BY <2>1, <3>1, <3>3, <3>5, <1>5
  <2> QED
    BY <2>2, <2>3, <1>3 DEF Item
<1> DEFINE K == {kind}
<1>11. Grows(r, K, ts)
  BY <1>7
<1> HIDE DEF ConsoleIInv, K
<1>12. now' = now /\ now <= now' /\ deciding' = deciding /\ worker'.pc # "run"
  BY <1>2, <1>3, <1>4
<1>13. \A s \in Runs, m \in Managers : deciding'[m] = deciding[m]
  BY <1>12
<1> QED
  BY <1>2, <1>5, <1>8, <1>9, <1>10, <1>11, <1>12, <1>13, StepKeeps

(* A decision is no older than what its run has, unless there was one before. *)
LEMMA ResolveMoves == ASSUME ConsoleIInv, NEW m \in Managers, Resolve(m) PROVE ConsoleIInv'
<1> USE DEF ConsoleIInv
<1> DEFINE q == deciding[m]
<1>1. q \in Request /\ q.pc = "resolve" /\ now \in Nat
  BY ConsoleAssumption DEF Resolve, SystemTypeOK
<1>2. PICK r \in Runs, ts \in 0 .. MaxTime, decision \in {"approve", "reject"} :
         r = q.run /\ ts = q.ts /\ decision = q.decision
  BY <1>1 DEF Request
<1>3. ts \in Nat /\ ts <= now
  BY <1>1, <1>2, ConsoleAssumption DEF StampsArePast
<1>4. <<"action", decision>> \in Seq(Kinds) /\ Range(<<"action", decision>>) = {"action", decision}
  BY DEF Kinds, Range
<1>5. Put(r, <<"action", decision>>, ts) /\ UNCHANGED <<now, worker>>
  BY <1>2 DEF Resolve
<1> DEFINE K == {"action", decision}
<1>6. Grows(r, K, ts) /\ journal' \in [InstanceIds -> Seq(Record)]
  BY <1>4, <1>5, PutGrows
<1> DEFINE new == [run |-> r, of |-> "approval", ts |-> ts]
<1>7. new \in Item
  BY DEF Item
<1>8. items' \subseteq items \cup {new} /\ saved' \subseteq saved
  BY <1>2 DEF Resolve
<1>9. /\ deciding' \in [Managers -> Request] /\ deciding'[m].pc = "done"
      /\ \A n \in Managers : n # m => deciding'[n] = deciding[n]
  <2> DEFINE p == [q EXCEPT !.pc = "done"]
  <2>1. p \in Request /\ p.pc = "done"
    BY <1>1 DEF Request
  <2>2. deciding' = [deciding EXCEPT ![m] = p]
    BY DEF Resolve
  <2> HIDE DEF p
  <2> QED
    BY <2>1, <2>2 DEF SystemTypeOK
<1>10. SystemTypeOK' /\ BusyHasAnItem'
  BY <1>5, <1>6, <1>7, <1>8, <1>9 DEF SystemTypeOK, BusyHasAnItem, Busy
<1>11. AtHand' \subseteq AtHand \cup {new} /\ new.run = r /\ new.of = "approval" /\ new.ts = ts
  BY <1>5, <1>8 DEF AtHand, Busy
<1> HIDE DEF new
<1>12. EventsOf(r) # {} /\ Has(r, "parked")
  BY <1>1, <1>2 DEF EveryRunBegins, Has
<1>13. PICK e \in EventsOf(r)' : e \notin EventsOf(r) /\ Event(e)'.kind = decision /\ Event(e)'.ts = ts
  BY <1>6 DEF Grows
<1>14. e \in Decisions(r)'
  BY <1>13 DEF Decisions
<1>15. ASSUME Plain(r)' PROVE Decisions(r) = {} /\ Plain(r) /\ StampedBy(r, ts)
  <2>1. Plain(r) /\ Decisions(r) \subseteq Decisions(r)'
    BY <1>6, <1>15, GrowthKeeps
  <2>2. Decisions(r) = {}
    <3> SUFFICES ASSUME NEW d \in Decisions(r) PROVE FALSE
      OBVIOUS
    <3>1. d \in EventsOf(r) /\ d \in Decisions(r)'
      BY <2>1 DEF Decisions
    <3> QED
      BY <3>1, <1>13, <1>14, <1>15 DEF Plain, DecidedTwice
  <2> QED
    BY <2>1, <2>2, <1>1, <1>2 DEF StampsFollow
<1>16. Plain(r)' => \A i \in AtHand : ~(i.run = r /\ i.of = "approval")
  BY <1>15 DEF EveryRunBegins
<1>17. Plain(r)' => StampedBy(r, ts)'
  BY <1>3, <1>6, <1>15, GrowthFollows
<1>18. ASSUME NEW s \in Runs, worker'.pc = "run", worker'.item.of = "trigger", worker'.item.run = s, Plain(s)'
       PROVE  \A t : t = worker'.item.ts => JustCreated(s, t)'
  <2>1. Plain(s)
    BY <1>6, <1>18, GrowthKeeps
  <2>2. JustCreated(s, worker.item.ts)
    BY <2>1, <1>5, <1>18 DEF StampsFollow
  <2>3. s # r
    BY <2>2, <1>12 DEF JustCreated, Has
  <2> QED
    BY <2>2, <2>3, <1>5, <1>6, GrowthSpares
<1>19. \A i \in AtHand' : i \notin AtHand =>
          /\ i.ts <= now'
          /\ i.of = "approval" => /\ \E d \in Decisions(i.run)' : Event(d)'.ts = i.ts
                                  /\ Plain(i.run)' => StampedBy(i.run, i.ts)'
  BY <1>3, <1>5, <1>11, <1>13, <1>14, <1>17
<1>20. \A s \in Runs, n \in Managers :
          ~(deciding'[n].pc = "resolve" /\ deciding'[n] # deciding[n] /\ deciding'[n].run = s)
  BY <1>9
<1>21. \A s \in Runs : Busy' /\ worker'.item.run = s => Busy /\ worker.item.run = s
  BY <1>5 DEF Busy
<1>22. K # {} /\ Plain(r)' =>
         /\ StampedBy(r, ts)
         /\ \A i \in AtHand : i.run = r /\ i.of = "approval" => ts <= i.ts
         /\ \A n \in Managers : deciding[n].pc = "resolve" /\ deciding[n].run = r
                                /\ Decisions(r)' = {} => ts <= deciding[n].ts
  BY <1>14, <1>15, <1>16
<1>23. now <= now'
  BY <1>1, <1>5
<1>24. \A s \in Runs : worker'.pc = "run" /\ worker'.item.of = "trigger" /\ worker'.item.run = s
          /\ Plain(s)' => \A t : t = worker'.item.ts => JustCreated(s, t)'
  BY <1>18
<1> HIDE DEF ConsoleIInv, K
<1> QED
  BY <1>3, <1>6, <1>10, <1>12, <1>19, <1>20, <1>21, <1>22, <1>23, <1>24, StepKeeps

LEMMA ConsoleInitInv == ConsoleInit => ConsoleIInv
<1> SUFFICES ASSUME ConsoleInit PROVE ConsoleIInv
  OBVIOUS
<1> USE DEF ConsoleInit
<1>1. NoItem.run \in Runs
  BY ConsoleAssumption DEF NoItem
<1>2. NoRequest \in Request /\ NoRequest.pc = "idle"
  BY <1>1, ConsoleAssumption DEF NoRequest, Request
<1>3. SystemTypeOK
  BY <1>2, ConsoleAssumption DEF SystemTypeOK
<1>4. AtHand = {} /\ ~Busy
  BY DEF AtHand, Busy
<1>5. \A r : EventsOf(r) = {}
  BY DEF EventsOf, Prefix, Heads
<1>6. \A m \in Managers : deciding[m].pc = "idle"
  BY <1>2
<1>7. WrittenHome /\ StampsArePast /\ EveryRunBegins
  BY <1>4, <1>5, <1>6 DEF WrittenHome, StampsArePast, StampedBy, EveryRunBegins
<1>8. StampsFollow
  BY <1>4, <1>5, <1>6 DEF StampsFollow, Sorted, Busy
<1> QED
  BY <1>3, <1>4, <1>7, <1>8 DEF ConsoleIInv, BusyHasAnItem

LEMMA ConsoleNextInv == ConsoleIInv /\ [ConsoleNext]_consoleVars => ConsoleIInv'
<1> SUFFICES ASSUME ConsoleIInv, [ConsoleNext]_consoleVars PROVE ConsoleIInv'
  OBVIOUS
<1>1. CASE System
  BY <1>1, TickMoves, TriggerRunMoves, InvokeMoves, ResumeMoves, WorkerMoves, DoneMoves,
     AskDecisionMoves, ResolveMoves DEF System
<1>2. CASE UNCHANGED system
  <2>1. SystemTypeOK' /\ BusyHasAnItem' /\ AtHand' = AtHand /\ now \in Nat
    BY <1>2, ConsoleAssumption DEF system, ConsoleIInv, SystemTypeOK, BusyHasAnItem, AtHand, Busy
  <2> QED
    BY <1>2, <2>1, QuietStepKeeps DEF system
<1>3. System \/ UNCHANGED system
  BY DEF ConsoleNext, Serve, Connect, SendRecent, Poll, ReadInstance, EndIdle, Drop, Quiet, consoleVars
<1> QED
  BY <1>1, <1>2, <1>3

(* The strengthening holds in every reachable state. *)
LEMMA ConsoleInvariance == ConsoleSpec => []ConsoleIInv
BY ConsoleInitInv, ConsoleNextInv, PTL DEF ConsoleSpec

(* A set of naturals that is not empty has a least element. *)
LEMMA LeastNat ==
    ASSUME NEW S \in SUBSET Nat, S # {}
    PROVE  \E n \in S : \A m \in S : n <= m
<1> DEFINE R == OpToRel(<, Nat)
<1>1. IsWellFoundedOn(R, Nat)
  BY NatLessThanWellFounded
<1>2. \A x, y \in Nat : <<y, x>> \in R <=> y < x
  BY DEF OpToRel
<1> HIDE DEF R
<1>3. \E x \in S : \A y \in S : ~ (<<y, x>> \in R)
  BY <1>1, WFMin
<1>4. PICK n \in S : \A m \in S : ~ (<<m, n>> \in R)
  BY <1>3
<1>5. \A m \in S : m \in Nat /\ n \in Nat /\ ~ (m < n)
  BY <1>2, <1>4
<1> QED
  BY <1>5

(* The journal is finite... *)
LEMMA TheJournalIsFinite == ASSUME SystemTypeOK PROVE IsFiniteSet(Prefix(Heads))
<1> DEFINE f == [i \in InstanceIds |-> {i} \X (1 .. Len(journal[i]))]
           T == {f[i] : i \in InstanceIds}
<1>1. f \in Surjection(InstanceIds, T)
  BY DEF Surjection
<1>2. IsFiniteSet(T)
  BY <1>1, FS_Surjection, ConsoleAssumption
<1>3. ASSUME NEW i \in InstanceIds PROVE IsFiniteSet({i} \X (1 .. Len(journal[i])))
  <2>1. Len(journal[i]) \in Int /\ 1 \in Int
    BY DEF SystemTypeOK
  <2>2. IsFiniteSet(1 .. Len(journal[i])) /\ IsFiniteSet({i})
    BY <2>1, FS_Interval, FS_Singleton
  <2> QED
    BY <2>2, FS_Product
<1>4. \A S \in T : IsFiniteSet(S)
  BY <1>3
<1>5. Prefix(Heads) = UNION T
  BY DEF Prefix, Heads
<1> HIDE DEF T
<1> QED
  BY <1>2, <1>4, <1>5, FS_UNION

(* ...and its stamps order it. *)
LEMMA BeforeOrders ==
    ASSUME SystemTypeOK, NEW d \in Prefix(Heads), NEW e \in Prefix(Heads), NEW f \in Prefix(Heads)
    PROVE  /\ Before(d, e) /\ Before(e, f) => Before(d, f)
           /\ Before(d, e) => ~Before(e, d)
<1>1. \A g \in Prefix(Heads) : Event(g) \in Record /\ g[1] \in InstanceIds /\ g[2] \in Nat
  BY Names
<1>2. InstanceIds \subseteq Nat /\ \A x \in Record : x.ts \in Nat
  BY ConsoleAssumption DEF Record
<1>3. /\ Event(d).ts \in Nat /\ d[1] \in Nat /\ d[2] \in Nat
      /\ Event(e).ts \in Nat /\ e[1] \in Nat /\ e[2] \in Nat
      /\ Event(f).ts \in Nat /\ f[1] \in Nat /\ f[2] \in Nat
  BY <1>1, <1>2
<1> QED
  BY <1>3 DEF Before

(* What is newer than one of the newest is one of them. *)
LEMMA NewestIsClosed ==
    ASSUME SystemTypeOK, NEW limit \in Nat, NEW d \in Newest(limit, Prefix(Heads)),
           NEW e \in Prefix(Heads), Before(d, e)
    PROVE  e \in Newest(limit, Prefix(Heads))
<1> DEFINE P == Prefix(Heads)
<1>1. d \in P /\ Cardinality(Later(d, P)) < limit
  BY DEF Newest
<1>2. Later(e, P) \subseteq Later(d, P)
  BY <1>1, BeforeOrders DEF Later
<1>3. IsFiniteSet(Later(d, P))
  BY TheJournalIsFinite, FS_Subset DEF Later
<1>4. /\ Cardinality(Later(e, P)) <= Cardinality(Later(d, P))
      /\ Cardinality(Later(e, P)) \in Nat /\ Cardinality(Later(d, P)) \in Nat
  BY <1>2, <1>3, FS_Subset, FS_CardinalityType
<1> QED
  BY <1>1, <1>4 DEF Newest

(* The events of a run that is invoked once and decided once come in the order   *)
(* of their stamps, so that the last in the journal is the last in the list.    *)
LEMMA SortedRunsAgree ==
    ASSUME ConsoleIInv, NEW r \in Runs, Plain(r), Telling(Listed(r)) # {}
    PROVE  ListState(r) = PageState(r)
<1> DEFINE E == Telling(EventsOf(r))
           L == Telling(Listed(r))
<1>1. SystemTypeOK /\ Sorted(r) /\ ListLimit \in Nat
  BY ConsoleAssumption DEF ConsoleIInv, StampsFollow
<1>2. E \subseteq EventsOf(r) /\ E \subseteq Prefix(Heads)
  BY DEF Telling, EventsOf
<1>3. \A e : e \in L <=> e \in E /\ e \in Newest(ListLimit, Prefix(Heads))
  BY DEF Telling, Listed
<1>4. \A e \in E : e \in InstanceIds \X Nat /\ e[1] = InstanceOf[r] /\ Event(e).ts \in Nat
  <2>1. \A e \in Prefix(Heads) : e \in InstanceIds \X Nat /\ Event(e).ts \in Nat
    BY <1>1, Names DEF Record
  <2> QED
    BY <1>2, <2>1 DEF ConsoleIInv, WrittenHome
<1>5. \A e, f \in E : e[2] < f[2] => Before(e, f)
  BY <1>1, <1>2, <1>4, ConsoleAssumption DEF Sorted, Before
<1>6. \A e, f \in E : Before(e, f) => ~Before(f, e)
  BY <1>1, <1>2, BeforeOrders
<1>7. \A e, f \in E : e[2] = f[2] => e = f
  BY <1>4
<1> HIDE DEF E, L
<1>8. \E e \in E : \A f \in E : f[2] <= e[2]
  <2> DEFINE n == Len(journal[InstanceOf[r]])
             B == {b \in Nat : \A f \in E : f[2] <= b}
  <2>1. n \in Nat /\ \A f \in E : f[2] <= n
    <3>1. n \in Nat
      BY <1>1, ConsoleAssumption DEF SystemTypeOK
    <3>2. \A f \in Prefix(Heads) : f[1] = InstanceOf[r] => f[2] <= n
      BY <1>1, Names
    <3> QED
      BY <3>1, <3>2, <1>2, <1>4
  <2>2. n \in B
    BY <2>1
  <2>3. PICK b \in B : \A c \in B : b <= c
    BY <2>2, LeastNat
  <2>4. PICK d \in E : TRUE
    BY <1>3 DEF L
  <2>5. CASE \E e \in E : e[2] = b
    BY <2>3, <2>5
  <2>6. CASE \A e \in E : e[2] # b
    <3>1. \A f \in E : f[2] \in Nat /\ f[2] < b
      BY <2>3, <2>6, <1>4
    <3>2. b - 1 \in B
      BY <2>3, <2>4, <3>1
    <3> QED
      BY <2>3, <3>2
  <2> QED
    BY <2>5, <2>6
<1>9. PICK e \in E : \A f \in E : f[2] <= e[2]
  BY <1>8
<1>10. \A f \in E : f # e => Before(f, e)
  BY <1>4, <1>5, <1>7, <1>9
<1>11. e \in L
  <2>1. PICK d \in L : TRUE
    BY DEF L
  <2>2. d \in E /\ d \in Newest(ListLimit, Prefix(Heads))
    BY <2>1, <1>3
  <2>3. e \in Newest(ListLimit, Prefix(Heads))
    BY <2>2, <1>1, <1>2, <1>10, NewestIsClosed
  <2> QED
    BY <2>3, <1>3
<1>12. \A d \in L : Later(d, L) = {} <=> d = e
  BY <1>3, <1>6, <1>10, <1>11 DEF Later
<1>13. (CHOOSE d \in L : Later(d, L) = {}) = e
  BY <1>11, <1>12
<1>14. \A d \in E : (\A f \in E : f[2] <= d[2]) <=> d = e
  BY <1>4, <1>7, <1>9
<1>15. (CHOOSE d \in E : \A f \in E : f[2] <= d[2]) = e
  BY <1>14
<1>16. ListState(r) = StateAfter(Event(CHOOSE d \in L : Later(d, L) = {}))
  BY DEF ListState, L
<1>17. PageState(r) = StateAfter(Event(CHOOSE d \in E : \A f \in E : f[2] <= d[2]))
  BY DEF PageState, E
<1> QED
  BY <1>13, <1>15, <1>16, <1>17

(* However triggers, retries, decisions and the worker interleave, and however   *)
(* old the stamps they append with: the run list shows the state that the page   *)
(* of the run shows, for a run that was invoked once and decided once.         *)
THEOREM ListShowsThePage == ConsoleSpec => []ListAgreesWithPage
<1>1. ConsoleIInv => ListAgreesWithPage
  BY SortedRunsAgree DEF ListAgreesWithPage, Plain
<1> QED
  BY <1>1, ConsoleInvariance, PTL

(* The journal, the items, the worker and the requests keep their types... *)
THEOREM SystemTypeCorrect == ConsoleSpec => []SystemTypeOK
<1>1. ConsoleIInv => SystemTypeOK
  BY DEF ConsoleIInv
<1> QED
  BY <1>1, ConsoleInvariance, PTL

(* ...and a run begins with its creation, parks before it is decided and is      *)
(* decided before it is resumed, in the instance it belongs to.               *)
THEOREM RunsBegin == ConsoleSpec => [](WrittenHome /\ EveryRunBegins)
<1>1. ConsoleIInv => WrittenHome /\ EveryRunBegins
  BY DEF ConsoleIInv
<1> QED
  BY <1>1, ConsoleInvariance, PTL

-----------------------------------------------------------------------------
(* The stream *)

(* The journal of an instance only grows, and writing does not read. *)
LEMMA PutLengthens ==
    ASSUME SystemTypeOK, NEW r \in Runs, NEW kinds \in Seq(Kinds), NEW ts, Put(r, kinds, ts)
    PROVE  \A i \in InstanceIds : Len(journal[i]) <= Len(journal'[i])
<1> DEFINE home == InstanceOf[r]
           new == [n \in DOMAIN kinds |-> [run |-> r, kind |-> kinds[n], ts |-> ts]]
<1>1. home \in InstanceIds /\ \A i \in InstanceIds : journal[i] \in Seq(Record)
  BY ConsoleAssumption DEF SystemTypeOK
<1>2. DOMAIN kinds = 1 .. Len(kinds) /\ Len(kinds) \in Nat
  OBVIOUS
<1>3. new \in Seq({new[n] : n \in DOMAIN kinds})
  BY <1>2
<1>4. journal' = [journal EXCEPT ![home] = @ \o new]
  BY DEF Put
<1> HIDE DEF new
<1>5. Len(journal[home] \o new) = Len(journal[home]) + Len(new) /\ Len(new) \in Nat
  BY <1>1, <1>3
<1>6. Len(journal[home]) <= Len(journal'[home])
  <2>1. journal'[home] = journal[home] \o new /\ Len(journal[home]) \in Nat
    BY <1>1, <1>4 DEF SystemTypeOK
  <2> QED
    BY <2>1, <1>5
<1>7. \A i \in InstanceIds : i # home => journal'[i] = journal[i]
  BY <1>1, <1>4 DEF SystemTypeOK
<1>8. \A i \in InstanceIds : Len(journal[i]) \in Nat
  BY <1>1
<1> QED
  BY <1>6, <1>7, <1>8

LEMMA SystemLengthens ==
    ASSUME ConsoleIInv, faults \in 0 .. MaxFaults, System
    PROVE  /\ \A i \in InstanceIds : Len(journal[i]) <= Len(journal'[i])
           /\ UNCHANGED <<stream, shown>> /\ faults' \in 0 .. MaxFaults
<1>1. SystemTypeOK /\ BusyHasAnItem
  BY DEF ConsoleIInv
<1>2. \A i \in InstanceIds : Len(journal[i]) \in Nat
  BY <1>1 DEF SystemTypeOK
<1>3. UNCHANGED <<stream, shown>> /\ faults' \in 0 .. MaxFaults
  <2>1. CASE Raise
    BY <2>1, ConsoleAssumption DEF Raise, Reading
  <2>2. CASE ~Raise
    BY <2>2 DEF System, Tick, Invoke, Resume, Park, SaveContinuation, Settle, Project, TriggerRun,
       AskDecision, Resolve, Quietly, Reading
  <2> QED
    BY <2>1, <2>2
<1>4. UNCHANGED journal \/ Invoke \/ Park \/ Settle \/ \E m \in Managers : Resolve(m)
  BY DEF System, Tick, Resume, SaveContinuation, Project, Raise, TriggerRun, AskDecision
<1>5. ASSUME \E r \in Runs, kinds \in Seq(Kinds), ts \in 0 .. MaxTime : Put(r, kinds, ts)
      PROVE  \A i \in InstanceIds : Len(journal[i]) <= Len(journal'[i])
  BY <1>1, <1>5, PutLengthens
<1>6. ASSUME Invoke PROVE \E r \in Runs, kinds \in Seq(Kinds), ts \in 0 .. MaxTime : Put(r, kinds, ts)
  <2>1. PICK item \in items : Put(item.run, <<"created">>, item.ts)
    BY <1>6 DEF Invoke
  <2>2. item.run \in Runs /\ item.ts \in 0 .. MaxTime /\ <<"created">> \in Seq(Kinds)
    BY <1>1 DEF SystemTypeOK, Item, Kinds
  <2> QED
    BY <2>1, <2>2
<1>7. ASSUME Park \/ Settle PROVE \E r \in Runs, kinds \in Seq(Kinds), ts \in 0 .. MaxTime : Put(r, kinds, ts)
  <2>1. worker.item \in Item
    BY <1>1, <1>7 DEF Park, Settle, BusyHasAnItem, Busy
  <2>2. /\ worker.item.run \in Runs /\ Stamp(worker.item) \in 0 .. MaxTime
        /\ <<"parked">> \in Seq(Kinds) /\ <<"settled">> \in Seq(Kinds)
    BY <2>1 DEF Item, Stamp, Kinds
  <2> QED
    BY <2>2, <1>7 DEF Park, Settle
<1>8. ASSUME NEW m \in Managers, Resolve(m)
      PROVE  \E r \in Runs, kinds \in Seq(Kinds), ts \in 0 .. MaxTime : Put(r, kinds, ts)
  <2>1. deciding[m] \in Request
    BY <1>1 DEF SystemTypeOK
  <2>2. /\ deciding[m].run \in Runs /\ deciding[m].ts \in 0 .. MaxTime
        /\ <<"action", deciding[m].decision>> \in Seq(Kinds)
    BY <2>1 DEF Request, Kinds
  <2>3. Put(deciding[m].run, <<"action", deciding[m].decision>>, deciding[m].ts)
    BY <1>8 DEF Resolve
  <2> QED
    BY <2>2, <2>3
<1> QED
  BY <1>2, <1>3, <1>4, <1>5, <1>6, <1>7, <1>8

(* A set of events of the journal that is not empty has a latest one. *)
LEMMA LatestOf ==
    ASSUME SystemTypeOK, NEW S \in SUBSET Prefix(Heads), S # {}
    PROVE  \E e \in S : \A f \in S : ~Before(e, f)
<1> DEFINE C == {Cardinality(Later(e, S)) : e \in S}
<1>1. ASSUME NEW e \in S PROVE IsFiniteSet(Later(e, S)) /\ Cardinality(Later(e, S)) \in Nat
  BY TheJournalIsFinite, FS_Subset, FS_CardinalityType DEF Later
<1>2. C \in SUBSET Nat /\ C # {}
  BY <1>1
<1>3. PICK n \in C : \A m \in C : n <= m
  BY <1>2, LeastNat
<1>4. PICK e \in S : n = Cardinality(Later(e, S))
  BY <1>3
<1>5. ASSUME NEW f \in S, Before(e, f) PROVE FALSE
  <2>1. Later(f, S) \subseteq Later(e, S) /\ f \in Later(e, S) /\ f \notin Later(f, S)
    BY <1>5, BeforeOrders DEF Later
  <2>2. Cardinality(Later(f, S)) < Cardinality(Later(e, S))
    BY <2>1, <1>1, FS_Subset
  <2>3. Cardinality(Later(e, S)) <= Cardinality(Later(f, S))
    BY <1>3, <1>4
  <2> QED
    BY <2>2, <2>3, <1>1
<1> QED
  BY <1>5

(* The highest of some seqs, and 0, is one of them or 0. *)
LEMMA HighestIsOne ==
    ASSUME NEW S \in SUBSET Nat, NEW n \in Nat, \A k \in S : k <= n
    PROVE  Max({0} \cup S) \in {0} \cup S
<1> DEFINE T == {0} \cup S
           B == {b \in Nat : \A k \in T : k <= b}
<1>1. n \in B /\ B \in SUBSET Nat
  OBVIOUS
<1>2. PICK b \in B : \A c \in B : b <= c
  BY <1>1, LeastNat
<1>3. ASSUME b \notin T PROVE FALSE
  <2>1. \A k \in T : k \in Nat /\ k < b
    BY <1>2, <1>3
  <2>2. b - 1 \in B
    BY <1>2, <2>1
  <2> QED
    BY <1>2, <2>2
<1>4. \E x \in T : \A y \in T : x >= y
  BY <1>2, <1>3
<1> QED
  BY <1>4 DEF Max

(* What a look has read of the journal is still there when it is sent. *)
LEMMA CopiesAreRead ==
    ASSUME SystemTypeOK, ConsoleTypeOK, MarksWereSent
    PROVE  /\ \A i \in InstanceIds : Copy[i] \in Nat /\ Copy[i] <= Len(journal[i])
           /\ Prefix(Copy) \subseteq Prefix(Heads)
           /\ \A e \in Prefix(Heads) :
                 /\ e \in InstanceIds \X Nat /\ e[2] <= Len(journal[e[1]])
                 /\ e = <<e[1], e[2]>>
<1>1. \A i \in InstanceIds : Len(journal[i]) \in Nat
  BY DEF SystemTypeOK
<1>2. \A i \in InstanceIds : stream.copy[i] \in Nat /\ stream.copy[i] <= Len(journal[i])
  BY DEF ConsoleTypeOK, MarksWereSent
<1>3. \A i \in InstanceIds : Copy[i] \in Nat /\ Copy[i] <= Len(journal[i])
  BY <1>1, <1>2 DEF Copy
<1>4. \A e \in Prefix(Copy) : \E i \in InstanceIds : \E n \in 1 .. Copy[i] : e = <<i, n>>
  BY DEF Prefix
<1>5. \A i \in InstanceIds : \A n \in 1 .. Copy[i] : n \in 1 .. Len(journal[i])
  BY <1>1, <1>3
<1>6. Prefix(Copy) \subseteq Prefix(Heads)
  BY <1>4, <1>5, Names
<1>7. \A i \in InstanceIds : \A n \in 1 .. Len(journal[i]) : n \in Nat /\ n <= Len(journal[i])
  BY <1>1
<1>8. \A e \in Prefix(Heads) : \E i \in InstanceIds : \E n \in 1 .. Len(journal[i]) : e = <<i, n>>
  BY Names
<1> QED
  BY <1>3, <1>6, <1>7, <1>8

(* A look that ends: marks for events that were sent now, or marks that stay. *)
LEMMA LooksAreSound ==
    ASSUME SystemTypeOK, ConsoleTypeOK, MarksWereSent, Quiet,
           NEW sent \in SUBSET Prefix(Heads), shown' = shown \cup sent,
           NEW pc \in {"recent", "poll"}, NEW last \in [InstanceIds -> Nat],
           \A i \in InstanceIds : last[i] # 0 => <<i, last[i]>> \in shown \cup sent,
           stream' = Look(pc, last)
    PROVE  ConsoleTypeOK' /\ MarksWereSent'
<1>1. UNCHANGED system /\ faults' = faults
  BY DEF Quiet
<1>2. SystemTypeOK' /\ journal' = journal /\ Prefix(Heads)' = Prefix(Heads)
  BY <1>1 DEF system, SystemTypeOK, Prefix, Heads
<1>3. /\ stream'.pc = pc /\ stream'.last = last /\ stream'.copy = Nothing
      /\ stream'.left = InstanceIds /\ Nothing \in [InstanceIds -> Nat]
  BY DEF Look, Nothing
<1>4. stream' \in [pc : {"closed", "recent", "poll"}, left : SUBSET InstanceIds,
                   copy : [InstanceIds -> Nat], last : [InstanceIds -> Nat]]
  BY <1>3 DEF Look
<1>5. shown' \subseteq Prefix(Heads) /\ shown' \subseteq InstanceIds \X Nat
  BY CopiesAreRead DEF MarksWereSent
<1>6. \A i \in InstanceIds : Nothing[i] <= Len(journal[i])
  BY DEF Nothing, SystemTypeOK
<1>7. ConsoleTypeOK'
  BY <1>1, <1>2, <1>4, <1>5 DEF ConsoleTypeOK
<1>8. MarksWereSent'
  BY <1>2, <1>3, <1>5, <1>6 DEF MarksWereSent
<1> QED
  BY <1>7, <1>8

LEMMA SendRecentMoves ==
    ASSUME SystemTypeOK, ConsoleTypeOK, MarksWereSent, SendRecent
    PROVE  ConsoleTypeOK' /\ MarksWereSent'
<1> DEFINE recent == Newest(RecentLimit, Prefix(Copy))
           seqs(i) == {e[2] : e \in {f \in recent : f[1] = i}}
           last == [i \in InstanceIds |-> Max({0} \cup seqs(i))]
<1>1. shown' = shown \cup recent /\ stream' = Look("poll", last) /\ Quiet
  BY DEF SendRecent
<1>2. recent \subseteq Prefix(Heads)
  BY CopiesAreRead DEF Newest
<1>3. ASSUME NEW i \in InstanceIds PROVE last[i] \in Nat /\ (last[i] # 0 => <<i, last[i]>> \in recent)
  <2>1. \A e \in recent : e[2] \in Nat /\ e = <<e[1], e[2]>> /\ e[2] <= Len(journal[e[1]])
    BY <1>2, CopiesAreRead
  <2>2. seqs(i) \in SUBSET Nat /\ \A k \in seqs(i) : k <= Len(journal[i])
    BY <2>1
  <2>3. Len(journal[i]) \in Nat
    BY DEF SystemTypeOK
  <2>4. last[i] \in {0} \cup seqs(i)
    BY <2>2, <2>3, HighestIsOne
  <2>5. \A k \in seqs(i) : k \in Nat /\ <<i, k>> \in recent
    BY <2>1
  <2> QED
    BY <2>4, <2>5
<1>4. last \in [InstanceIds -> Nat]
  BY <1>3
<1> HIDE DEF recent, last
<1> QED
  BY <1>1, <1>2, <1>3, <1>4, LooksAreSound

LEMMA PollMoves ==
    ASSUME SystemTypeOK, ConsoleTypeOK, MarksWereSent, Poll
    PROVE  ConsoleTypeOK' /\ MarksWereSent'
<1> DEFINE last == [i \in InstanceIds |-> MarkAfter(i, Batch)]
<1>1. shown' = shown \cup Batch /\ stream' = Look("poll", last) /\ Quiet
  BY DEF Poll
<1>2. Batch \subseteq Prefix(Heads)
  BY CopiesAreRead DEF Batch, Unseen, Newest
<1>3. ASSUME NEW i \in InstanceIds PROVE last[i] \in Nat /\ (last[i] # 0 => <<i, last[i]>> \in shown \cup Batch)
  <2> DEFINE here == {e \in Batch : e[1] = i}
  <2>1. CASE here = {}
    <3>1. last[i] = stream.last[i]
      BY <2>1 DEF MarkAfter
    <3> QED
      BY <3>1 DEF ConsoleTypeOK, MarksWereSent
  <2>2. CASE here # {}
    <3>1. PICK e \in here : \A f \in here : ~Before(e, f)
      BY <1>2, <2>2, LatestOf
    <3>2. \E d \in Batch : d[1] = i /\ \A f \in Batch : f[1] = i => ~Before(d, f)
      BY <3>1
    <3>3. \E d \in Batch : d[1] = i /\ last[i] = d[2]
      BY <2>2, <3>2 DEF MarkAfter
    <3>4. \A d \in Batch : d[2] \in Nat /\ d = <<d[1], d[2]>>
      BY <1>2, CopiesAreRead
    <3> QED
      BY <3>3, <3>4
  <2> QED
    BY <2>1, <2>2
<1>4. last \in [InstanceIds -> Nat]
  BY <1>3
<1> HIDE DEF last
<1> QED
  BY <1>1, <1>2, <1>3, <1>4, LooksAreSound

(* An end of the stream, whoever ends it. *)
LEMMA CloseMoves ==
    ASSUME SystemTypeOK, ConsoleTypeOK, MarksWereSent, Close, UNCHANGED <<system, shown>>,
           faults' \in 0 .. MaxFaults
    PROVE  ConsoleTypeOK' /\ MarksWereSent'
<1>1. SystemTypeOK' /\ journal' = journal /\ Prefix(Heads)' = Prefix(Heads)
  BY DEF system, SystemTypeOK, Prefix, Heads
<1>2. Nothing \in [InstanceIds -> Nat] /\ \A i \in InstanceIds : Nothing[i] = 0
  BY DEF Nothing
<1>3. ConsoleTypeOK'
  BY <1>1, <1>2 DEF ConsoleTypeOK, Close
<1>4. \A i \in InstanceIds : stream'.copy[i] <= Len(journal[i]) /\ stream'.last[i] = 0
  BY <1>2 DEF SystemTypeOK, Close
<1> QED
  BY <1>1, <1>3, <1>4 DEF MarksWereSent

LEMMA StreamInit == ConsoleInit => ConsoleTypeOK /\ MarksWereSent
<1> SUFFICES ASSUME ConsoleInit PROVE ConsoleTypeOK /\ MarksWereSent
  OBVIOUS
<1>1. SystemTypeOK
  BY ConsoleInitInv DEF ConsoleIInv
<1>2. Nothing \in [InstanceIds -> Nat] /\ \A i \in InstanceIds : Nothing[i] = 0
  BY DEF Nothing
<1>3. ConsoleTypeOK
  BY <1>1, <1>2, ConsoleAssumption DEF ConsoleInit, ConsoleTypeOK
<1>4. \A i \in InstanceIds : 0 <= Len(journal[i])
  BY <1>1 DEF SystemTypeOK
<1> QED
  BY <1>2, <1>3, <1>4 DEF ConsoleInit, MarksWereSent

(* One case per kind of step: the system writes, a look goes on or ends, and the *)
(* stream opens, ends or is lost.                                            *)
LEMMA StreamNext ==
    ConsoleIInv /\ ConsoleIInv' /\ ConsoleTypeOK /\ MarksWereSent /\ [ConsoleNext]_consoleVars
      => ConsoleTypeOK' /\ MarksWereSent'
<1> SUFFICES ASSUME ConsoleIInv, ConsoleIInv', ConsoleTypeOK, MarksWereSent, [ConsoleNext]_consoleVars
             PROVE  ConsoleTypeOK' /\ MarksWereSent'
  OBVIOUS
<1>1. SystemTypeOK /\ SystemTypeOK' /\ faults \in 0 .. MaxFaults
  BY DEF ConsoleIInv, ConsoleTypeOK
<1>2. CASE System
  <2>1. /\ \A i \in InstanceIds : Len(journal[i]) <= Len(journal'[i])
        /\ UNCHANGED <<stream, shown>> /\ faults' \in 0 .. MaxFaults
    BY <1>1, <1>2, SystemLengthens
  <2>2. \A i \in InstanceIds : Len(journal[i]) \in Nat /\ Len(journal'[i]) \in Nat
    BY <1>1 DEF SystemTypeOK
  <2>3. Prefix(Heads) \subseteq Prefix(Heads)'
    <3>1. \A i \in InstanceIds : \A n \in 1 .. Len(journal[i]) : n \in 1 .. Len(journal'[i])
      BY <2>1, <2>2
    <3>2. Heads' = [i \in InstanceIds |-> Len(journal'[i])]
      BY DEF Heads
    <3> QED
      BY <1>1, <3>1, <3>2, Names DEF Prefix
  <2>4. \A i \in InstanceIds : stream.copy[i] <= Len(journal'[i])
    <3>1. \A i \in InstanceIds : stream.copy[i] \in Nat /\ stream.copy[i] <= Len(journal[i])
      BY DEF ConsoleTypeOK, MarksWereSent
    <3> QED
      BY <2>1, <2>2, <3>1
  <2>5. ConsoleTypeOK'
    BY <1>1, <2>1 DEF ConsoleTypeOK
  <2>6. MarksWereSent'
    BY <2>1, <2>3, <2>4 DEF MarksWereSent
  <2> QED
    BY <2>5, <2>6
<1>3. CASE Connect
  <2>1. Nothing \in [InstanceIds -> Nat] /\ \A i \in InstanceIds : Nothing[i] = 0
    BY DEF Nothing
  <2>2. shown' = shown \cup {} /\ stream' = Look("recent", Nothing) /\ Quiet
    BY <1>3 DEF Connect
  <2> QED
    BY <1>1, <2>1, <2>2, LooksAreSound
<1>4. CASE ReadInstance
  <2>1. /\ stream' = [stream EXCEPT !.left = @ \ {Min(stream.left)},
                                    !.copy[Min(stream.left)] = Len(journal[Min(stream.left)])]
        /\ shown' = shown /\ faults' = faults /\ journal' = journal
    BY <1>4 DEF ReadInstance, Quiet, system
  <2>2. Heads' = Heads /\ Prefix(Heads)' = Prefix(Heads)
    BY <2>1 DEF Prefix, Heads
  <2>3. \A i \in InstanceIds : Len(journal[i]) \in Nat
    BY <1>1 DEF SystemTypeOK
  <2>4. /\ stream'.pc = stream.pc /\ stream'.last = stream.last /\ stream'.left \subseteq stream.left
        /\ stream'.copy = [stream.copy EXCEPT ![Min(stream.left)] = Len(journal[Min(stream.left)])]
        /\ DOMAIN stream' = DOMAIN stream
    BY <2>1 DEF ConsoleTypeOK
  <2>5. /\ stream'.copy \in [InstanceIds -> Nat]
        /\ \A i \in InstanceIds : stream'.copy[i] <= Len(journal[i])
    <3> DEFINE m == Min(stream.left)
    <3>1. /\ stream.copy \in [InstanceIds -> Nat]
          /\ \A i \in InstanceIds : stream.copy[i] <= Len(journal[i])
      BY DEF ConsoleTypeOK, MarksWereSent
    <3>2. stream'.copy = [stream.copy EXCEPT ![m] = Len(journal[m])]
      BY <2>4
    <3> HIDE DEF m
    <3>3. \A i \in InstanceIds : stream'.copy[i] = IF i = m THEN Len(journal[i]) ELSE stream.copy[i]
      BY <3>1, <3>2
    <3>4. \A i \in InstanceIds : stream'.copy[i] \in Nat /\ stream'.copy[i] <= Len(journal[i])
      BY <2>3, <3>1, <3>3
    <3>5. stream'.copy = [i \in InstanceIds |-> stream'.copy[i]]
      BY <3>1, <3>2
    <3> QED
      BY <3>4, <3>5
  <2>6. stream' \in [pc : {"closed", "recent", "poll"}, left : SUBSET InstanceIds,
                     copy : [InstanceIds -> Nat], last : [InstanceIds -> Nat]]
    BY <2>1, <2>3, <2>4, <2>5 DEF ConsoleTypeOK
  <2> QED
    BY <1>1, <2>1, <2>2, <2>4, <2>5, <2>6 DEF ConsoleTypeOK, MarksWereSent
<1>5. CASE SendRecent
  BY <1>1, <1>5, SendRecentMoves
<1>6. CASE Poll
  BY <1>1, <1>6, PollMoves
<1>7. CASE EndIdle \/ Drop
  <2>1. Close /\ UNCHANGED <<system, shown>> /\ faults' \in 0 .. MaxFaults
    BY <1>1, <1>7, ConsoleAssumption DEF EndIdle, Drop, Quiet
  <2> QED
    BY <1>1, <2>1, CloseMoves
<1>8. CASE UNCHANGED consoleVars
  <2>1. Prefix(Heads)' = Prefix(Heads) /\ UNCHANGED <<journal, stream, shown, faults>>
    BY <1>8 DEF consoleVars, system, Prefix, Heads
  <2> QED
    BY <1>1, <2>1 DEF ConsoleTypeOK, MarksWereSent
<1> QED
  BY <1>2, <1>3, <1>4, <1>5, <1>6, <1>7, <1>8 DEF ConsoleNext, Serve

(* Every event the stream sends is in the journal, and the mark of an instance    *)
(* (last_seq in GET /events) is that of an event a browser was sent, for any     *)
(* limits, stamps, lost connections and writes between two reads of a look.      *)
THEOREM StreamTellsTheJournal == ConsoleSpec => [](ConsoleTypeOK /\ MarksWereSent)
<1>1. ConsoleInit => ConsoleTypeOK /\ MarksWereSent
  BY StreamInit
<1>2. ConsoleSpec => []ConsoleIInv
  BY ConsoleInvariance
<1> QED
  BY <1>1, <1>2, StreamNext, PTL DEF ConsoleSpec
=============================================================================
