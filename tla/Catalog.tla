-------------------------------- MODULE Catalog --------------------------------
(***************************************************************************)
(* The catalog of mandate types and instances (kernel: registry.py), the     *)
(* commands of the operator API that read and write it (api: app.py:          *)
(* instantiate, trigger-run, run-swarm, promote), and the evidence that       *)
(* promotion asks for: eval cases from swarm runs and from matured watches.    *)
(*                                                                         *)
(* Requests are coroutines: every read and every write of the projection      *)
(* store is a step of its own.  Rival documents may share their id, their      *)
(* version or both.  Who publishes a document by hand, the scripts that run a   *)
(* built-in type and the worker are the environment.                         *)
(***************************************************************************)
EXTENDS Integers, FiniteSets

CONSTANTS
    Requests,     (* requests served at a time                               *)
    BuiltIns,     (* the types this release builds: seeded, run by scripts     *)
    Canonical,    (* the lead-finder among them                              *)
    Drafts,       (* other documents: drafted, hand-made, of another release   *)
    Candidates,   (* the files promote reads: a type_ref beside a mandate_type *)
    Left,         (* the catalogs an earlier process may have left             *)
    Instances,    (* instance ids                                            *)
    Targets,      (* overrides of a charter's target                          *)
    Rings,        (* rings a command may name, as numbers                      *)
    MaxCommands,  (* bound: commands served                                   *)
    MaxCases      (* bound: watches are graded while there are fewer cases      *)

(* A type is [id, ref, content, target]; ref stands for name@version.          *)
Default == "default"
Published == BuiltIns \cup Drafts
Refs == {t.ref : t \in Published}
Contents == {t.content : t \in Published}
Docs == [id : {t.id : t \in Published} \cup Instances, ref : Refs,
         content : Contents, target : Targets \cup {Default}]
OneOfAVersion(docs) == \A s, t \in docs : s.ref = t.ref => s = t

ASSUME CatalogAssumption ==
    /\ Canonical \in BuiltIns /\ Published \subseteq Docs
    /\ \A t \in Published : t.target = Default /\ t.id \notin Instances
    /\ OneOfAVersion(BuiltIns)
    /\ \A left \in Left : left \subseteq Published /\ OneOfAVersion(left)
    /\ Candidates \subseteq [ref : Refs, type : Published]
    /\ Default \notin Targets /\ Rings \subseteq 0..4 /\ MaxCommands \in Nat /\ MaxCases \in Nat

VARIABLES
    types,        (* MANDATE_TYPE documents                                  *)
    instances,    (* MANDATE_INSTANCE: ref and ring, by id                    *)
    cases,        (* EVAL_CASE: the ref it is filed under, what was graded,    *)
                  (* origin and score in tenths                              *)
    work,         (* runs: the type inlined in the work, and its binding's ref *)
    promoted,     (* ManagerAction(promote): candidate and ring               *)
    request,      (* what each request is doing                              *)
    commands,
    (* History, which no step reads:                                         *)
    missed,       (* documents that came since a registration's first read     *)
    raced         (* refs that lost their document, or got another's instance  *)

vars == <<types, instances, cases, work, promoted, request, commands, missed, raced>>
Scores == {4, 6, 8}     (* below, between and above the two thresholds       *)
(* Without a judge model the trace is scored by rules; with one, promptfoo asks  *)
(* it in a subprocess that may fail.                                        *)
NoScore == 0
Verdicts == Scores \cup {NoScore}
Canary == {0, 1}

Idle == [op |-> "none", at |-> "idle", type |-> Canonical, ref |-> Canonical.ref,
         inst |-> "none", ring |-> 0]

(* The first request of a process seeds a catalog that is empty. *)
Init ==
    /\ \E left \in Left : types = IF left = {} THEN BuiltIns ELSE left
    /\ instances = [i \in {} |-> 0]
    /\ cases = {} /\ work = {} /\ promoted = {}
    /\ request = [r \in Requests |-> Idle]
    /\ commands = 0
    /\ missed = [r \in Requests |-> {}] /\ raced = {}

----------------------------------------------------------------------------
(* What the registry answers.                                               *)

WithId(id) == {t \in types : t.id = id}
WithRef(ref) == {t \in types : t.ref = ref}

Goto(r, at) == request' = [request EXCEPT ![r].at = at]
Return(r) == request' = [request EXCEPT ![r] = Idle]

(* The command goes on after a conflict only if it swallows it, and with a    *)
(* registered type if it has more to do.  What is promoted is the candidate's   *)
(* type, on the evidence of the candidate's ref.                             *)
Registered(r) ==
    LET q == request[r] IN
    /\ IF q.op = "trigger" THEN Goto(r, "bind") ELSE Return(r)
    /\ promoted' = promoted \cup
          (IF q.op = "promote" THEN {[ref |-> q.ref, type |-> q.type, ring |-> q.ring]} ELSE {})
Conflict(r) ==
    /\ IF request[r].op = "trigger" THEN Goto(r, "bind") ELSE Return(r)
    /\ UNCHANGED promoted

(* One read of register_type: an equal document is the answer, another one a    *)
(* conflict.                                                                *)
Compare(r, found, next) ==
    /\ IF found = {} THEN Goto(r, next) /\ UNCHANGED <<promoted, missed>>
       ELSE /\ IF request[r].type \in found THEN Registered(r) ELSE Conflict(r)
            /\ missed' = [missed EXCEPT ![r] = {}]
    /\ UNCHANGED <<types, instances, cases, work, commands, raced>>

(* A slip: the read by id is left out, as if versions were all there is. *)
BugNoIdRead(r) == request[r].at = "get" /\ Compare(r, {}, "find")

Get(r) == request[r].at = "get" /\ Compare(r, WithId(request[r].type.id), "find")
Find(r) == request[r].at = "find" /\ Compare(r, WithRef(request[r].type.ref), "upsert")

(* replace_one by id; the index on name and version refuses a second document    *)
(* of a version, and that error is no MandateTypeConflict: no command swallows   *)
(* it.  A document of the same id that came after the reads is replaced.       *)
Upsert(r) ==
    LET t == request[r].type IN
    /\ request[r].at = "upsert"
    /\ IF \E s \in WithRef(t.ref) : s.id # t.id
       THEN /\ Return(r)
            /\ missed' = [missed EXCEPT ![r] = {}]
            /\ UNCHANGED <<types, promoted, raced>>
       ELSE /\ types' = {s \in types : s.id # t.id} \cup {t}
            /\ Registered(r)
            /\ missed' = [q \in Requests |-> IF q = r THEN {} ELSE
                  missed[q] \cup {d \in {t} : request[q].at \in {"find", "upsert"}}]
            /\ raced' = raced \cup {s.ref : s \in types \ types'}
    /\ UNCHANGED <<instances, cases, work, commands>>

----------------------------------------------------------------------------
(* Commands.                                                                *)

Ask(r, command) ==
    /\ request[r] = Idle /\ commands < MaxCommands
    /\ request' = [request EXCEPT ![r] = command]
    /\ commands' = commands + 1
    /\ UNCHANGED <<types, instances, cases, work, promoted, missed, raced>>

Publish(r) == \E t \in Published : Ask(r, [Idle EXCEPT !.op = "publish", !.at = "get", !.type = t])

Swarm(r) == \E ref \in Refs : Ask(r, [Idle EXCEPT !.op = "swarm", !.at = "type", !.ref = ref])

(* A slip: what falls back is only what runs; the case is filed as asked. *)
BugFileAsAsked(r) ==
    LET found == WithRef(request[r].ref) IN
    /\ request[r].op = "swarm" /\ request[r].at = "type"
    /\ \E t \in IF found = {} THEN {Canonical} ELSE found :
          request' = [request EXCEPT ![r].type = [t EXCEPT !.ref = request[r].ref], ![r].at = "grade"]
    /\ UNCHANGED <<types, instances, cases, work, promoted, commands, missed, raced>>

(* The type asked for, or the one the code builds when the catalog has none:    *)
(* the report, and the case, carry the ref of the type that ran.              *)
SwarmType(r) ==
    LET found == WithRef(request[r].ref) IN
    /\ request[r].op = "swarm" /\ request[r].at = "type"
    /\ \E t \in IF found = {} THEN {Canonical} ELSE found :
          request' = [request EXCEPT ![r].type = t, ![r].at = "grade"]
    /\ UNCHANGED <<types, instances, cases, work, promoted, commands, missed, raced>>

Case(type, ref, origin, score) ==
    [ref |-> ref, graded |-> type.content, origin |-> origin, score |-> score]

(* The sim run, the judge and the upsert of EVAL_CASE under a fresh id; what     *)
(* raises leaves no case, and a run that crashed is graded like any other.     *)
Grade(r) ==
    /\ request[r].at = "grade"
    /\ \E score \in Verdicts :
          cases' = cases \cup {Case(request[r].type, request[r].type.ref, "synthetic", v) : v \in {score} \ {NoScore}}
    /\ Return(r)
    /\ UNCHANGED <<types, instances, work, promoted, commands, missed, raced>>

(* A scorecard is a pass from 5 in the swarm's rubric and from 7 in the  *)
(* one for real runs; the gates ask for 5 and for 7 besides.                  *)
Passed(c) == c.score >= IF c.origin = "real" THEN 7 ELSE 5
CanaryGate(evidence) == \E c \in evidence : Passed(c) /\ c.score >= 5
PromotionGate(evidence) == \E c \in evidence : Passed(c) /\ c.score >= 7 /\ c.origin = "real"
Allowed(evidence, ring) == IF ring \in Canary THEN CanaryGate(evidence) ELSE PromotionGate(evidence)

(* Evidence is gathered by the file's type_ref, its mandate_type is what is      *)
(* registered, and nothing compares the two.                                  *)
Promote(r) ==
    \E candidate \in Candidates, ring \in Rings :
        Ask(r, [Idle EXCEPT !.op = "promote", !.at = "gather", !.ring = ring,
                            !.ref = candidate.ref, !.type = candidate.type])
CasesOf(ref) == {c \in cases : c.ref = ref}
Gather(r) ==
    LET q == request[r] IN
    /\ q.at = "gather"
    /\ IF Allowed(CasesOf(q.ref), q.ring) THEN Goto(r, "get") ELSE Return(r)
    /\ UNCHANGED <<types, instances, cases, work, promoted, commands, missed, raced>>

(* Two instantiate commands of a business in one second derive one id.         *)
Instantiate(r) ==
    \E i \in Instances, ref \in Refs, ring \in Rings, target \in Targets \cup {Default} :
        Ask(r, [Idle EXCEPT !.op = "instantiate", !.at = "type", !.ref = ref, !.inst = i, !.ring = ring,
                            !.type.target = target])

(* The variant has the target asked for, a type id of its own and the version    *)
(* of its parent.                                                           *)
InstanceType(r) ==
    LET q == request[r]
        found == WithRef(q.ref)
    IN
    /\ q.op = "instantiate" /\ q.at = "type"
    /\ IF found = {} THEN Return(r)
       ELSE \E t \in found :
          request' = [request EXCEPT ![r].at = "known",
              ![r].type = [id |-> q.inst, ref |-> q.ref, content |-> t.content, target |-> q.type.target]]
    /\ UNCHANGED <<types, instances, cases, work, promoted, commands, missed, raced>>

(* MandateRegistry.instantiate asks for the type once more. *)
KnownType(r) ==
    /\ request[r].at = "known"
    /\ IF WithRef(request[r].ref) = {} THEN Return(r) ELSE Goto(r, "instance")
    /\ UNCHANGED <<types, instances, cases, work, promoted, commands, missed, raced>>

(* After the instance: an override is registered, nothing else is left to do.    *)
Variant(r) == IF request[r].type.target # Default THEN Goto(r, "get") ELSE Return(r)
Row(r) == [ref |-> request[r].ref, ring |-> request[r].ring]

GetInstance(r) ==
    LET i == request[r].inst IN
    /\ request[r].at = "instance"
    /\ IF i \notin DOMAIN instances THEN Goto(r, "store")
       ELSE IF instances[i] = Row(r) THEN Variant(r)
       ELSE Return(r)
    /\ UNCHANGED <<types, instances, cases, work, promoted, commands, missed, raced>>
(* An instance that came after the read is replaced, and so bound to another ref. *)
StoreInstance(r) ==
    LET i == request[r].inst IN
    /\ request[r].at = "store"
    /\ instances' = [j \in DOMAIN instances \cup {i} |-> IF j = i THEN Row(r) ELSE instances[j]]
    /\ raced' = raced \cup {instances'[j].ref : j \in {k \in DOMAIN instances : instances'[k].ref # instances[k].ref}}
    /\ Variant(r)
    /\ UNCHANGED <<types, cases, work, promoted, commands, missed>>

(* The instance is read, then the type it is bound to; the target asked for goes  *)
(* on top of the registered one.                                             *)
Trigger(r) ==
    \E i \in Instances, target \in Targets \cup {Default} :
        Ask(r, [Idle EXCEPT !.op = "trigger", !.at = "row", !.inst = i, !.type.target = target])
TriggerInstance(r) ==
    LET i == request[r].inst IN
    /\ request[r].at = "row"
    /\ IF i \notin DOMAIN instances THEN Return(r)
       ELSE request' = [request EXCEPT ![r].at = "type", ![r].ref = instances[i].ref]
    /\ UNCHANGED <<types, instances, cases, work, promoted, commands, missed, raced>>
TriggerType(r) ==
    LET target == request[r].type.target
        found == WithRef(request[r].ref)
    IN
    /\ request[r].op = "trigger" /\ request[r].at = "type"
    /\ IF found = {} THEN Return(r)
       ELSE \E t \in found :
          request' = [request EXCEPT ![r].at = "get",
              ![r].type = [t EXCEPT !.target = IF target = Default THEN @ ELSE target]]
    /\ UNCHANGED <<types, instances, cases, work, promoted, commands, missed, raced>>

(* enqueue_trigger reads the instance again for its binding.                  *)
Bind(r) ==
    /\ request[r].at = "bind"
    /\ work' = work \cup {[type |-> request[r].type, ref |-> instances[request[r].inst].ref]}
    /\ Return(r)
    /\ UNCHANGED <<types, instances, cases, promoted, commands, missed, raced>>

(* A script skips the registration of a type whose id it finds, makes an          *)
(* instance of its version and runs the type as its own release builds it.       *)
ScriptRun ==
    /\ \E b \in BuiltIns :
          /\ WithRef(b.ref) # {}
          /\ work' = work \cup {[type |-> b, ref |-> b.ref]}
    /\ UNCHANGED <<types, instances, cases, promoted, request, commands, missed, raced>>

(* The run settled, its watch fired and was graded: the ref of the case is the   *)
(* one of RunCreated, which is the binding's.                                 *)
Mature ==
    /\ Cardinality(cases) < MaxCases
    /\ \E w \in work, score \in Scores : cases' = cases \cup {Case(w.type, w.ref, "real", score)}
    /\ UNCHANGED <<types, instances, work, promoted, request, commands, missed, raced>>

Command(r) == Publish(r) \/ Swarm(r) \/ Promote(r) \/ Instantiate(r) \/ Trigger(r)
Step(r) ==
    \/ Get(r) \/ Find(r) \/ Upsert(r)
    \/ SwarmType(r) \/ Grade(r) \/ Gather(r)
    \/ InstanceType(r) \/ KnownType(r) \/ GetInstance(r) \/ StoreInstance(r)
    \/ TriggerInstance(r) \/ TriggerType(r) \/ Bind(r)
Next == ScriptRun \/ Mature \/ \E r \in Requests : Command(r) \/ Step(r)
Spec == Init /\ [][Next]_vars

----------------------------------------------------------------------------
(* Every variable has its type.                                             *)
TypeOK ==
    /\ types \subseteq Docs
    /\ DOMAIN instances \subseteq Instances
    /\ \A i \in DOMAIN instances : instances[i] \in [ref : Refs, ring : Rings]
    /\ cases \subseteq [ref : Refs, graded : Contents, origin : {"synthetic", "real"}, score : Scores]
    /\ work \subseteq [type : Docs, ref : Refs]
    /\ promoted \subseteq [ref : Refs, type : Published, ring : Rings]
    /\ request \in [Requests -> [op : {"none", "publish", "swarm", "promote", "instantiate", "trigger"},
                                 at : {"idle", "get", "find", "upsert", "type", "grade", "gather",
                                       "known", "instance", "store", "row", "bind"},
                                 type : Docs, ref : Refs, inst : Instances \cup {"none"},
                                 ring : Rings \cup {0}]]
    /\ commands \in 0..MaxCommands
    /\ missed \in [Requests -> SUBSET Docs] /\ raced \subseteq Refs

(* Publishers race between register_type's reads and its upsert: a version is     *)
(* one document whoever wins, and a document is replaced only by a registration   *)
(* that had begun to read before it came.  One after another, registrations      *)
(* of rivals never replace anything, whether they share the id, the version or    *)
(* both.                                                                    *)
OnlyRacesReplace ==
    [][/\ OneOfAVersion(types')
       /\ \A t \in types \ types' : \E r \in Requests : request[r].at = "upsert" /\ t \in missed[r]]_vars

(* A case is of a version when it graded what the catalog has under its ref.      *)
(* Two things stand in for that: scripts, and the swarm when it falls back, run   *)
(* a built-in type as the code has it, whatever the catalog holds; and once a    *)
(* race has replaced the document, or handed an instance to the ref, there is    *)
(* more than one document the cases may be about.                             *)
IsOf(content, ref) ==
    \/ \E t \in types : t.ref = ref /\ t.content = content
    \/ \E b \in BuiltIns : b.ref = ref /\ b.content = content
    \/ ref \in raced

(* A candidate is promoted to a canary ring on a passing case of the ref in its   *)
(* file, and beyond on a real one; and if that is the ref of its type, what was   *)
(* graded is what is promoted, although cases are gathered before the type is     *)
(* registered, swarm runs fall back to another type and triggers run a copy      *)
(* that was never registered.  The exceptions are those of IsOf.               *)
PromotedOnItsOwnEvidence ==
    \A p \in promoted : \E c \in CasesOf(p.ref) :
        /\ Passed(c)
        /\ p.ring \notin Canary => c.origin = "real"
        /\ p.ref = p.type.ref =>
              \/ c.graded = p.type.content
              \/ \E b \in BuiltIns : b.ref = p.ref /\ b.content = c.graded
              \/ p.ref \in raced

(* Whatever is enqueued runs, but for the target, the type its instance is bound   *)
(* to.                                                                      *)
RunsItsType == \A w \in work : IsOf(w.type.content, w.ref)

(* The target that one customer asked for never becomes a version's: the variant   *)
(* that instantiate registers has the version of its parent and conflicts with    *)
(* it, unless a race took the parent away.  (app.py:766 means it to be found by    *)
(* trigger-run.)                                                            *)
VariantsStayOut == \A t \in types : t.target # Default => t.ref \in raced

----------------------------------------------------------------------------
(* The strengthening: what left the catalog is remembered, and a request           *)
(* remembers only what stays true.                                           *)
TypesArePublished == types \subseteq Published \cup [id : Instances, ref : raced, content : Contents, target : Targets]
CasesAreGraded == \A c \in cases : IsOf(c.graded, c.ref)
PromotedAreRegistered ==
    \A p \in promoted : Allowed(CasesOf(p.ref), p.ring) /\ (p.type \in types \/ p.type.ref \in raced)
(* Whatever is in the way of an upsert came after the reads. *)
OnlyLater(q, later) ==
    /\ q.at \in {"find", "upsert"} => WithId(q.type.id) \subseteq later
    /\ q.at = "upsert" => WithRef(q.type.ref) \subseteq later
ReadsWereEmpty == \A r \in Requests : OnlyLater(request[r], missed[r])

Knows(q) ==
    /\ q.op = "none" => q.at = "idle"
    /\ q.op = "publish" => q.at \in {"get", "find", "upsert"} /\ q.type \in Published
    /\ q.op = "swarm" => q.at = "type" \/ (q.at = "grade" /\ IsOf(q.type.content, q.type.ref))
    /\ q.op = "promote" =>
          /\ q.type \in Published /\ q.ring \in Rings
          /\ \/ q.at = "gather"
             \/ q.at \in {"get", "find", "upsert"} /\ Allowed(CasesOf(q.ref), q.ring)
    /\ q.op = "instantiate" =>
          /\ q.inst \in Instances /\ q.ring \in Rings
          /\ \/ q.at = "type"
             \/ /\ q.at \in {"known", "instance", "store", "get", "find", "upsert"}
                /\ q.type.id = q.inst /\ q.type.ref = q.ref
                /\ WithRef(q.ref) # {} \/ q.ref \in raced
                /\ q.at \in {"get", "find", "upsert"} => q.type.target # Default
                /\ q.at = "upsert" => q.ref \in raced
    /\ q.op = "trigger" =>
          \/ q.at = "row"
          \/ /\ q.at \in {"type", "get", "bind"} /\ q.inst \in DOMAIN instances
             /\ instances[q.inst].ref = q.ref \/ instances[q.inst].ref \in raced
             /\ q.at \in {"get", "bind"} => q.type.ref = q.ref /\ IsOf(q.type.content, q.ref)
             /\ q.at = "get" => WithId(q.type.id) # {}

IInv ==
    /\ TypeOK /\ TypesArePublished /\ OneOfAVersion(types) /\ CasesAreGraded /\ RunsItsType
    /\ PromotedAreRegistered /\ ReadsWereEmpty
    /\ \A r \in Requests : Knows(request[r])
=============================================================================
