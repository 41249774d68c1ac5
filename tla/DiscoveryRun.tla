----------------------------- MODULE DiscoveryRun -----------------------------
(***************************************************************************)
(* The mandate-discovery run by the deterministic harness                   *)
(* (mandate: mandate_discovery_playbook.py): three reads through the        *)
(* gateway (community_source_sample, competitor_search,                     *)
(* buyer_channel_discovery; syscall: discovery_adapters.py), a gate after    *)
(* each (mandate_discovery_quality.py), and a claim of the portfolio, which   *)
(* is verified, settled and projected.                                      *)
(*                                                                         *)
(* Nothing of an invocation outlives it: an exception fails the work item,   *)
(* and the next invocation starts over under the same run id and the same    *)
(* three keys, and what the providers answer then may be different.  Only    *)
(* the journal remembers the answers the first one worked with.             *)
(***************************************************************************)
EXTENDS Integers, FiniteSets

CONSTANTS
    Sources,        (* community sources the sample is asked of              *)
    FreeSources,    (* those a free provider can search                      *)
    Topics,         (* pain themes a post may be labelled with               *)
    AntiPortfolio,  (* themes whose candidate the domain pack refuses        *)
    MinPosts,       (* 10 in the playbook                                    *)
    MinSources,     (* 2: CLUSTER_MIN_DISTINCT_SOURCES                       *)
    MinClusters,    (* 3 in the playbook and in the ladder                   *)
    ShortlistMax,   (* 5 in _build_shortlist_and_lists                       *)
    MaxFaults       (* bound: exceptions out of invoke                       *)

ASSUME DiscoveryAssumption ==
    /\ IsFiniteSet(Sources) /\ IsFiniteSet(Topics) /\ "error" \notin Topics
    /\ FreeSources \subseteq Sources /\ AntiPortfolio \subseteq Topics
    /\ {MinPosts, MinSources, MinClusters, ShortlistMax, MaxFaults} \subseteq Nat

VARIABLES
    work,           (* status of the work item                               *)
    pc,             (* where the invocation is                               *)
    pad,            (* its scratchpad                                        *)
    attempts,       (* SyscallAttempted: args by read                        *)
    receipts,       (* SyscallReceipts: args and result by read              *)
    heap,           (* the facts of the run, by predicate                    *)
    outcome,        (* the state of the RunResult that completed the item    *)
    faults

vars == <<work, pc, pad, attempts, receipts, heap, outcome, faults>>

Reads == {"sample", "competitors", "buyers"}

----------------------------------------------------------------------------
(* What the adapters return.                                                *)

(* F1: each source answers with posts, one per theme here; if its search      *)
(* raises, a post without a url stands for it.                              *)
Error == "error"
SourceAnswers == {{Error}} \cup SUBSET Topics
Posts(sample) == UNION {{<<s, label>> : label \in sample[s]} : s \in DOMAIN sample}

(* The free providers are tried when there is no post at all, and the post   *)
(* of a source that failed is one.                                          *)
FreeSample == [FreeSources -> SourceAnswers]
CommunitySample ==
    {sample \in [Sources -> SourceAnswers] : Posts(sample) # {}} \cup FreeSample

(* F4 assesses every candidate, as neutral if the search raises; nothing it   *)
(* can write is both crowded and easy to copy, which is all the gate refuses. *)
Assessed(candidates) == {candidates}

(* F5: the candidates some channel was found for.                           *)
WithChannels(candidates) == SUBSET candidates

(* An adapter that raises, or the human task that stands in for one that is   *)
(* not configured, leaves nothing in the scratchpad.                        *)
Nothing == [sample |-> [s \in {} |-> {}], competitors |-> {}, buyers |-> {}]
Answers(read, args) ==
    {Nothing[read]} \cup
    CASE read = "sample" -> CommunitySample
      [] read = "competitors" -> Assessed(args)
      [] read = "buyers" -> WithChannels(args)

----------------------------------------------------------------------------
(* The playbook between the reads.                                          *)

BigEnough(sample) == Cardinality(Posts(sample)) >= MinPosts

(* F2: one pain signal per post, all of one severity; a quote needs a url.      *)
HasRealQuote(post) == post[2] # Error
PainSignals(sample) == {post \in Posts(sample) : HasRealQuote(post)}

(* They cluster by theme, and a cluster keeps the communities it was seen in.  *)
DistinctSources(sample, topic) == {s \in DOMAIN sample : <<s, topic>> \in PainSignals(sample)}

(* A slip: a theme only one community complains about counts. *)
BugAnySource(sample) == {t \in Topics : DistinctSources(sample, t) # {}}

(* The clusters that meet the diversity bar. *)
PainClusters(sample) ==
    {t \in Topics : Cardinality(DistinctSources(sample, t)) >= MinSources}

(* F3: a candidate for every cluster, shaped to pass all of the filter but the  *)
(* domain pack's refusals, which go by the words of its name.                *)
Synthesised(sample) == PainClusters(sample)
Refused(topic) == topic \in AntiPortfolio
MandateCandidates(sample) == {t \in Synthesised(sample) : ~Refused(t)}

(* F4 and F5 narrow the list to what the adapters answered about. *)
HasMoat(p, topic) == topic \in p.competitors
HasChannels(p, topic) == topic \in p.buyers
MoatSurvivors(p) == {t \in MandateCandidates(p.sample) : HasMoat(p, t)}
BuyerMapped(p) == {t \in MoatSurvivors(p) : HasChannels(p, t)}

(* F6: which candidate has which rank matters to nobody here; the first       *)
(* ShortlistMax are the shortlist, the rest is deferred.                      *)
Ranks(mapped) == 1 .. Cardinality(mapped)
Shortlist(mapped) == {rank \in Ranks(mapped) : rank <= ShortlistMax}

(* What F6 claims, one number for each postcondition. *)
Portfolio(p) ==
    [clusters |-> Cardinality(PainClusters(p.sample)),
     candidates |-> Cardinality(MandateCandidates(p.sample)),
     moat |-> Cardinality(MoatSurvivors(p)),
     mapped |-> Cardinality(BuyerMapped(p)),
     shortlist |-> Cardinality(Shortlist(BuyerMapped(p)))]

Ladder(f) ==
    /\ f.clusters >= MinClusters
    /\ f.candidates >= 1 /\ f.moat >= 1
    /\ f.mapped = f.shortlist /\ f.shortlist > 0

(* The args of a read follow from what the invocation read before it. *)
CompetitorArgs == MandateCandidates(pad.sample)
BuyerArgs == MoatSurvivors(pad)
Args(read) ==
    CASE read = "sample" -> {}
      [] read = "competitors" -> CompetitorArgs
      [] read = "buyers" -> BuyerArgs

----------------------------------------------------------------------------
Empty == [key \in {} |-> 0]
With(f, key, value) == [k \in DOMAIN f \cup {key} |-> IF k = key THEN value ELSE f[k]]

Init ==
    /\ work = "pending"
    /\ pc = "idle"
    /\ pad = Nothing
    /\ attempts = Empty
    /\ receipts = Empty
    /\ heap = Empty
    /\ outcome = "open"
    /\ faults = 0

(* SchedulerWorker.run_once: invoke appends RunCreated and hydrates. *)
Claim ==
    /\ work = "pending"
    /\ work' = "claimed" /\ pc' = "sample" /\ pad' = Nothing
    /\ UNCHANGED <<attempts, receipts, heap, outcome, faults>>

(* Gateway.invoke raises on a key that was used with other args. *)
Conflicts(log) == pc \in DOMAIN log /\ log[pc].args # Args(pc)
Clashes == pc \in Reads /\ (Conflicts(receipts) \/ Conflicts(attempts))

(* _apply_discovery_read_result, and the gate that comes next. *)
GateAfter == [sample |-> "cluster", competitors |-> "moat", buyers |-> "ladder"]
Apply(read, result) ==
    /\ pad' = [pad EXCEPT ![read] = result]
    /\ pc' = GateAfter[read]

(* The receipt of an earlier invocation answers the read. *)
Replay ==
    /\ pc \in DOMAIN receipts /\ ~Clashes
    /\ Apply(pc, receipts[pc].result)
    /\ UNCHANGED <<work, attempts, receipts, heap, outcome, faults>>

Calling == [sample |-> "call sample", competitors |-> "call competitors", buyers |-> "call buyers"]
Attempt ==
    /\ pc \in Reads \ DOMAIN receipts /\ ~Clashes
    /\ attempts' = With(attempts, pc, [args |-> Args(pc)])
    /\ pc' = Calling[pc]
    /\ UNCHANGED <<work, pad, receipts, heap, outcome, faults>>

(* A slip: the answer is given to the playbook and no receipt kept. *)
BugNoReceipt(read, result) == receipts' = receipts /\ Apply(read, result)

(* receipts.save, then the answer. *)
Receive(read, result) ==
    /\ receipts' = With(receipts, read, [args |-> Args(read), result |-> result])
    /\ Apply(read, result)

(* The adapter answers. *)
Execute ==
    \E read \in Reads :
       /\ pc = Calling[read]
       /\ \E result \in Answers(read, Args(read)) : Receive(read, result)
       /\ UNCHANGED <<work, attempts, heap, outcome, faults>>

(* F7 escalates; the run loop answers with a crashed result, which completes  *)
(* the work item like any other.                                            *)
Escalate ==
    /\ outcome' = "crashed" /\ work' = "completed" /\ pc' = "idle"
    /\ UNCHANGED <<pad, attempts, receipts, heap, faults>>

Proceed(next) ==
    /\ pc' = next
    /\ UNCHANGED <<work, pad, attempts, receipts, heap, outcome, faults>>

Gate(place, passes, next) == pc = place /\ IF passes THEN Proceed(next) ELSE Escalate

ClusterGate ==
    Gate("cluster", BigEnough(pad.sample) /\ Cardinality(PainClusters(pad.sample)) >= MinClusters
                      /\ MandateCandidates(pad.sample) # {}, "competitors")
MoatGate == Gate("moat", MoatSurvivors(pad) # {}, "buyers")
LadderGate == Gate("ladder", Ladder(Portfolio(pad)), "project")

(* The claim verifies (each fact exists); RunSettled is appended and the      *)
(* heap projector writes the facts one at a time.                           *)
Project ==
    /\ pc = "project"
    /\ \E q \in DOMAIN Portfolio(pad) : heap' = With(heap, q, Portfolio(pad)[q]) /\ heap' # heap
    /\ UNCHANGED <<work, pc, pad, attempts, receipts, outcome, faults>>

Settle ==
    /\ pc = "project" /\ heap = Portfolio(pad)
    /\ outcome' = "settled" /\ work' = "completed" /\ pc' = "idle"
    /\ UNCHANGED <<pad, attempts, receipts, heap, faults>>

(* The gateway raises on the read, or a store at whatever the invocation      *)
(* awaits next: the work item fails and is due again.                       *)
Raise ==
    /\ work = "claimed" /\ (Clashes \/ faults < MaxFaults)
    /\ faults' = IF Clashes THEN faults ELSE faults + 1
    /\ work' = "pending" /\ pc' = "idle"
    /\ UNCHANGED <<pad, attempts, receipts, heap, outcome>>

Invoke == \/ Claim \/ Replay \/ Attempt \/ Execute
          \/ ClusterGate \/ MoatGate \/ LadderGate \/ Project \/ Settle
Next == Invoke \/ Raise

Spec == Init /\ [][Next]_vars
(* _worker_loop goes on whatever an item raises. *)
FairSpec == Spec /\ WF_vars(Invoke)

----------------------------------------------------------------------------
Samples == UNION {[T -> SUBSET (Topics \cup {Error})] : T \in SUBSET Sources}
ResultType == [sample |-> Samples, competitors |-> SUBSET Topics, buyers |-> SUBSET Topics]
FactNames == {"clusters", "candidates", "moat", "mapped", "shortlist"}

TypeOK ==
    /\ work \in {"pending", "claimed", "completed"}
    /\ pc \in {"idle", "project"} \cup Reads \cup UNION {{Calling[r], GateAfter[r]} : r \in Reads}
    /\ DOMAIN pad = Reads /\ \A r \in Reads : pad[r] \in ResultType[r]
    /\ DOMAIN attempts \subseteq Reads
    /\ \A r \in DOMAIN attempts : attempts[r] \in [args : SUBSET Topics]
    /\ DOMAIN receipts \subseteq Reads
    /\ \A r \in DOMAIN receipts : receipts[r] \in [args : SUBSET Topics, result : ResultType[r]]
    /\ DOMAIN heap \subseteq FactNames /\ \A q \in DOMAIN heap : heap[q] \in Nat
    /\ outcome \in {"open", "crashed", "settled"}
    /\ faults \in 0 .. MaxFaults

Journaled == [r \in Reads |-> IF r \in DOMAIN receipts THEN receipts[r].result ELSE Nothing[r]]

(* However often the run was invoked, and whatever the providers answered     *)
(* each time, every fact it left in the heap follows from the receipts on     *)
(* record: the portfolio can be audited against the journal.                 *)
PortfolioIsEvidenced == \A q \in DOMAIN heap : heap[q] = Portfolio(Journaled)[q]

(* A settled portfolio meets the charter's bars on the evidence: every theme  *)
(* it was drawn from was seen in MinSources communities, and everything that  *)
(* passed the last gate is on the shortlist.                                *)
PortfolioMeetsTheBars ==
    outcome = "settled" =>
        LET backed == {t \in Topics :
                \E S \in SUBSET DOMAIN Journaled.sample :
                    Cardinality(S) = MinSources /\ \A s \in S : t \in Journaled.sample[s]}
        IN /\ heap.clusters = Cardinality(backed) /\ heap.clusters >= MinClusters
           /\ heap.shortlist = Cardinality((backed \ AntiPortfolio) \cap Journaled.buyers)

(* The run's one item is claimed when it is invoked, and completed or put back    *)
(* by the invocation that has it.                                           *)
Held == [k \in {"worker"} |-> IF pc = "idle" THEN {} ELSE {"run"}]

Queue == INSTANCE WorkQueue WITH
    Items <- {"run"}, Workers <- {"worker"}, row <- [i \in {"run"} |-> work], holds <- Held

ImplementsWorkQueue == Queue!Spec

(* Every invocation works with the answers of the first, so no retry makes a  *)
(* different request under a used key, and the run comes to an outcome.      *)
EveryDiscoveryEnds == <>(outcome # "open")

(* A portfolio of candidates that passed every gate settles; those beyond     *)
(* the shortlist are deferred ("deferred: the rest, with a reason").         *)
SurvivorsSettle == outcome = "crashed" => BuyerMapped(Journaled) = {}

----------------------------------------------------------------------------
(* The strengthening of PortfolioIsEvidenced: what the scratchpad holds of     *)
(* the reads behind an invocation is what the receipts say, a call in flight    *)
(* has no receipt, and a fact means that every read has one.                 *)
After ==
    LET buyers == {"ladder", "project"}
        competitors == {"moat", "buyers", "call buyers"} \cup buyers
    IN [sample |-> {"cluster", "competitors", "call competitors"} \cup competitors,
        competitors |-> competitors, buyers |-> buyers]

PadIsReceipted ==
    \A r \in Reads : pc \in After[r] => r \in DOMAIN receipts /\ pad[r] = receipts[r].result
CallsAreNew == \A r \in Reads : pc = Calling[r] => r \notin DOMAIN receipts

IInv ==
    /\ pad = [r \in Reads |-> pad[r]] /\ DOMAIN receipts \subseteq Reads
    /\ PadIsReceipted /\ CallsAreNew
    /\ DOMAIN heap # {} => Reads \subseteq DOMAIN receipts
    /\ PortfolioIsEvidenced

(* The strengthening of ImplementsWorkQueue: the item is claimed for as long as   *)
(* an invocation is somewhere in the playbook.                               *)
InvokedIsClaimed == pc # "idle" <=> work = "claimed"

(* The strengthening of PortfolioMeetsTheBars: a read is asked when those       *)
(* before it have receipts, about what they left; the last gate stands behind   *)
(* the projection; and a run that has its outcome is never invoked again.      *)
SampleIsTyped == "sample" \in DOMAIN receipts => receipts["sample"].result \in Samples
BuyersAreSurvivors ==
    "buyers" \in DOMAIN receipts =>
        /\ {"sample", "competitors"} \subseteq DOMAIN receipts
        /\ receipts["buyers"].result \subseteq MoatSurvivors(Journaled)
OutcomeIsLast ==
    /\ work # "claimed" => pc = "idle"
    /\ outcome # "open" => work = "completed"
LadderStands ==
    /\ pc = "project" => Ladder(Portfolio(pad))
    /\ outcome = "settled" => heap = Portfolio(Journaled) /\ Ladder(Portfolio(Journaled))

BarsInv ==
    /\ IInv
    /\ SampleIsTyped /\ BuyersAreSurvivors /\ OutcomeIsLast /\ LadderStands
=============================================================================
