--------------------------- MODULE DiscoveryProofs ---------------------------
(***************************************************************************)
(* The portfolio of a discovery run can be audited, for any sources, themes,  *)
(* bars and any number of failed invocations.                                *)
(***************************************************************************)
EXTENDS DiscoveryRun, FunctionTheorems, FiniteSetTheorems, TLAPS

(* Nothing is known, read or projected when the work item is enqueued. *)
LEMMA InitInv == Init => IInv
BY DEF Init, IInv, Nothing, Reads, Empty, PadIsReceipted, CallsAreNew, Calling, After,
       PortfolioIsEvidenced

(* What is neither a receipt nor a fact leaves the audit as it was. *)
LEMMA AuditKept ==
    ASSUME PortfolioIsEvidenced, receipts' = receipts, heap' = heap
    PROVE  PortfolioIsEvidenced'
<1>1. Journaled' = Journaled
  BY DEF Journaled
<1> QED
  BY <1>1 DEF PortfolioIsEvidenced

(* Where the playbook is in each of its reads. *)
LEMMA PlaceTable ==
    /\ Calling["sample"] = "call sample" /\ Calling["competitors"] = "call competitors"
    /\ Calling["buyers"] = "call buyers"
    /\ GateAfter["sample"] = "cluster" /\ GateAfter["competitors"] = "moat"
    /\ GateAfter["buyers"] = "ladder"
    /\ After["sample"] = {"cluster", "competitors", "call competitors",
                          "moat", "buyers", "call buyers", "ladder", "project"}
    /\ After["competitors"] = {"moat", "buyers", "call buyers", "ladder", "project"}
    /\ After["buyers"] = {"ladder", "project"}
BY DEF Calling, GateAfter, After

(* The order of the playbook's places: a gate is behind its read and behind    *)
(* what that read was behind, and a call is where its read is.               *)
LEMMA Places ==
    /\ \A r, s \in Reads : GateAfter[r] # Calling[s] /\ r # Calling[s]
    /\ \A r, s \in Reads : Calling[r] = Calling[s] => r = s
    /\ \A r, s \in Reads : GateAfter[r] \in After[s] => s = r \/ r \in After[s]
    /\ \A r, s \in Reads : Calling[r] \in After[s] <=> r \in After[s]
    /\ \A r \in Reads, p \in {"idle", "sample"} : p \notin After[r] /\ p # Calling[r]
BY PlaceTable DEF Reads

(* With every read behind it, the scratchpad is what the receipts say. *)
LEMMA PadIsJournaled ==
    ASSUME IInv, pc = "project"
    PROVE  pad = Journaled /\ Reads \subseteq DOMAIN receipts
BY DEF IInv, PadIsReceipted, After, Journaled, Reads

(* The invariant is inductive: one case per action. *)
LEMMA NextInv == IInv /\ [Next]_vars => IInv'
<1> SUFFICES ASSUME IInv, [Next]_vars PROVE IInv'
  OBVIOUS
<1>1. CASE Claim
  <2>1. UNCHANGED <<receipts, heap>> /\ pc' = "sample" /\ pad' = Nothing
    BY <1>1 DEF Claim
  <2>2. PadIsReceipted' /\ CallsAreNew'
    BY <2>1, Places DEF PadIsReceipted, CallsAreNew
  <2> QED
    BY <2>1, <2>2, AuditKept DEF IInv, Nothing, Reads
<1>2. CASE Replay
  <2>1. PortfolioIsEvidenced'
    BY <1>2, AuditKept DEF IInv, Replay
  <2>2. pc \in DOMAIN receipts /\ pc \in Reads
    BY <1>2 DEF IInv, Replay
  <2>3. /\ pad' = [pad EXCEPT ![pc] = receipts[pc].result] /\ pc' = GateAfter[pc]
        /\ receipts' = receipts /\ heap' = heap
    BY <1>2 DEF Replay, Apply
  <2>4. PadIsReceipted'
    BY <2>2, <2>3, Places DEF IInv, PadIsReceipted
  <2>5. CallsAreNew'
    BY <2>2, <2>3, Places DEF CallsAreNew
  <2>6. pad' = [r \in Reads |-> pad'[r]]
    BY <2>2, <2>3 DEF IInv
  <2> QED
    BY <2>1, <2>3, <2>4, <2>5, <2>6 DEF IInv
<1>3. CASE Attempt
  <2>1. PortfolioIsEvidenced'
    BY <1>3, AuditKept DEF IInv, Attempt
  <2>2. pc \in Reads /\ pc \notin DOMAIN receipts /\ pc' = Calling[pc]
    BY <1>3 DEF Attempt
  <2>3. UNCHANGED <<pad, receipts, heap>>
    BY <1>3 DEF Attempt
  <2>4. PadIsReceipted' /\ CallsAreNew'
    BY <2>2, <2>3, Places DEF IInv, PadIsReceipted, CallsAreNew
  <2> QED
    BY <2>1, <2>3, <2>4 DEF IInv
<1>4. CASE Execute
  <2>0. PICK read \in Reads : \E result : pc = Calling[read] /\ Receive(read, result)
    BY <1>4 DEF Execute
  <2>1. PICK result : pc = Calling[read] /\ Receive(read, result)
    BY <2>0
  <2>2. read \notin DOMAIN receipts /\ DOMAIN heap = {} /\ heap' = heap
    BY <1>4, <2>1 DEF IInv, CallsAreNew, Execute
  <2>3. /\ DOMAIN receipts' = DOMAIN receipts \cup {read}
        /\ receipts'[read].result = result
        /\ \A r \in DOMAIN receipts : receipts'[r] = receipts[r]
    BY <2>1, <2>2 DEF Receive, With
  <2>4. pad' = [pad EXCEPT ![read] = result] /\ pc' = GateAfter[read]
    BY <2>1 DEF Receive, Apply
  <2>5. PadIsReceipted'
    BY <2>1, <2>3, <2>4, Places DEF IInv, PadIsReceipted
  <2>6. CallsAreNew'
    BY <2>4, Places DEF CallsAreNew
  <2>7. pad' = [r \in Reads |-> pad'[r]] /\ DOMAIN receipts' \subseteq Reads
    BY <2>3, <2>4 DEF IInv
  <2> QED
    BY <2>2, <2>5, <2>6, <2>7 DEF IInv, PortfolioIsEvidenced
<1>5. CASE ClusterGate \/ MoatGate \/ LadderGate
  <2>1. UNCHANGED <<pad, receipts, heap>>
    BY <1>5 DEF ClusterGate, MoatGate, LadderGate, Gate, Proceed, Escalate
  <2>2. \/ pc = "cluster" /\ pc' \in {"competitors", "idle"}
        \/ pc = "moat" /\ pc' \in {"buyers", "idle"}
        \/ pc = "ladder" /\ pc' \in {"project", "idle"}
    BY <1>5 DEF ClusterGate, MoatGate, LadderGate, Gate, Proceed, Escalate
  <2>3. PadIsReceipted' /\ CallsAreNew'
    BY <2>1, <2>2, PlaceTable DEF IInv, PadIsReceipted, CallsAreNew, Reads
  <2> QED
    BY <2>1, <2>3, AuditKept DEF IInv
<1>6. CASE Project
  <2>1. pad = Journaled /\ Reads \subseteq DOMAIN receipts
    BY <1>6, PadIsJournaled DEF Project
  <2>2. PICK q \in DOMAIN Portfolio(pad) : heap' = With(heap, q, Portfolio(pad)[q])
    BY <1>6 DEF Project
  <2>3. UNCHANGED <<pc, pad, receipts>>
    BY <1>6 DEF Project
  <2>4. Journaled' = Journaled
    BY <2>3 DEF Journaled
  <2>5. Portfolio(Journaled)' = Portfolio(Journaled)
    BY <2>4 DEF Portfolio, PainClusters, MandateCandidates, Synthesised, MoatSurvivors, BuyerMapped,
       DistinctSources, PainSignals, Posts, HasMoat, HasChannels, Shortlist, Ranks, HasRealQuote, Refused, Error
  <2>6. \A k \in DOMAIN heap' : heap'[k] = Portfolio(Journaled)[k]
    BY <2>1, <2>2 DEF With, IInv, PortfolioIsEvidenced
  <2>7. PortfolioIsEvidenced'
    BY <2>5, <2>6 DEF PortfolioIsEvidenced
  <2>8. PadIsReceipted' /\ CallsAreNew'
    BY <2>3 DEF IInv, PadIsReceipted, CallsAreNew
  <2> QED
    BY <2>1, <2>3, <2>7, <2>8 DEF IInv
<1>7. CASE Settle \/ Raise
  <2>1. UNCHANGED <<pad, receipts, heap>> /\ pc' = "idle"
    BY <1>7 DEF Settle, Raise
  <2>2. PadIsReceipted' /\ CallsAreNew'
    BY <2>1, Places DEF PadIsReceipted, CallsAreNew
  <2> QED
    BY <2>1, <2>2, AuditKept DEF IInv
<1>8. CASE UNCHANGED vars
  <2>1. UNCHANGED <<pc, pad, receipts, heap>>
    BY <1>8 DEF vars
  <2>2. PadIsReceipted' /\ CallsAreNew'
    BY <2>1 DEF IInv, PadIsReceipted, CallsAreNew
  <2> QED
    BY <2>1, <2>2, AuditKept DEF IInv
<1> QED
  BY <1>1, <1>2, <1>3, <1>4, <1>5, <1>6, <1>7, <1>8 DEF Next, Invoke

(* The strengthening holds in every reachable state. *)
LEMMA Invariance == Spec => []IInv
BY InitInv, NextInv, PTL DEF Spec

(* Every fact a discovery run leaves in the heap (F6 of the playbook,         *)
(* projected one at a time) follows from the receipts in the journal, however  *)
(* often the run was retried and whatever the providers answered each time.   *)
THEOREM PortfolioCanBeAudited == Spec => []PortfolioIsEvidenced
<1>1. IInv => PortfolioIsEvidenced
  BY DEF IInv
<1> QED
  BY <1>1, Invariance, PTL

----------------------------------------------------------------------------
(* The bars of the charter. *)

(* The survivors are the same for the same answers. *)
LEMMA SurvivorsKept ==
    ASSUME receipts' = receipts
    PROVE  /\ Journaled' = Journaled
           /\ MoatSurvivors(Journaled)' = MoatSurvivors(Journaled)
           /\ Portfolio(Journaled)' = Portfolio(Journaled)
<1>1. Journaled' = Journaled
  BY DEF Journaled
<1> QED
  BY <1>1 DEF Portfolio, PainClusters, MandateCandidates, Synthesised, MoatSurvivors, BuyerMapped,
     DistinctSources, PainSignals, Posts, HasMoat, HasChannels, Shortlist, Ranks, HasRealQuote,
     Refused, Error

(* What the last gate saw is the same for the same scratchpad. *)
LEMMA PortfolioKept ==
    ASSUME pad' = pad
    PROVE  Portfolio(pad)' = Portfolio(pad)
BY DEF Portfolio, PainClusters, MandateCandidates, Synthesised, MoatSurvivors, BuyerMapped,
   DistinctSources, PainSignals, Posts, HasMoat, HasChannels, Shortlist, Ranks, HasRealQuote,
   Refused, Error

(* No step but a call's answer touches the receipts. *)
LEMMA ReceiptsKept ==
    ASSUME receipts' = receipts, SampleIsTyped, BuyersAreSurvivors
    PROVE  SampleIsTyped' /\ BuyersAreSurvivors'
<1>1. SampleIsTyped'
  BY DEF SampleIsTyped
<1>2. MoatSurvivors(Journaled)' = MoatSurvivors(Journaled)
  BY SurvivorsKept
<1>3. BuyersAreSurvivors'
  BY <1>2 DEF BuyersAreSurvivors
<1> QED
  BY <1>1, <1>3

(* Only survivors of the first two reads are moat survivors. *)
LEMMA SurvivorsFrom ==
    ASSUME NEW p, NEW q, p.sample = q.sample, p.competitors = q.competitors
    PROVE  MoatSurvivors(p) = MoatSurvivors(q)
BY DEF MoatSurvivors, HasMoat

(* What a community sample holds: for some of the sources the labels of their  *)
(* posts, that of a failed search among them.                               *)
LEMMA SamplesAreTyped ==
    ASSUME NEW result \in Answers("sample", Args("sample"))
    PROVE  result \in Samples
<1>1. FreeSources \in SUBSET Sources /\ Sources \in SUBSET Sources /\ {} \in SUBSET Sources
  BY DiscoveryAssumption
<1>2. SourceAnswers \subseteq SUBSET (Topics \cup {Error})
  BY DEF SourceAnswers
<1>3. [s \in {} |-> {}] \in [{} -> SUBSET (Topics \cup {Error})]
  OBVIOUS
<1>4. /\ [Sources -> SourceAnswers] \subseteq [Sources -> SUBSET (Topics \cup {Error})]
      /\ FreeSample \subseteq [FreeSources -> SUBSET (Topics \cup {Error})]
  BY <1>2 DEF FreeSample
<1>5. result = [s \in {} |-> {}] \/ result \in [Sources -> SourceAnswers] \/ result \in FreeSample
  BY DEF Answers, Nothing, CommunitySample
<1>6. \E T \in SUBSET Sources : result \in [T -> SUBSET (Topics \cup {Error})]
  BY <1>1, <1>3, <1>4, <1>5
<1> QED
  BY <1>6 DEF Samples

(* A step within an invocation that has no outcome yet and stands at no last    *)
(* gate leaves the clauses about both as they are.                          *)
LEMMA NoOutcome ==
    ASSUME BarsInv, work = "claimed", UNCHANGED <<work, outcome>>
    PROVE  OutcomeIsLast' /\ (pc' # "project" => LadderStands')
<1>1. outcome = "open"
  BY DEF BarsInv, OutcomeIsLast
<1> QED
  BY <1>1 DEF OutcomeIsLast, LadderStands

(* An invocation is under way wherever the playbook is. *)
LEMMA UnderWay ==
    ASSUME BarsInv, pc # "idle"
    PROVE  work = "claimed"
BY DEF BarsInv, OutcomeIsLast

(* Nothing is asked, projected or settled when the work item is enqueued. *)
LEMMA BarsInit == Init => BarsInv
<1> SUFFICES ASSUME Init PROVE BarsInv
  OBVIOUS
<1>1. DOMAIN receipts = {} /\ work = "pending" /\ pc = "idle" /\ outcome = "open"
  BY DEF Init, Empty
<1> QED
  BY <1>1, InitInv DEF BarsInv, SampleIsTyped, BuyersAreSurvivors, OutcomeIsLast, LadderStands

(* A new receipt: the sample is one, and the buyers are survivors of the reads  *)
(* that are behind their call.                                              *)
LEMMA ReceiptsArrive ==
    ASSUME BarsInv, Execute
    PROVE  SampleIsTyped' /\ BuyersAreSurvivors'
<1>0. PICK read \in Reads : /\ pc = Calling[read]
                            /\ \E result \in Answers(read, Args(read)) : Receive(read, result)
  BY DEF Execute
<1>1. PICK result \in Answers(read, Args(read)) : Receive(read, result)
  BY <1>0
<1>2. read \notin DOMAIN receipts /\ DOMAIN receipts \subseteq Reads
  BY <1>0 DEF BarsInv, IInv, CallsAreNew
<1>3. /\ DOMAIN receipts' = DOMAIN receipts \cup {read}
      /\ receipts'[read].result = result
      /\ \A r \in DOMAIN receipts : receipts'[r] = receipts[r]
  BY <1>1, <1>2 DEF Receive, With
<1>4. SampleIsTyped'
  <2>1. CASE read = "sample"
    <3>1. result \in Samples
      BY <2>1, SamplesAreTyped
    <3> QED
      BY <2>1, <3>1, <1>3 DEF SampleIsTyped, Samples, Error
  <2>2. CASE read # "sample"
    <3>1. "sample" \in DOMAIN receipts' => receipts'["sample"].result \in Samples
      BY <2>2, <1>3 DEF BarsInv, SampleIsTyped
    <3> QED
      BY <3>1 DEF SampleIsTyped, Samples, Error
  <2> QED
    BY <2>1, <2>2
<1>5. BuyersAreSurvivors'
  <2> SUFFICES ASSUME "buyers" \in DOMAIN receipts'
               PROVE  /\ {"sample", "competitors"} \subseteq DOMAIN receipts'
                      /\ receipts'["buyers"].result \subseteq MoatSurvivors(Journaled')
    <3>1. MoatSurvivors(Journaled)' = MoatSurvivors(Journaled')
      BY DEF MoatSurvivors, MandateCandidates, Synthesised, PainClusters, DistinctSources,
         PainSignals, Posts, HasMoat, HasRealQuote, Refused, Error
    <3> QED
      BY <3>1 DEF BuyersAreSurvivors
  <2>1. CASE read = "buyers"
    <3>1. pc \in After["sample"] /\ pc \in After["competitors"]
      BY <2>1, <1>0, PlaceTable
    <3>2. /\ {"sample", "competitors"} \subseteq DOMAIN receipts
          /\ pad.sample = receipts["sample"].result
          /\ pad.competitors = receipts["competitors"].result
      BY <3>1 DEF BarsInv, IInv, PadIsReceipted, Reads
    <3>3. Journaled'.sample = pad.sample /\ Journaled'.competitors = pad.competitors
      BY <3>2, <1>3 DEF Journaled, Reads
    <3>4. result \subseteq MoatSurvivors(pad)
      BY <2>1 DEF Answers, Nothing, Args, BuyerArgs, WithChannels
    <3>5. MoatSurvivors(Journaled') = MoatSurvivors(pad)
      BY <3>3, SurvivorsFrom
    <3> QED
      BY <3>2, <3>4, <3>5, <2>1, <1>3
  <2>2. CASE read # "buyers"
    <3>1. "buyers" \in DOMAIN receipts
      BY <2>2, <1>3
    <3>2. {"sample", "competitors"} \subseteq DOMAIN receipts
      BY <3>1 DEF BarsInv, BuyersAreSurvivors
    <3>3. Journaled'.sample = Journaled.sample /\ Journaled'.competitors = Journaled.competitors
      BY <3>2, <1>3 DEF Journaled, Reads
    <3>4. MoatSurvivors(Journaled') = MoatSurvivors(Journaled)
      BY <3>3, SurvivorsFrom
    <3>5. receipts["buyers"].result \subseteq MoatSurvivors(Journaled)
      BY <3>1 DEF BarsInv, BuyersAreSurvivors
    <3> QED
      BY <3>1, <3>2, <3>4, <3>5, <1>3
  <2> QED
    BY <2>1, <2>2
<1> QED
  BY <1>4, <1>5

(* The bars are inductive: one case per action. *)
LEMMA BarsNext == BarsInv /\ [Next]_vars => BarsInv'
<1> SUFFICES ASSUME BarsInv, [Next]_vars PROVE BarsInv'
  OBVIOUS
<1>0. IInv' /\ SampleIsTyped /\ BuyersAreSurvivors /\ DOMAIN receipts \subseteq Reads
  BY NextInv DEF BarsInv, IInv
<1>1. CASE Claim
  <2>1. /\ UNCHANGED <<receipts, heap, outcome>> /\ pc' = "sample"
        /\ work = "pending" /\ work' = "claimed"
    BY <1>1 DEF Claim
  <2>2. outcome = "open"
    BY <2>1 DEF BarsInv, OutcomeIsLast
  <2> QED
    BY <1>0, <2>1, <2>2, ReceiptsKept DEF BarsInv, OutcomeIsLast, LadderStands
<1>2. CASE Replay
  <2>1. /\ UNCHANGED <<work, receipts, outcome>> /\ pc \in Reads
        /\ pc' = GateAfter[pc]
    BY <1>2, <1>0 DEF Replay, Apply
  <2>2. pc # "idle" /\ pc' # "project"
    BY <2>1, PlaceTable DEF Reads
  <2> QED
    BY <1>0, <2>1, <2>2, ReceiptsKept, NoOutcome, UnderWay DEF BarsInv
<1>3. CASE Attempt
  <2>1. /\ UNCHANGED <<work, receipts, outcome>> /\ pc \in Reads
        /\ pc' = Calling[pc]
    BY <1>3 DEF Attempt
  <2>2. pc # "idle" /\ pc' # "project"
    BY <2>1, PlaceTable DEF Reads
  <2> QED
    BY <1>0, <2>1, <2>2, ReceiptsKept, NoOutcome, UnderWay DEF BarsInv
<1>4. CASE Execute
  <2>1. UNCHANGED <<work, outcome>>
    BY <1>4 DEF Execute
  <2>2. \E read \in Reads : pc = Calling[read] /\ pc' = GateAfter[read]
    BY <1>4 DEF Execute, Receive, Apply
  <2>3. pc # "idle" /\ pc' # "project"
    BY <2>2, PlaceTable DEF Reads
  <2> QED
    BY <1>0, <1>4, <2>1, <2>3, ReceiptsArrive, NoOutcome, UnderWay DEF BarsInv
<1>5. CASE ClusterGate \/ MoatGate \/ LadderGate
  <2>1. UNCHANGED <<pad, receipts, heap>> /\ pc # "idle"
    BY <1>5 DEF ClusterGate, MoatGate, LadderGate, Gate, Proceed, Escalate
  <2>2. work = "claimed" /\ outcome = "open"
    BY <2>1, UnderWay DEF BarsInv, OutcomeIsLast
  <2>3. \/ work' = work /\ outcome' = outcome /\ pc' \in {"competitors", "buyers"}
        \/ work' = work /\ outcome' = outcome /\ pc' = "project" /\ Ladder(Portfolio(pad))
        \/ work' = "completed" /\ outcome' = "crashed" /\ pc' = "idle"
    BY <1>5 DEF ClusterGate, MoatGate, LadderGate, Gate, Proceed, Escalate
  <2>4. OutcomeIsLast'
    BY <2>2, <2>3 DEF OutcomeIsLast
  <2>5. LadderStands'
    <3>1. Ladder(Portfolio(pad))' = Ladder(Portfolio(pad))
      BY <2>1, PortfolioKept DEF Ladder
    <3> QED
      BY <2>2, <2>3, <3>1 DEF LadderStands
  <2> QED
    BY <1>0, <2>1, <2>4, <2>5, ReceiptsKept DEF BarsInv
<1>6. CASE Project
  <2>1. UNCHANGED <<work, pc, pad, receipts, outcome>> /\ pc = "project"
    BY <1>6 DEF Project
  <2>2. work = "claimed" /\ outcome = "open"
    BY <2>1, UnderWay DEF BarsInv, OutcomeIsLast
  <2>3. Ladder(Portfolio(pad))' = Ladder(Portfolio(pad))
    BY <2>1, PortfolioKept DEF Ladder
  <2>4. LadderStands' /\ OutcomeIsLast'
    BY <2>1, <2>2, <2>3 DEF BarsInv, LadderStands, OutcomeIsLast
  <2> QED
    BY <1>0, <2>1, <2>4, ReceiptsKept DEF BarsInv
<1>7. CASE Settle
  <2>1. /\ UNCHANGED <<receipts, heap>> /\ pc = "project" /\ heap = Portfolio(pad)
        /\ work' = "completed" /\ pc' = "idle"
    BY <1>7 DEF Settle
  <2>2. pad = Journaled
    BY <2>1, PadIsJournaled DEF BarsInv
  <2>3. heap = Portfolio(Journaled) /\ Ladder(Portfolio(Journaled))
    BY <2>1, <2>2 DEF BarsInv, LadderStands
  <2>4. (heap = Portfolio(Journaled) /\ Ladder(Portfolio(Journaled)))'
    BY <2>1, <2>3, SurvivorsKept DEF Ladder
  <2>5. LadderStands' /\ OutcomeIsLast'
    BY <2>1, <2>4 DEF LadderStands, OutcomeIsLast
  <2> QED
    BY <1>0, <2>1, <2>5, ReceiptsKept DEF BarsInv
<1>8. CASE Raise
  <2>1. /\ UNCHANGED <<receipts, outcome>> /\ work = "claimed"
        /\ work' = "pending" /\ pc' = "idle"
    BY <1>8 DEF Raise
  <2>2. outcome = "open"
    BY <2>1 DEF BarsInv, OutcomeIsLast
  <2> QED
    BY <1>0, <2>1, <2>2, ReceiptsKept DEF BarsInv, LadderStands, OutcomeIsLast
<1>9. CASE UNCHANGED vars
  <2>1. UNCHANGED <<work, pc, pad, receipts, heap, outcome>>
    BY <1>9 DEF vars
  <2>2. /\ Ladder(Portfolio(pad))' = Ladder(Portfolio(pad))
        /\ Portfolio(Journaled)' = Portfolio(Journaled)
        /\ Ladder(Portfolio(Journaled))' = Ladder(Portfolio(Journaled))
    BY <2>1, PortfolioKept, SurvivorsKept DEF Ladder
  <2> QED
    BY <1>0, <2>1, <2>2, ReceiptsKept DEF BarsInv, LadderStands, OutcomeIsLast
<1> QED
  BY <1>1, <1>2, <1>3, <1>4, <1>5, <1>6, <1>7, <1>8, <1>9 DEF Next, Invoke

(* A finite set has n members or more exactly when it has a part of n.         *)
LEMMA PartsOfASet ==
    ASSUME NEW D, IsFiniteSet(D), NEW n \in Nat
    PROVE  Cardinality(D) >= n <=> \E S \in SUBSET D : Cardinality(S) = n
<1>1. Cardinality(D) \in Nat
  BY FS_CardinalityType
<1>2. ASSUME NEW S \in SUBSET D, Cardinality(S) = n PROVE Cardinality(D) >= n
  BY <1>2, <1>1, FS_Subset, FS_CardinalityType
<1>3. ASSUME Cardinality(D) >= n PROVE \E S \in SUBSET D : Cardinality(S) = n
  <2>1. PICK f \in Bijection(1 .. Cardinality(D), D) : TRUE
    BY FS_CardinalityType DEF ExistsBijection
  <2>2. /\ f \in [1 .. Cardinality(D) -> D]
        /\ \A i, j \in 1 .. Cardinality(D) : f[i] = f[j] => i = j
    BY DEF Bijection, Injection, IsInjective
  <2> DEFINE part == {f[i] : i \in 1 .. n}
             g == [i \in 1 .. n |-> f[i]]
  <2>3. 1 .. n \subseteq 1 .. Cardinality(D)
    BY <1>1, <1>3
  <2>4. g \in Bijection(1 .. n, part)
    BY <2>2, <2>3 DEF Bijection, Injection, Surjection, IsInjective
  <2>5. Cardinality(part) = n
    BY <2>4, FS_CountingElements DEF ExistsBijection
  <2>6. part \in SUBSET D
    BY <2>2, <2>3
  <2> QED
    BY <2>5, <2>6
<1> QED
  BY <1>2, <1>3

(* A theme clusters exactly when MinSources of the communities show it.        *)
LEMMA ClustersAreBacked ==
    ASSUME NEW sample \in Samples
    PROVE  PainClusters(sample) =
             {t \in Topics : \E S \in SUBSET DOMAIN sample :
                 Cardinality(S) = MinSources /\ \A s \in S : t \in sample[s]}
<1>1. IsFiniteSet(DOMAIN sample)
  BY DiscoveryAssumption, FS_Subset DEF Samples
<1>2. ASSUME NEW t \in Topics
      PROVE  DistinctSources(sample, t) = {s \in DOMAIN sample : t \in sample[s]}
  <2>1. t # Error
    BY DiscoveryAssumption DEF Error
  <2>2. \A s \in DOMAIN sample : t \in sample[s] <=> <<s, t>> \in Posts(sample)
    BY DEF Posts
  <2>3. \A s \in DOMAIN sample : <<s, t>> \in Posts(sample) <=> <<s, t>> \in PainSignals(sample)
    BY <2>1 DEF PainSignals, HasRealQuote
  <2> QED
    BY <2>2, <2>3 DEF DistinctSources
<1>3. ASSUME NEW t \in Topics
      PROVE  Cardinality(DistinctSources(sample, t)) >= MinSources
               <=> \E S \in SUBSET DOMAIN sample :
                      Cardinality(S) = MinSources /\ \A s \in S : t \in sample[s]
  <2>1. IsFiniteSet(DistinctSources(sample, t))
    BY <1>1, <1>2, FS_Subset
  <2>2. MinSources \in Nat
    BY DiscoveryAssumption
  <2>3. Cardinality(DistinctSources(sample, t)) >= MinSources
          <=> \E S \in SUBSET DistinctSources(sample, t) : Cardinality(S) = MinSources
    BY <2>1, <2>2, PartsOfASet
  <2> QED
    BY <2>3, <1>2
<1> QED
  BY <1>3 DEF PainClusters

(* What a settled run left in the heap, counted on its own receipts. *)
LEMMA BarsAreMet == BarsInv => PortfolioMeetsTheBars
<1> SUFFICES ASSUME BarsInv, outcome = "settled" PROVE PortfolioMeetsTheBars
  BY DEF PortfolioMeetsTheBars
<1> DEFINE sample == Journaled.sample
           backed == {t \in Topics : \E S \in SUBSET DOMAIN sample :
                         Cardinality(S) = MinSources /\ \A s \in S : t \in sample[s]}
<1>1. heap = Portfolio(Journaled) /\ Ladder(Portfolio(Journaled))
  BY DEF BarsInv, LadderStands
<1>2. sample \in Samples
  <2>1. [s \in {} |-> {}] \in [{} -> SUBSET (Topics \cup {Error})]
    OBVIOUS
  <2>2. [s \in {} |-> {}] \in Samples
    BY <2>1 DEF Samples
  <2> QED
    BY <2>2 DEF BarsInv, SampleIsTyped, Journaled, Nothing, Reads
<1>3. PainClusters(sample) = backed
  BY <1>2, ClustersAreBacked
<1>4. MandateCandidates(sample) = backed \ AntiPortfolio
  BY <1>3 DEF MandateCandidates, Synthesised, Refused
<1>5. Journaled.buyers \subseteq MoatSurvivors(Journaled)
  BY DEF BarsInv, BuyersAreSurvivors, Journaled, Nothing, Reads
<1>6. BuyerMapped(Journaled) = (backed \ AntiPortfolio) \cap Journaled.buyers
  BY <1>4, <1>5 DEF BuyerMapped, HasChannels, MoatSurvivors
<1>7. /\ heap.clusters = Cardinality(PainClusters(sample))
      /\ heap.mapped = Cardinality(BuyerMapped(Journaled))
      /\ heap.clusters >= MinClusters /\ heap.mapped = heap.shortlist
  BY <1>1 DEF Portfolio, Ladder
<1>8. /\ heap.clusters = Cardinality(backed) /\ heap.clusters >= MinClusters
      /\ heap.shortlist = Cardinality((backed \ AntiPortfolio) \cap Journaled.buyers)
  BY <1>3, <1>6, <1>7
<1> QED
  BY <1>8 DEF PortfolioMeetsTheBars

(* The bars hold in every reachable state. *)
LEMMA BarsInvariance == Spec => []BarsInv
BY BarsInit, BarsNext, PTL DEF Spec

(* A portfolio settles only on pain that MinSources communities of its own     *)
(* receipts show, in MinClusters themes or more, and its shortlist is all that  *)
(* passed the refusals and found a buyer (gates of mandate_discovery_quality), *)
(* for any communities, themes, bars and retries.                           *)
THEOREM SettledPortfoliosMeetTheBars == Spec => []PortfolioMeetsTheBars
BY BarsAreMet, BarsInvariance, PTL

----------------------------------------------------------------------------
(* Types. *)

(* A scratchpad in which nothing was read has the types of what is read. *)
LEMMA NothingIsTyped == DOMAIN Nothing = Reads /\ \A r \in Reads : Nothing[r] \in ResultType[r]
<1>1. [s \in {} |-> {}] \in [{} -> SUBSET (Topics \cup {Error})]
  OBVIOUS
<1>2. [s \in {} |-> {}] \in Samples
  BY <1>1 DEF Samples
<1>3. /\ ResultType["sample"] = Samples /\ ResultType["competitors"] = SUBSET Topics
      /\ ResultType["buyers"] = SUBSET Topics
  BY DEF ResultType
<1>4. /\ Nothing["sample"] = [s \in {} |-> {}]
      /\ Nothing["competitors"] = {} /\ Nothing["buyers"] = {}
  BY DEF Nothing
<1>5. DOMAIN Nothing = Reads
  BY DEF Nothing, Reads
<1> QED
  BY <1>2, <1>3, <1>4, <1>5 DEF Reads

(* What the playbook draws from the themes is a set of themes. *)
LEMMA ThemesAreTopics ==
    ASSUME NEW p
    PROVE  /\ PainClusters(p.sample) \subseteq Topics
           /\ MandateCandidates(p.sample) \subseteq Topics
           /\ MoatSurvivors(p) \subseteq Topics /\ BuyerMapped(p) \subseteq Topics
BY DEF PainClusters, MandateCandidates, Synthesised, MoatSurvivors, BuyerMapped

(* The args of a read are themes, and its answer is of the read's type. *)
LEMMA ReadsAreTyped ==
    ASSUME NEW read \in Reads
    PROVE  /\ Args(read) \in SUBSET Topics
           /\ Answers(read, Args(read)) \subseteq ResultType[read]
<1>1. Args(read) \in SUBSET Topics
  BY ThemesAreTopics DEF Args, CompetitorArgs, BuyerArgs, Reads
<1>2. Nothing[read] \in ResultType[read]
  BY NothingIsTyped
<1>3. CASE read = "sample"
  BY <1>1, <1>2, <1>3, SamplesAreTyped DEF Answers, ResultType
<1>4. CASE read = "competitors"
  BY <1>1, <1>2, <1>4 DEF Answers, ResultType, Assessed
<1>5. CASE read = "buyers"
  BY <1>1, <1>2, <1>5 DEF Answers, ResultType, WithChannels
<1> QED
  BY <1>1, <1>3, <1>4, <1>5 DEF Reads

(* What F6 claims is counted. *)
LEMMA PortfolioIsCounted ==
    ASSUME NEW p
    PROVE  /\ DOMAIN Portfolio(p) = FactNames
           /\ \A q \in FactNames : Portfolio(p)[q] \in Nat
<1>1. \A S \in SUBSET Topics : Cardinality(S) \in Nat
  BY DiscoveryAssumption, FS_Subset, FS_CardinalityType
<1>2. Cardinality(Shortlist(BuyerMapped(p))) \in Nat
  <2>1. Cardinality(BuyerMapped(p)) \in Nat
    BY <1>1, ThemesAreTopics
  <2>2. IsFiniteSet(1 .. Cardinality(BuyerMapped(p)))
    BY <2>1, FS_Interval
  <2> QED
    BY <2>2, FS_Subset, FS_CardinalityType DEF Shortlist, Ranks
<1> QED
  BY <1>1, <1>2, ThemesAreTopics DEF Portfolio, FactNames

(* The types of what an answered read leaves. *)
LEMMA ApplyIsTyped ==
    ASSUME TypeOK, NEW read \in Reads, NEW result \in ResultType[read], Apply(read, result)
    PROVE  /\ pc' \in UNION {{Calling[r], GateAfter[r]} : r \in Reads}
           /\ DOMAIN pad' = Reads /\ \A r \in Reads : pad'[r] \in ResultType[r]
BY DEF TypeOK, Apply

(* Nothing has been written when the work item is enqueued. *)
LEMMA TypesInit == Init => TypeOK
<1> SUFFICES ASSUME Init PROVE TypeOK
  OBVIOUS
<1>1. DOMAIN pad = Reads /\ \A r \in Reads : pad[r] \in ResultType[r]
  BY NothingIsTyped DEF Init
<1> QED
  BY <1>1, DiscoveryAssumption DEF Init, TypeOK, Empty

(* Types are inductive by themselves: one case per action. *)
LEMMA TypesNext == TypeOK /\ [Next]_vars => TypeOK'
<1> SUFFICES ASSUME TypeOK, [Next]_vars PROVE TypeOK'
  OBVIOUS
<1>1. CASE Claim
  <2>1. DOMAIN pad' = Reads /\ \A r \in Reads : pad'[r] \in ResultType[r]
    BY <1>1, NothingIsTyped DEF Claim
  <2> QED
    BY <1>1, <2>1 DEF Claim, TypeOK, Reads
<1>2. CASE Replay
  <2>1. pc \in Reads /\ receipts[pc].result \in ResultType[pc]
    BY <1>2 DEF Replay, TypeOK
  <2>2. Apply(pc, receipts[pc].result)
    BY <1>2 DEF Replay
  <2> QED
    BY <1>2, <2>1, <2>2, ApplyIsTyped DEF Replay, TypeOK
<1>3. CASE Attempt
  <2>1. pc \in Reads /\ Args(pc) \in SUBSET Topics
    BY <1>3, ReadsAreTyped DEF Attempt
  <2>2. attempts' = With(attempts, pc, [args |-> Args(pc)])
    BY <1>3 DEF Attempt
  <2>3. /\ DOMAIN attempts' \subseteq Reads
        /\ \A r \in DOMAIN attempts' : attempts'[r] \in [args : SUBSET Topics]
    BY <2>1, <2>2 DEF With, TypeOK
  <2> QED
    BY <1>3, <2>1, <2>3 DEF Attempt, TypeOK
<1>4. CASE Execute
  <2>1. PICK read \in Reads : \E result \in Answers(read, Args(read)) : Receive(read, result)
    BY <1>4 DEF Execute
  <2>2. PICK result \in ResultType[read] : Receive(read, result)
    BY <2>1, ReadsAreTyped
  <2>3. receipts' = With(receipts, read, [args |-> Args(read), result |-> result])
    BY <2>2 DEF Receive
  <2>4. Args(read) \in SUBSET Topics
    BY ReadsAreTyped
  <2>5. /\ DOMAIN receipts' \subseteq Reads
        /\ \A r \in DOMAIN receipts' : receipts'[r] \in [args : SUBSET Topics, result : ResultType[r]]
    BY <2>3, <2>4 DEF With, TypeOK
  <2>6. UNCHANGED <<work, attempts, heap, outcome, faults>>
    BY <1>4 DEF Execute
  <2> QED
    BY <2>2, <2>5, <2>6, ApplyIsTyped DEF Receive, TypeOK
<1>5. CASE ClusterGate \/ MoatGate \/ LadderGate
  BY <1>5 DEF ClusterGate, MoatGate, LadderGate, Gate, Proceed, Escalate, TypeOK, Reads
<1>6. CASE Project
  <2>1. PICK q \in DOMAIN Portfolio(pad) : heap' = With(heap, q, Portfolio(pad)[q])
    BY <1>6 DEF Project
  <2>2. q \in FactNames /\ Portfolio(pad)[q] \in Nat
    BY <2>1, PortfolioIsCounted
  <2>3. DOMAIN heap' \subseteq FactNames /\ \A k \in DOMAIN heap' : heap'[k] \in Nat
    BY <2>1, <2>2 DEF With, TypeOK
  <2> QED
    BY <1>6, <2>3 DEF Project, TypeOK
<1>7. CASE Settle
  BY <1>7 DEF Settle, TypeOK
<1>8. CASE Raise
  <2>1. faults' \in 0 .. MaxFaults
    BY <1>8, DiscoveryAssumption DEF Raise, TypeOK
  <2> QED
    BY <1>8, <2>1 DEF Raise, TypeOK
<1>9. CASE UNCHANGED vars
  BY <1>9 DEF vars, TypeOK
<1> QED
  BY <1>1, <1>2, <1>3, <1>4, <1>5, <1>6, <1>7, <1>8, <1>9 DEF Next, Invoke

(* Receipts, scratchpad, places and facts keep their types. *)
THEOREM TypeCorrect == Spec => []TypeOK
BY TypesInit, TypesNext, PTL DEF Spec
-----------------------------------------------------------------------------
(* The work queue *)

(* A read that is answered or asked leaves the invocation in the playbook. *)
LEMMA ReadsGoOn ==
    ASSUME TypeOK, Replay \/ Attempt \/ Execute
    PROVE  pc # "idle" /\ pc' # "idle" /\ work' = work
<1>1. CASE Replay
  <2>1. pc \in Reads /\ pc' = GateAfter[pc] /\ work' = work
    BY <1>1 DEF Replay, Apply, TypeOK
  <2> QED
    BY <2>1, PlaceTable DEF Reads
<1>2. CASE Attempt
  <2>1. pc \in Reads /\ pc' = Calling[pc] /\ work' = work
    BY <1>2 DEF Attempt
  <2> QED
    BY <2>1, PlaceTable DEF Reads
<1>3. CASE Execute
  <2>1. PICK read \in Reads : pc = Calling[read] /\ \E result : Receive(read, result)
    BY <1>3 DEF Execute
  <2>2. pc' = GateAfter[read] /\ work' = work
    BY <1>3, <2>1 DEF Execute, Receive, Apply
  <2> QED
    BY <2>1, <2>2, PlaceTable DEF Reads
<1> QED
  BY <1>1, <1>2, <1>3

(* A gate lets the invocation go on or completes its item. *)
LEMMA GatesPassOrEnd ==
    ASSUME ClusterGate \/ MoatGate \/ LadderGate
    PROVE  /\ pc # "idle"
           /\ \/ pc' # "idle" /\ work' = work
              \/ pc' = "idle" /\ work' = "completed"
BY DEF ClusterGate, MoatGate, LadderGate, Gate, Proceed, Escalate

LEMMA ClaimedNext ==
    ASSUME TypeOK, InvokedIsClaimed, [Next]_vars
    PROVE  InvokedIsClaimed'
<1>1. CASE Claim \/ Project \/ Settle \/ Raise
  BY <1>1 DEF Claim, Project, Settle, Raise, InvokedIsClaimed
<1>2. CASE Replay \/ Attempt \/ Execute
  BY <1>2, ReadsGoOn DEF InvokedIsClaimed
<1>3. CASE ClusterGate \/ MoatGate \/ LadderGate
  BY <1>3, GatesPassOrEnd DEF InvokedIsClaimed
<1>4. CASE UNCHANGED vars
  BY <1>4 DEF vars, InvokedIsClaimed
<1> QED
  BY <1>1, <1>2, <1>3, <1>4 DEF Next, Invoke

LEMMA QueueInitRefines == Init => Queue!Init
BY DEF Init, Queue!Init, Held

(* Claiming, ending and raising are the queue's operations; what the playbook
   does in between is none of its business. *)
LEMMA QueueStepRefines ==
    ASSUME TypeOK, InvokedIsClaimed, [Next]_vars
    PROVE  Queue!Next \/ UNCHANGED Queue!vars
<1> DEFINE rows == [i \in {"run"} |-> work]
<1>0. rows["run"] = work /\ Held["worker"] = IF pc = "idle" THEN {} ELSE {"run"}
  BY DEF Held
<1>1. ASSUME pc = "idle", pc' # "idle", work = "pending", work' = "claimed"
      PROVE  Queue!Next
  <2>1. Held' = [Held EXCEPT !["worker"] = {"run"}] /\ rows' = [rows EXCEPT !["run"] = "claimed"]
    BY <1>1 DEF Held
  <2>2. Queue!Claim("worker", "run")
    BY <1>0, <1>1, <2>1 DEF Queue!Claim, Queue!Set, Queue!Hands
  <2> QED
    BY <2>2 DEF Queue!Next
<1>2. ASSUME pc # "idle", pc' = "idle", work' \in {"completed", "pending"}
      PROVE  Queue!Next
  <2>1. Held' = [Held EXCEPT !["worker"] = {}] /\ rows' = [rows EXCEPT !["run"] = work']
    BY <1>2 DEF Held
  <2>2. Queue!Complete("worker", "run") \/ Queue!Fail("worker", "run")
    BY <1>0, <1>2, <2>1 DEF InvokedIsClaimed, Queue!Complete, Queue!Fail, Queue!Set, Queue!Hands
  <2> QED
    BY <2>2 DEF Queue!Next
<1>3. ASSUME pc # "idle", pc' # "idle", work' = work
      PROVE  UNCHANGED Queue!vars
  BY <1>3 DEF Queue!vars, Held
<1>4. CASE Claim
  BY <1>1, <1>4 DEF Claim, InvokedIsClaimed
<1>5. CASE Settle \/ Raise
  BY <1>2, <1>5 DEF Settle, Raise, InvokedIsClaimed
<1>6. CASE Replay \/ Attempt \/ Execute
  BY <1>3, <1>6, ReadsGoOn
<1>7. CASE ClusterGate \/ MoatGate \/ LadderGate
  BY <1>2, <1>3, <1>7, GatesPassOrEnd
<1>8. CASE Project
  BY <1>3, <1>8 DEF Project
<1>9. CASE UNCHANGED vars
  BY <1>9 DEF vars, Queue!vars, Held
<1> QED
  BY <1>4, <1>5, <1>6, <1>7, <1>8, <1>9 DEF Next, Invoke

(* The item of a discovery run is invoked by the worker that claimed it, until
   the playbook ends or something raises, and once completed never again: the
   run loop keeps the rules of the work queue however the providers answer. *)
THEOREM DiscoveryUsesWorkQueue == Spec => ImplementsWorkQueue
<1>1. Init => TypeOK /\ InvokedIsClaimed
  BY TypesInit DEF Init, InvokedIsClaimed
<1>2. TypeOK /\ InvokedIsClaimed /\ [Next]_vars => (TypeOK /\ InvokedIsClaimed)'
  BY TypesNext, ClaimedNext
<1>3. TypeOK /\ InvokedIsClaimed /\ [Next]_vars => [Queue!Next]_(Queue!vars)
  BY QueueStepRefines
<1> QED
  BY <1>1, <1>2, <1>3, QueueInitRefines, PTL DEF Spec, ImplementsWorkQueue, Queue!Spec
=============================================================================
