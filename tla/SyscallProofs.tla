---------------------------- MODULE SyscallProofs ----------------------------
(***************************************************************************)
(* The syscall path: the gateway, and the adapters behind it.               *)
(*                                                                         *)
(* What the gateway guarantees for any args, results, rings, number of     *)
(* calls and of faults: first with any number of workers on one key, then  *)
(* with one worker at a time.  What the adapters guarantee for any keys,   *)
(* instances and environments, and any number of calls, cancellations and  *)
(* restarts: a second mail under one key takes a fault, and a receipt      *)
(* tells what happened.                                                    *)
(***************************************************************************)
EXTENDS Gateway, Adapters, SequenceTheorems, FiniteSetTheorems, TLAPS

-----------------------------------------------------------------------------
(* The gateway: any number of workers *)

CallerState == [pc : Busy \cup Outcomes, args : Args \cup {None},
                ring : Rings \cup {0}, verdict : Verdicts \cup {"none"},
                seen : Receipt \cup {NoReceipt}, result : Results \cup {None}]

(* A key nobody has used satisfies the inductive invariant. *)
LEMMA InitInv == Init => IInv
<1> SUFFICES ASSUME Init PROVE IInv
  OBVIOUS
<1> USE DEF Init, Idle
<1>1. TypeOK
  BY GatewayAssumption DEF TypeOK, Outcomes
<1>2. SettledHasReceipt /\ EffectsWereJournaled
  BY DEF SettledHasReceipt, EffectsWereJournaled
<1>3. \A c \in Callers : CallCarries(c)
  BY DEF CallCarries
<1> QED
  BY <1>1, <1>2, <1>3 DEF IInv

(* A step that moves one call and touches no store keeps the invariant if the
   call then carries what its new await needs. *)
LEMMA CallMoves ==
  ASSUME IInv, NEW c \in Callers, NEW r \in CallerState,
         caller' = [caller EXCEPT ![c] = r],
         UNCHANGED <<journal, receipt, effects>>,
         calls' \in 0 .. MaxCalls, faults' \in 0 .. MaxFaults, lost' \in 0 .. faults',
         CallCarries(c)'
  PROVE  IInv'
<1>1. TypeOK'
  BY DEF IInv, TypeOK, CallerState, journal
<1>2. SettledHasReceipt' /\ EffectsWereJournaled'
  BY DEF IInv, SettledHasReceipt, EffectsWereJournaled, journal
<1>3. \A d \in Callers \ {c} : caller'[d] = caller[d]
  BY DEF IInv, TypeOK
<1>4. \A d \in Callers \ {c} : CallCarries(d)'
  BY <1>3 DEF IInv, CallCarries, journal
<1> QED
  BY <1>1, <1>2, <1>4 DEF IInv

(* Appending to a sequence keeps its elements where they are. *)
LEMMA AppendKeeps ==
  ASSUME NEW S, NEW s \in Seq(S), NEW x \in S
  PROVE  /\ Append(s, x) \in Seq(S)
         /\ Len(Append(s, x)) = Len(s) + 1
         /\ DOMAIN Append(s, x) = 1 .. (Len(s) + 1)
         /\ DOMAIN s = 1 .. Len(s)
         /\ \A n \in DOMAIN s : n \in DOMAIN Append(s, x) /\ Append(s, x)[n] = s[n]
         /\ Append(s, x)[Len(s) + 1] = x
  OBVIOUS

(* SyscallSettled is appended by a call that holds its receipt. *)
LEMMA AppendSettledInv ==
  ASSUME IInv, NEW c \in Callers, NEW result \in Results, AppendSettled(c, result),
         caller[c].pc \in {"resettle", "settling"}
  PROVE  IInv'
<1> USE DEF AppendSettled, Goes, Returns, bounds
<1>1. caller[c] \in CallerState /\ caller[c].args \in Args /\ receipt # NoReceipt
  BY DEF IInv, TypeOK, CallerState, CallCarries
<1>2. caller'[c].args = caller[c].args /\ caller'[c].pc \in {"duplicate", "returned"}
  BY <1>1 DEF IInv, TypeOK
<1>3. TypeOK'
  BY <1>1 DEF IInv, TypeOK, Outcomes, Raised
<1>4. SettledHasReceipt' /\ EffectsWereJournaled'
  BY <1>1 DEF IInv, SettledHasReceipt, EffectsWereJournaled
<1>5. \A d \in Callers \ {c} : CallCarries(d)'
  <2>1. \A d \in Callers \ {c} : caller'[d] = caller[d]
    BY DEF IInv, TypeOK
  <2> QED
    BY <2>1 DEF IInv, CallCarries
<1>6. CallCarries(c)'
  BY <1>1, <1>2 DEF CallCarries
<1> QED
  BY <1>3, <1>4, <1>5, <1>6 DEF IInv

(* The invariant is inductive: one case per action. *)
LEMMA NextInv == IInv /\ [Next]_vars => IInv'
<1> SUFFICES ASSUME IInv, [Next]_vars PROVE IInv'
  OBVIOUS
<1> USE DEF Goes, bounds, journal
<1>0. \A c \in Callers : caller[c] \in CallerState /\ CallCarries(c)
  BY DEF IInv, TypeOK, CallerState
<1>1. ASSUME NEW c \in Callers, NEW args \in Args, NEW ring \in Rings,
             NEW verdict \in Verdicts, Call(c, args, ring, verdict)
      PROVE  IInv'
  <2> DEFINE r == Calling(args, ring, verdict)
  <2>1. r \in CallerState /\ r.pc = "receipt" /\ r.args = args
    BY DEF Calling, Idle, CallerState, Busy
  <2>2. caller' = [caller EXCEPT ![c] = r]
    BY <1>1 DEF Call
  <2>3. CallCarries(c)'
    BY <2>1, <2>2 DEF CallCarries, IInv, TypeOK
  <2>4. calls' \in 0 .. MaxCalls /\ faults' = faults /\ lost' = lost
    BY <1>1, GatewayAssumption DEF Call, IInv, TypeOK
  <2> HIDE DEF r
  <2> QED
    BY <1>1, <2>1, <2>2, <2>3, <2>4, CallMoves DEF Call, IInv, TypeOK
<1>2. ASSUME NEW c \in Callers, Retry(c) PROVE IInv'
  <2> DEFINE r == Calling(caller[c].args, caller[c].ring, caller[c].verdict)
  <2>1. r \in CallerState /\ r.pc = "receipt" /\ r.args \in Args
    BY <1>0, <1>2 DEF Calling, Idle, CallerState, Busy, Retry, Raised, CallCarries
  <2>2. caller' = [caller EXCEPT ![c] = r]
    BY <1>2 DEF Retry
  <2>3. CallCarries(c)'
    BY <2>1, <2>2 DEF CallCarries, IInv, TypeOK
  <2> HIDE DEF r
  <2> QED
    BY <1>2, <2>1, <2>2, <2>3, CallMoves DEF Retry, IInv, TypeOK
<1>3. ASSUME NEW c \in Callers, ReadReceipt(c) PROVE IInv'
  <2> DEFINE r == caller'[c]
  <2>1. /\ r \in CallerState /\ r.args = caller[c].args
        /\ r.pc = "conflict" \/ (r.pc = "events" /\ r.seen = receipt)
        /\ caller' = [caller EXCEPT ![c] = r]
    <3>1. CASE receipt # NoReceipt /\ receipt.args # caller[c].args
      <4>1. Goes(c, "conflict")
        BY <1>3, <3>1 DEF ReadReceipt
      <4>2. r = [caller[c] EXCEPT !.pc = "conflict"]
        BY <4>1 DEF IInv, TypeOK
      <4> QED
        BY ZenonT(60), <1>0, <4>1, <4>2 DEF CallerState, Outcomes, Raised, IInv, TypeOK
    <3>2. CASE ~(receipt # NoReceipt /\ receipt.args # caller[c].args)
      <4>1. r = [caller[c] EXCEPT !.pc = "events", !.seen = receipt]
        BY <1>3, <3>2 DEF ReadReceipt, IInv, TypeOK
      <4>2. receipt \in Receipt \cup {NoReceipt}
        BY DEF IInv, TypeOK
      <4>3. r \in CallerState /\ r.args = caller[c].args /\ r.pc = "events" /\ r.seen = receipt
        BY <1>0, <4>1, <4>2 DEF CallerState, Busy
      <4> QED
        BY <1>3, <3>2, <4>1, <4>3 DEF ReadReceipt, IInv, TypeOK
    <3> QED
      BY <3>1, <3>2
  <2>2. CallCarries(c)'
    BY <1>0, <1>3, <2>1 DEF ReadReceipt, CallCarries
  <2> HIDE DEF r
  <2> QED
    BY <1>3, <2>1, <2>2, CallMoves DEF ReadReceipt, IInv, TypeOK
<1>4. ASSUME NEW c \in Callers, ReadEvents(c) PROVE IInv'
  <2> DEFINE r == caller'[c]
  <2>1. /\ r \in CallerState /\ r.args = caller[c].args /\ r.seen = caller[c].seen
        /\ \/ r.pc \in {"missing", "returned", "attempts"}
           \/ r.pc = "resettle" /\ caller[c].seen # NoReceipt
        /\ caller' = [caller EXCEPT ![c] = r]
    <3>1. CASE settled # None /\ caller[c].seen # NoReceipt
      <4>1. r = [caller[c] EXCEPT !.pc = "returned", !.result = caller[c].seen.result]
        BY <1>4, <3>1 DEF ReadEvents, Returns, IInv, TypeOK
      <4>2. caller[c].seen.result \in Results
        BY <1>0, <3>1 DEF CallerState, Receipt
      <4>3. r \in CallerState /\ r.args = caller[c].args /\ r.seen = caller[c].seen
              /\ r.pc = "returned"
        BY <1>0, <4>1, <4>2 DEF CallerState, Outcomes
      <4> QED
        BY <1>4, <3>1, <4>1, <4>3 DEF ReadEvents, Returns, IInv, TypeOK
    <3>2. CASE ~(settled # None /\ caller[c].seen # NoReceipt)
      <4>1. PICK pc \in {"missing", "attempts", "resettle"} :
               /\ Goes(c, pc)
               /\ pc = "resettle" => caller[c].seen # NoReceipt
        BY <1>4, <3>2 DEF ReadEvents
      <4>2. r = [caller[c] EXCEPT !.pc = pc]
        BY <4>1 DEF IInv, TypeOK
      <4> QED
        BY ZenonT(60), <1>0, <4>1, <4>2 DEF CallerState, Busy, Outcomes, Raised, IInv, TypeOK
    <3> QED
      BY <3>1, <3>2
  <2>2. CallCarries(c)'
    BY <1>0, <1>4, <2>1 DEF ReadEvents, CallCarries
  <2> HIDE DEF r
  <2> QED
    BY <1>4, <2>1, <2>2, CallMoves DEF ReadEvents, IInv, TypeOK
<1>5. ASSUME NEW c \in Callers, Resettle(c) PROVE IInv'
  <2>1. caller[c].seen.result \in Results
    BY <1>0, <1>5 DEF Resettle, CallCarries, CallerState, Receipt
  <2> QED
    BY <1>5, <2>1, AppendSettledInv DEF Resettle
<1>6. ASSUME NEW c \in Callers, ReadAttempts(c) PROVE IInv'
  <2> DEFINE r == caller'[c]
  <2>1. /\ r \in CallerState /\ r.args = caller[c].args
        /\ \/ r.pc \in {"log", "conflict", "park", "denied"}
           \/ /\ r.pc = "execute"
              /\ attempted # <<>> /\ attempted[Len(attempted)] = caller[c].args
        /\ caller' = [caller EXCEPT ![c] = r]
    BY <1>0, <1>6 DEF ReadAttempts, Disposition, CallerState, Busy, Outcomes, Raised,
                      IInv, TypeOK
  <2>2. attempted # <<>> => Len(attempted) \in DOMAIN attempted
    BY DEF IInv, TypeOK
  <2>3. CallCarries(c)'
    BY <1>0, <1>6, <2>1, <2>2 DEF ReadAttempts, CallCarries
  <2> HIDE DEF r
  <2> QED
    BY <1>6, <2>1, <2>3, CallMoves DEF ReadAttempts, IInv, TypeOK
<1>7. ASSUME NEW c \in Callers, LogAttempt(c) PROVE IInv'
  <2>1. caller[c].args \in Args /\ attempted \in Seq(Args)
    BY <1>0, <1>7 DEF LogAttempt, CallCarries, IInv, TypeOK
  <2>2. /\ attempted' \in Seq(Args)
        /\ \A m \in DOMAIN attempted :
              m \in DOMAIN attempted' /\ attempted'[m] = attempted[m]
        /\ \E m \in DOMAIN attempted' : attempted'[m] = caller[c].args
    BY <1>7, <2>1, AppendKeeps DEF LogAttempt
  <2>3. TypeOK'
    <3>1. Disposition(c) \in Busy \cup Outcomes
      BY DEF Disposition, Busy, Outcomes
    <3>2. [caller[c] EXCEPT !.pc = Disposition(c)] \in CallerState
      BY <1>0, <3>1 DEF CallerState
    <3>3. caller' \in [Callers -> CallerState]
      BY <1>7, <3>2 DEF LogAttempt, IInv, TypeOK, CallerState
    <3> QED
      BY <1>7, <2>2, <3>3 DEF LogAttempt, IInv, TypeOK, CallerState
  <2>4. SettledHasReceipt' /\ EffectsWereJournaled'
    BY <1>7, <2>2 DEF LogAttempt, IInv, SettledHasReceipt, EffectsWereJournaled
  <2>5. \A d \in Callers \ {c} : CallCarries(d)'
    <3>1. \A d \in Callers \ {c} : caller'[d] = caller[d]
      BY <1>7 DEF LogAttempt, IInv, TypeOK
    <3> QED
      BY <1>0, <1>7, <2>2, <3>1 DEF LogAttempt, CallCarries
  <2>6. CallCarries(c)'
    <3>1. caller'[c].args = caller[c].args /\ caller'[c].pc \in {"park", "denied", "execute"}
      BY <1>7 DEF LogAttempt, Disposition, IInv, TypeOK
    <3> QED
      BY <2>1, <2>2, <3>1 DEF CallCarries
  <2> QED
    BY <2>3, <2>4, <2>5, <2>6 DEF IInv
<1>8. ASSUME NEW c \in Callers, Park(c) PROVE IInv'
  <2>1. TypeOK' /\ caller'[c].args = caller[c].args /\ caller'[c].pc = "parked"
    <3>1. [caller[c] EXCEPT !.pc = "parked"] \in CallerState
      BY <1>0 DEF CallerState, Outcomes
    <3>2. caller' \in [Callers -> CallerState]
      BY <1>8, <3>1 DEF Park, IInv, TypeOK, CallerState
    <3> QED
      BY <1>8, <3>1, <3>2 DEF Park, IInv, TypeOK, CallerState
  <2>2. \A d \in Callers \ {c} : caller'[d] = caller[d]
    BY <1>8 DEF Park, IInv, TypeOK
  <2>3. SettledHasReceipt' /\ EffectsWereJournaled'
    BY <1>8 DEF Park, IInv, SettledHasReceipt, EffectsWereJournaled
  <2>4. \A d \in Callers : CallCarries(d)'
    BY <1>0, <1>8, <2>1, <2>2 DEF Park, CallCarries
  <2> QED
    BY <2>1, <2>3, <2>4 DEF IInv
<1>9. ASSUME NEW c \in Callers, Execute(c) PROVE IInv'
  <2>1. caller[c].args \in Args /\ effects \in Seq(Args)
    BY <1>0, <1>9 DEF Execute, CallCarries, IInv, TypeOK
  <2>2. \E m \in DOMAIN attempted : attempted[m] = caller[c].args
    BY <1>0, <1>9 DEF Execute, CallCarries
  <2>3. /\ effects' \in Seq(Args)
        /\ \A n \in DOMAIN effects' : \E m \in DOMAIN attempted :
              attempted[m] = effects'[n]
    <3>1. CASE effects' = effects
      BY <2>1, <3>1 DEF IInv, EffectsWereJournaled
    <3>2. CASE effects' = Append(effects, caller[c].args)
      <4>1. /\ effects' \in Seq(Args)
            /\ DOMAIN effects' = DOMAIN effects \cup {Len(effects) + 1}
            /\ \A n \in DOMAIN effects : effects'[n] = effects[n]
            /\ effects'[Len(effects) + 1] = caller[c].args
        BY <2>1, <3>2, AppendKeeps
      <4> QED
        BY <2>2, <4>1 DEF IInv, EffectsWereJournaled
    <3> QED
      BY <1>9, <3>1, <3>2 DEF Execute
  <2>4. TypeOK' /\ caller'[c].args = caller[c].args /\ caller'[c].pc = "saving"
                /\ caller'[c].result \in Results
    <3>1. PICK result \in Results :
             caller' = [caller EXCEPT ![c].pc = "saving", ![c].result = result]
      BY <1>9 DEF Execute
    <3>2. [caller[c] EXCEPT !.pc = "saving", !.result = result] \in CallerState
      BY <1>0 DEF CallerState, Busy
    <3>3. caller' \in [Callers -> CallerState]
      BY <3>1, <3>2 DEF IInv, TypeOK, CallerState
    <3> QED
      BY <1>9, <2>3, <3>1, <3>3 DEF Execute, IInv, TypeOK, CallerState
  <2>5. \A d \in Callers \ {c} : caller'[d] = caller[d]
    BY <1>9 DEF Execute, IInv, TypeOK
  <2>6. SettledHasReceipt' /\ EffectsWereJournaled'
    BY <1>9, <2>3 DEF Execute, IInv, SettledHasReceipt, EffectsWereJournaled
  <2>7. \A d \in Callers : CallCarries(d)'
    BY ZenonT(60), <1>0, <1>9, <2>2, <2>4, <2>5 DEF Execute, CallCarries
  <2> QED
    BY <2>4, <2>6, <2>7 DEF IInv
<1>10. ASSUME NEW c \in Callers, ReadPriorReceipt(c) PROVE IInv'
  <2> DEFINE r == caller'[c]
  <2>1. /\ r \in CallerState /\ r.args = caller[c].args /\ r.result = caller[c].result
        /\ r.pc \in {"conflict", "replacing"}
        /\ caller' = [caller EXCEPT ![c] = r]
    BY ZenonT(60), <1>0, <1>10 DEF ReadPriorReceipt, CallerState, Busy, Outcomes, Raised, IInv, TypeOK
  <2>2. CallCarries(c)'
    BY <1>0, <1>10, <2>1 DEF ReadPriorReceipt, CallCarries
  <2> HIDE DEF r
  <2> QED
    BY <1>10, <2>1, <2>2, CallMoves DEF ReadPriorReceipt, IInv, TypeOK
<1>11. ASSUME NEW c \in Callers, ReplaceReceipt(c) PROVE IInv'
  <2>1. receipt' \in Receipt /\ receipt' # NoReceipt
    BY <1>0, <1>11, GatewayAssumption
       DEF ReplaceReceipt, Executed, CallCarries, Receipt, NoReceipt
  <2>2. TypeOK' /\ caller'[c].pc = "settling" /\ caller'[c].args = caller[c].args
                /\ caller'[c].result = caller[c].result
    BY ZenonT(60), <1>11, <2>1 DEF ReplaceReceipt, IInv, TypeOK, Busy
  <2>3. \A d \in Callers \ {c} : caller'[d] = caller[d]
    BY <1>11 DEF ReplaceReceipt, IInv, TypeOK
  <2>4. SettledHasReceipt' /\ EffectsWereJournaled'
    BY <1>11, <2>1 DEF ReplaceReceipt, IInv, SettledHasReceipt, EffectsWereJournaled
  <2>5. \A d \in Callers : CallCarries(d)'
    <3>1. NoReceipt' = NoReceipt
      BY DEF NoReceipt
    <3> QED
      BY <1>0, <1>11, <2>1, <2>2, <2>3, <3>1 DEF ReplaceReceipt, CallCarries
  <2> QED
    BY <2>2, <2>4, <2>5 DEF IInv
<1>12. ASSUME NEW c \in Callers, Settle(c) PROVE IInv'
  <2>1. caller[c].result \in Results
    BY <1>0, <1>12 DEF Settle, CallCarries
  <2> QED
    BY <1>12, <2>1, AppendSettledInv DEF Settle
<1>13. ASSUME NEW c \in Callers, Fault(c) PROVE IInv'
  <2> DEFINE r == caller'[c]
  <2>1. /\ r \in CallerState /\ r.args = caller[c].args
        /\ r.pc \in {"raised", "cancelled"}
        /\ caller' = [caller EXCEPT ![c] = r]
    <3>1. PICK pc \in {"raised", "cancelled"} : Goes(c, pc)
      BY <1>13 DEF Fault
    <3>2. r = [caller[c] EXCEPT !.pc = pc]
      BY <3>1 DEF IInv, TypeOK
    <3> QED
      BY ZenonT(60), <1>0, <3>1, <3>2 DEF CallerState, Outcomes, Raised, IInv, TypeOK
  <2>2. CallCarries(c)'
    BY <1>0, <1>13, <2>1 DEF Fault, CallCarries, Busy
  <2>3. faults' \in 0 .. MaxFaults /\ lost' \in 0 .. faults' /\ calls' = calls
    BY <1>13, GatewayAssumption DEF Fault, IInv, TypeOK
  <2> HIDE DEF r
  <2> QED
    BY <1>13, <2>1, <2>2, <2>3, CallMoves DEF Fault, IInv, TypeOK
<1>14. CASE UNCHANGED vars
  BY <1>14 DEF vars, IInv, TypeOK, SettledHasReceipt, EffectsWereJournaled, CallCarries
<1> QED
  BY <1>1, <1>2, <1>3, <1>4, <1>5, <1>6, <1>7, <1>8, <1>9, <1>10, <1>11, <1>12, <1>13,
     <1>14 DEF Next, Step

(* The strengthening that implies what holds with any number of workers. *)
THEOREM Invariance == Spec => []IInv
BY InitInv, NextInv, PTL DEF Spec

(* Every state is well typed. *)
THEOREM TypeCorrect == Spec => []TypeOK
BY Invariance, PTL DEF IInv

(* No settlement is journaled before the receipt a retry replays. *)
THEOREM SettlementsCanBeReplayed == Spec => []SettledHasReceipt
BY Invariance, PTL DEF IInv

(* No effect lands that the journal does not name. *)
THEOREM EffectsAreJournaledAhead == Spec => []EffectsWereJournaled
BY Invariance, PTL DEF IInv

-----------------------------------------------------------------------------
(* One worker at a time: what each action leaves true about its own call is
   true about every call. *)

OneWorker == \A c, d \in Callers : c = d

(* The invariant without the part NextInv preserves. *)
KeyState ==
    /\ OneRequestPerKey
    /\ settled # None => settled = receipt.result
    /\ RepeatsArePaidFor
    /\ Len(attempted) <= 1
    /\ effects # <<>> \/ receipt # NoReceipt => attempted # <<>>

(* A sequence of at most one element is empty or that element. *)
LEMMA ShortSequence ==
  ASSUME NEW S, NEW s \in Seq(S), Len(s) <= 1, s # <<>>
  PROVE  Len(s) = 1 /\ s = <<s[1]>>
<1>1. Len(s) = 1
  <2>1. Len(s) \in Nat \ {0}
    BY EmptySeq
  <2> QED
    BY <2>1
<1>2. s \in [1 .. 1 -> S]
  BY <1>1
<1> QED
  BY <1>1, <1>2, SeqEqual

(* A key nobody has used satisfies it. *)
LEMMA OneWorkerInit == Init => OneWorkerInv
<1> SUFFICES ASSUME Init PROVE OneWorkerInv
  OBVIOUS
<1>1. IInv
  BY InitInv
<1>2. KeyState
  BY DEF Init, KeyState, OneRequestPerKey, RepeatsArePaidFor
<1>3. \A c \in Callers : CallKnows(c)
  <2>1. Len(effects) = 0 /\ lost = 0
    BY DEF Init
  <2>2. \A c \in Callers : caller[c].pc = "idle"
    BY DEF Init, Idle
  <2>3. Len(effects) <= lost
    BY <2>1
  <2> QED
    BY <2>2, <2>3 DEF CallKnows
<1> QED
  BY <1>1, <1>2, <1>3 DEF OneWorkerInv, KeyState

(* A step that touches no store keeps the state of the key. *)
LEMMA KeyStateUnchanged ==
  ASSUME OneWorkerInv, IInv', UNCHANGED <<attempted, settled, receipt, effects>>,
         lost' \in {lost, lost + 1}
  PROVE  KeyState' /\ Len(effects) \in Nat /\ lost \in Nat
<1>1. Len(effects) \in Nat /\ lost \in Nat
  BY DEF OneWorkerInv, IInv, TypeOK
<1> QED
  BY <1>1 DEF OneWorkerInv, KeyState, OneRequestPerKey, RepeatsArePaidFor

(* With one worker, every step by a call that knows the key's state leaves it
   knowing the new one. *)
LEMMA OneWorkerNext ==
  ASSUME OneWorker, OneWorkerInv, [Next]_vars
  PROVE  OneWorkerInv'
<1> USE DEF Goes, bounds, journal
<1>0. IInv /\ IInv' /\ KeyState
  BY NextInv DEF OneWorkerInv, KeyState
<1>a. \A c \in Callers : CallKnows(c) /\ CallCarries(c) /\ caller[c] \in CallerState
  BY DEF OneWorkerInv, IInv, TypeOK, CallerState
<1>b. attempted \in Seq(Args) /\ effects \in Seq(Args) /\ Len(effects) \in Nat /\ lost \in Nat
  BY <1>0 DEF IInv, TypeOK
<1> SUFFICES KeyState' /\ \A c \in Callers : CallKnows(c)'
  BY <1>0 DEF OneWorkerInv, KeyState
<1>c. ASSUME NEW c \in Callers, CallKnows(c)' PROVE \A d \in Callers : CallKnows(d)'
  BY <1>c DEF OneWorker
<1>1. ASSUME NEW c \in Callers, NEW args \in Args, NEW ring \in Rings,
             NEW verdict \in Verdicts, Call(c, args, ring, verdict)
      PROVE  KeyState' /\ CallKnows(c)'
  <2>1. caller'[c].pc = "receipt"
    BY <1>0, <1>1 DEF Call, Calling, Idle, IInv, TypeOK
  <2>2. receipt = NoReceipt => Len(effects) <= lost
    BY <1>a, <1>1 DEF Call, CallKnows, Outcomes, Raised
  <2> QED
    BY <1>0, <1>1, <2>1, <2>2, KeyStateUnchanged DEF Call, CallKnows
<1>2. ASSUME NEW c \in Callers, Retry(c) PROVE KeyState' /\ CallKnows(c)'
  <2>1. caller'[c].pc = "receipt"
    BY <1>0, <1>2 DEF Retry, Calling, Idle, IInv, TypeOK
  <2>2. receipt = NoReceipt => Len(effects) <= lost
    BY <1>a, <1>2 DEF Retry, CallKnows, Raised
  <2> QED
    BY <1>0, <1>2, <2>1, <2>2, KeyStateUnchanged DEF Retry, CallKnows
<1>3. ASSUME NEW c \in Callers, ReadReceipt(c) PROVE KeyState' /\ CallKnows(c)'
  <2>1. \/ caller'[c].pc = "conflict"
        \/ (caller'[c].pc = "events" /\ caller'[c].seen = receipt)
    BY <1>0, <1>a, <1>3 DEF ReadReceipt, CallerState, IInv, TypeOK
  <2>2. receipt = NoReceipt => Len(effects) <= lost
    BY <1>a, <1>3 DEF ReadReceipt, CallKnows
  <2> QED
    BY <1>0, <1>3, <2>1, <2>2, KeyStateUnchanged DEF ReadReceipt, CallKnows
<1>4. ASSUME NEW c \in Callers, ReadEvents(c) PROVE KeyState' /\ CallKnows(c)'
  <2>1. caller[c].seen = receipt /\ (receipt = NoReceipt => Len(effects) <= lost)
    BY <1>a, <1>4 DEF ReadEvents, CallKnows
  <2>2. CASE settled # None
    <3>1. receipt # NoReceipt /\ settled = receipt.result
      BY <1>0, <2>2 DEF IInv, SettledHasReceipt, KeyState
    <3>2. Returns(c, caller[c].seen.result)
      BY <1>4, <2>1, <2>2, <3>1 DEF ReadEvents
    <3>3. caller'[c].pc = "returned" /\ caller'[c].result = settled
      BY <1>0, <2>1, <3>1, <3>2 DEF Returns, IInv, TypeOK
    <3> QED
      BY <1>0, <1>4, <2>1, <2>2, <3>1, <3>3, KeyStateUnchanged DEF ReadEvents, CallKnows
  <2>3. CASE settled = None
    <3>1. /\ caller'[c].seen = receipt
          /\ \/ caller'[c].pc = "resettle"
             \/ (caller'[c].pc = "attempts" /\ receipt = NoReceipt)
      BY ZenonT(60), <1>0, <1>4, <2>1, <2>3 DEF ReadEvents, IInv, TypeOK
    <3> QED
      BY <1>0, <1>4, <2>1, <2>3, <3>1, KeyStateUnchanged DEF ReadEvents, CallKnows
  <2> QED
    BY <2>2, <2>3
<1>5. ASSUME NEW c \in Callers, NEW result, AppendSettled(c, result), settled = None,
             receipt # NoReceipt, result = receipt.result, result \in Results
      PROVE  KeyState' /\ CallKnows(c)'
  <2>1. settled' = result /\ caller'[c].pc = "returned" /\ caller'[c].result = result
    BY <1>0, <1>5 DEF AppendSettled, Returns, IInv, TypeOK
  <2>2. settled' # None
    BY <1>5, <2>1, GatewayAssumption
  <2> QED
    BY <1>0, <1>5, <2>1, <2>2
       DEF AppendSettled, CallKnows, KeyState, OneRequestPerKey, RepeatsArePaidFor
<1>6. ASSUME NEW c \in Callers, Resettle(c) PROVE KeyState' /\ CallKnows(c)'
  <2>1. settled = None /\ caller[c].seen = receipt /\ receipt # NoReceipt
    BY <1>a, <1>6 DEF Resettle, CallKnows, CallCarries
  <2>2. receipt.result \in Results
    BY <1>0, <2>1 DEF IInv, TypeOK, Receipt
  <2> QED
    BY <1>5, <1>6, <2>1, <2>2 DEF Resettle
<1>7. ASSUME NEW c \in Callers, ReadAttempts(c) PROVE KeyState' /\ CallKnows(c)'
  <2>1. receipt = NoReceipt /\ Len(effects) <= lost
    BY <1>a, <1>7 DEF ReadAttempts, CallKnows
  <2>2. \/ caller'[c].pc = "log" /\ attempted = <<>>
        \/ caller'[c].pc \in {"conflict", "denied"}
        \/ /\ caller'[c].pc \in {"park", "execute"}
           /\ attempted # <<>> /\ attempted[Len(attempted)] = caller[c].args
    BY <1>0, <1>7 DEF ReadAttempts, Disposition, IInv, TypeOK
  <2>3. attempted # <<>> /\ attempted[Len(attempted)] = caller[c].args
           => attempted = <<caller[c].args>>
    <3>1. Len(attempted) <= 1
      BY <1>0 DEF KeyState
    <3> QED
      BY <1>b, <3>1, ShortSequence
  <2>4. caller'[c].args = caller[c].args
    BY <1>0, <1>7 DEF ReadAttempts, IInv, TypeOK
  <2> QED
    BY <1>0, <1>7, <2>1, <2>2, <2>3, <2>4, KeyStateUnchanged DEF ReadAttempts, CallKnows
<1>8. ASSUME NEW c \in Callers, LogAttempt(c) PROVE KeyState' /\ CallKnows(c)'
  <2>1. attempted = <<>> /\ receipt = NoReceipt /\ Len(effects) <= lost
    BY <1>a, <1>8 DEF LogAttempt, CallKnows
  <2>2. effects = <<>>
    BY <1>0, <2>1 DEF KeyState
  <2>3. attempted' = <<caller[c].args>>
    BY <1>8, <2>1 DEF LogAttempt
  <2>4. caller'[c].args = caller[c].args /\ caller'[c].pc \in {"park", "denied", "execute"}
    BY <1>0, <1>8 DEF LogAttempt, Disposition, IInv, TypeOK
  <2>5. KeyState'
    BY <1>0, <1>8, <2>1, <2>2, <2>3
       DEF LogAttempt, KeyState, OneRequestPerKey, RepeatsArePaidFor
  <2> QED
    BY <1>8, <2>1, <2>3, <2>4, <2>5 DEF LogAttempt, CallKnows
<1>9. ASSUME NEW c \in Callers, Park(c) PROVE KeyState' /\ CallKnows(c)'
  <2>1. receipt = NoReceipt /\ Len(effects) <= lost
    BY <1>a, <1>9 DEF Park, CallKnows
  <2>2. caller'[c].pc = "parked"
    BY <1>0, <1>9 DEF Park, IInv, TypeOK
  <2> QED
    BY <1>0, <1>9, <2>1, <2>2, KeyStateUnchanged DEF Park, CallKnows
<1>10. ASSUME NEW c \in Callers, Execute(c) PROVE KeyState' /\ CallKnows(c)'
  <2>1. receipt = NoReceipt /\ attempted = <<caller[c].args>> /\ Len(effects) <= lost
    BY <1>a, <1>10 DEF Execute, CallKnows
  <2>2. caller'[c].pc = "saving" /\ caller'[c].args = caller[c].args
    BY <1>0, <1>10 DEF Execute, IInv, TypeOK
  <2>3. Len(effects') <= 1 + lost /\ \A n \in DOMAIN effects' : effects'[n] = caller[c].args
    <3>1. \A n \in DOMAIN effects : effects[n] = caller[c].args
      BY <1>0, <2>1 DEF KeyState, OneRequestPerKey
    <3>2. caller[c].args \in Args
      BY <1>a, <1>10 DEF Execute, CallCarries
    <3>3. CASE effects' = effects
      BY <1>b, <2>1, <3>1, <3>3
    <3>4. CASE effects' = Append(effects, caller[c].args)
      BY <1>b, <2>1, <3>1, <3>2, <3>4, AppendKeeps
    <3> QED
      BY <1>10, <3>3, <3>4 DEF Execute
  <2>4. KeyState'
    BY <1>0, <1>10, <2>1, <2>3 DEF Execute, KeyState, OneRequestPerKey, RepeatsArePaidFor
  <2> QED
    BY <1>10, <2>1, <2>2, <2>4 DEF Execute, CallKnows
<1>11. ASSUME NEW c \in Callers, ReadPriorReceipt(c) PROVE KeyState' /\ CallKnows(c)'
  <2>1. receipt = NoReceipt /\ attempted = <<caller[c].args>>
    BY <1>a, <1>11 DEF ReadPriorReceipt, CallKnows
  <2>2. caller'[c].pc = "replacing" /\ caller'[c].args = caller[c].args
    BY <1>0, <1>11, <2>1 DEF ReadPriorReceipt, IInv, TypeOK
  <2> QED
    BY <1>0, <1>11, <2>1, <2>2, KeyStateUnchanged DEF ReadPriorReceipt, CallKnows
<1>12. ASSUME NEW c \in Callers, ReplaceReceipt(c) PROVE KeyState' /\ CallKnows(c)'
  <2>1. attempted = <<caller[c].args>> /\ receipt = NoReceipt /\ settled = None
    BY <1>0, <1>a, <1>12 DEF ReplaceReceipt, CallKnows, IInv, SettledHasReceipt
  <2>2. caller'[c] = [caller[c] EXCEPT !.pc = "settling"]
    BY <1>0, <1>12 DEF ReplaceReceipt, IInv, TypeOK
  <2>3. caller'[c].pc = "settling" /\ receipt' = Executed(c)' /\ receipt'.args = caller[c].args
    BY <1>a, <1>12, <2>2 DEF ReplaceReceipt, Executed, CallerState
  <2>4. receipt' # NoReceipt
    BY <1>a, <1>12, <2>3, GatewayAssumption DEF ReplaceReceipt, CallCarries, NoReceipt
  <2>5. KeyState'
    BY <1>0, <1>12, <2>1, <2>3
       DEF ReplaceReceipt, KeyState, OneRequestPerKey, RepeatsArePaidFor
  <2> QED
    BY <1>12, <2>1, <2>3, <2>4, <2>5 DEF ReplaceReceipt, CallKnows, NoReceipt
<1>13. ASSUME NEW c \in Callers, Settle(c) PROVE KeyState' /\ CallKnows(c)'
  <2>1. settled = None /\ receipt = Executed(c) /\ receipt # NoReceipt
        /\ caller[c].result \in Results
    BY <1>a, <1>13 DEF Settle, CallKnows, CallCarries
  <2>2. receipt.result = caller[c].result
    BY <2>1 DEF Executed
  <2> QED
    BY <1>5, <1>13, <2>1, <2>2 DEF Settle
<1>14. ASSUME NEW c \in Callers, Fault(c) PROVE KeyState' /\ CallKnows(c)'
  <2>1. caller'[c].pc \in {"raised", "cancelled"}
    BY <1>0, <1>14 DEF Fault, IInv, TypeOK
  <2>2. receipt = NoReceipt => Len(effects) <= lost'
    <3>1. CASE caller[c].pc \in {"saving", "replacing"}
      BY <1>0, <1>b, <1>14, <3>1 DEF Fault, KeyState, RepeatsArePaidFor
    <3>2. CASE caller[c].pc \notin {"saving", "replacing"}
      BY <1>a, <1>14, <3>2 DEF Fault, CallKnows
    <3> QED
      BY <3>1, <3>2
  <2>3. lost' \in {lost, lost + 1} /\ UNCHANGED <<attempted, settled, receipt, effects>>
    BY <1>14 DEF Fault
  <2>4. KeyState'
    BY <1>0, <2>3, KeyStateUnchanged
  <2> QED
    BY <2>1, <2>2, <2>3, <2>4 DEF CallKnows
<1>15. CASE UNCHANGED vars
  <2>1. \A c \in Callers : CallKnows(c)'
    BY <1>a, <1>15 DEF vars, CallKnows, Executed
  <2> QED
    BY <1>0, <1>15, <2>1, KeyStateUnchanged DEF vars
<1> QED
  BY <1>c, <1>1, <1>2, <1>3, <1>4, <1>6, <1>7, <1>8, <1>9, <1>10, <1>11, <1>12, <1>13,
     <1>14, <1>15 DEF Next, Step

(* The strengthening that implies what holds while one worker at a time works on
   the run: the operator process starts one. *)
THEOREM OneWorkerInvariance ==
  ASSUME OneWorker
  PROVE  Spec => []OneWorkerInv
<1>1. OneWorkerInv /\ [Next]_vars => OneWorkerInv'
  BY OneWorkerNext
<1> QED
  BY <1>1, OneWorkerInit, PTL DEF Spec

(* The first args journaled for a key are the only ones that take effect. *)
THEOREM OneRequestOwnsTheKey ==
  ASSUME OneWorker
  PROVE  Spec => []OneRequestPerKey
BY OneWorkerInvariance, PTL DEF OneWorkerInv

(* Whoever gets an answer gets the journaled one. *)
THEOREM AnswersAreFaithful ==
  ASSUME OneWorker
  PROVE  Spec => []ReplayIsFaithful
<1>1. OneWorkerInv => ReplayIsFaithful
  BY DEF OneWorkerInv, CallKnows, ReplayIsFaithful
<1> QED
  BY <1>1, OneWorkerInvariance, PTL

(* However often the call is retried, an effect is repeated at most once for
   each fault between its execution and its receipt. *)
THEOREM RepetitionIsBounded ==
  ASSUME OneWorker
  PROVE  Spec => []RepeatsArePaidFor
BY OneWorkerInvariance, PTL DEF OneWorkerInv

-----------------------------------------------------------------------------
(* The adapters *)

MailsIn(box, k) == {n \in DOMAIN box : box[n].key = k}

(* The mails of a key are finitely many. *)
LEMMA MailsAreCounted ==
    ASSUME NEW S, NEW box \in Seq(S), NEW k
    PROVE  IsFiniteSet(MailsIn(box, k)) /\ Cardinality(MailsIn(box, k)) \in Nat
<1>1. Len(box) \in Nat /\ DOMAIN box = 1 .. Len(box)
  OBVIOUS
<1>2. IsFiniteSet(1 .. Len(box))
  BY <1>1, FS_Interval
<1>3. MailsIn(box, k) \in SUBSET (1 .. Len(box))
  BY <1>1 DEF MailsIn
<1>4. IsFiniteSet(MailsIn(box, k))
  BY <1>2, <1>3, FS_Subset
<1> QED
  BY <1>4, FS_CardinalityType

(* A mail that leaves counts for its own key, by one. *)
LEMMA DeliveryCounts ==
    ASSUME NEW S, NEW box \in Seq(S), NEW mail \in S, NEW k
    PROVE  Cardinality(MailsIn(Append(box, mail), k)) =
              Cardinality(MailsIn(box, k)) + IF mail.key = k THEN 1 ELSE 0
<1> DEFINE grown == Append(box, mail)
           last == Len(box) + 1
<1>1. DOMAIN grown = 1 .. last /\ grown[last] = mail /\ Len(box) \in Nat
      /\ \A n \in 1 .. Len(box) : grown[n] = box[n]
  OBVIOUS
<1>2. last \notin MailsIn(box, k)
  BY <1>1 DEF MailsIn
<1>3. CASE mail.key = k
  <2>1. MailsIn(grown, k) = MailsIn(box, k) \cup {last}
    BY <1>1, <1>3 DEF MailsIn
  <2> HIDE DEF grown, last
  <2>2. Cardinality(MailsIn(box, k) \cup {last}) = Cardinality(MailsIn(box, k)) + 1
    BY <1>2, MailsAreCounted, FS_AddElement
  <2> QED
    BY <1>3, <2>1, <2>2 DEF grown
<1>4. CASE mail.key # k
  <2>1. MailsIn(grown, k) = MailsIn(box, k)
    BY <1>1, <1>4 DEF MailsIn
  <2>2. Cardinality(MailsIn(box, k)) \in Nat
    BY MailsAreCounted
  <2> QED
    BY <1>4, <2>1, <2>2
<1> QED
  BY <1>3, <1>4

(* The process starts with no call in hand and no mail sent. *)
LEMMA InitPaid == AdapterInit => PaidInv
<1> SUFFICES ASSUME AdapterInit PROVE PaidInv
  OBVIOUS
<1>1. CallInHand
  <2>1. (CHOOSE k \in Keys : TRUE) \in Keys
    BY AdapterAssumption
  <2> QED
    BY <2>1 DEF AdapterInit, NoCall, CallInHand, At
<1>2. mailbox = <<>> /\ paid = [k \in Keys |-> 0] /\ DOMAIN receipts = Keys
  BY DEF AdapterInit
<1>3. ASSUME NEW k \in Keys PROVE Mails(k) <= paid[k] + IF Known(k) THEN 1 ELSE 0
  <2>1. Mails(k) = 0
    BY <1>2, FS_EmptySet DEF Mails
  <2> QED
    BY <1>2, <2>1
<1> QED
  BY <1>1, <1>2, <1>3 DEF PaidInv

(* Steps that deliver nothing, forget nothing and take no fault into account. *)
LEMMA NothingLeaves ==
    ASSUME PaidInv, CallInHand', mailbox' = mailbox, paid' = paid,
           DOMAIN receipts' = Keys, \A k \in Keys : Known(k) => Known(k)'
    PROVE  PaidInv'
<1> SUFFICES ASSUME NEW k \in Keys
             PROVE  Mails(k)' <= paid'[k] + IF Known(k)' THEN 1 ELSE 0
  BY DEF PaidInv
<1>1. Mails(k)' = Mails(k)
  BY DEF Mails
<1>2. Mails(k) \in Nat
  BY MailsAreCounted DEF PaidInv, Mails, MailsIn
<1>3. Mails(k) <= paid[k] + IF Known(k) THEN 1 ELSE 0
  BY DEF PaidInv
<1> QED
  BY <1>1, <1>2, <1>3 DEF PaidInv

(* A mail leaves: the adapter remembers it, or a fault pays for it. *)
LEMMA MailLeaves ==
    ASSUME PaidInv, CallInHand', At("send"), Deliver, call.sender \in Instances,
           receipts' = receipts,
           \/ sent' = sent \cup {call.key} /\ paid' = paid
           \/ sent' = sent /\ paid' = [paid EXCEPT ![call.key] = @ + 1]
    PROVE  PaidInv'
<1> DEFINE mail == [key |-> call.key, from |-> call.sender]
<1>1. mail \in [key : Keys, from : Instances] /\ mailbox' = Append(mailbox, mail)
      /\ mail.from = InstanceOf[mail.key] /\ mail.key = call.key
  BY DEF PaidInv, CallInHand, Deliver
<1> HIDE DEF mail
<1>2. mailbox \in Seq([key : Keys, from : Instances])
  BY DEF PaidInv
<1>3. mailbox' \in Seq([key : Keys, from : Instances])
  BY <1>1, <1>2
<1>4. \A n \in DOMAIN mailbox' : mailbox'[n].from = InstanceOf[mailbox'[n].key]
  BY <1>1, <1>2 DEF PaidInv
<1>5. paid' \in [Keys -> Nat] /\ DOMAIN receipts' = Keys
  BY DEF PaidInv
<1>6. ASSUME NEW k \in Keys PROVE Mails(k)' <= paid'[k] + IF Known(k)' THEN 1 ELSE 0
  <2>1. Mails(k)' = Mails(k) + IF call.key = k THEN 1 ELSE 0
    <3>1. Mails(k)' = Cardinality(MailsIn(Append(mailbox, mail), k))
      BY <1>1 DEF Mails, MailsIn
    <3>2. Mails(k) = Cardinality(MailsIn(mailbox, k))
      BY DEF Mails, MailsIn
    <3>3. Cardinality(MailsIn(Append(mailbox, mail), k)) =
             Cardinality(MailsIn(mailbox, k)) + IF mail.key = k THEN 1 ELSE 0
      <4>1. PICK T : T = [key : Keys, from : Instances]
        OBVIOUS
      <4>2. mailbox \in Seq(T) /\ mail \in T
        BY <1>1, <1>2, <4>1
      <4> QED
        BY <4>2, DeliveryCounts
    <3> QED
      BY <1>1, <3>1, <3>2, <3>3
  <2>2. Mails(k) \in Nat /\ paid[k] \in Nat /\ (Mails(k) <= paid[k] + IF Known(k) THEN 1 ELSE 0)
    <3>1. Mails(k) = Cardinality(MailsIn(mailbox, k))
      BY DEF Mails, MailsIn
    <3>2. Mails(k) \in Nat
      BY <1>2, <3>1, MailsAreCounted
    <3> QED
      BY <3>2 DEF PaidInv
  <2>3. ~Known(call.key) /\ call.key \in Keys
    BY DEF Known, PaidInv, CallInHand, At
  <2>4. CASE k = call.key
    <3>1. paid'[k] + (IF Known(k)' THEN 1 ELSE 0) >= paid[k] + 1
      BY <2>2, <2>4 DEF Known, PaidInv
    <3>2. Mails(k)' <= paid[k] + 1
      BY <2>1, <2>2, <2>3, <2>4
    <3>3. paid'[k] \in Nat
      BY <1>5
    <3> QED
      BY <2>1, <2>2, <3>1, <3>2, <3>3
  <2>5. CASE k # call.key
    <3>1. paid'[k] = paid[k] /\ (Known(k) => Known(k)')
      BY <2>5 DEF Known, PaidInv
    <3> QED
      BY <2>1, <2>2, <2>5, <3>1
  <2> QED
    BY <2>4, <2>5
<1> QED
  BY <1>3, <1>4, <1>5, <1>6 DEF PaidInv

(* A call in hand that replies, or moves on, keeps its key and its sender. *)
LEMMA CallMovesOn ==
    ASSUME CallInHand, ~At("idle"), sent' = sent, receipts' = receipts,
           \/ \E answer : Reply(answer)
           \/ call' = [call EXCEPT !.pc = "execute"]
           \/ call.key \notin sent /\ call' = [call EXCEPT !.pc = "sender"]
           \/ call.key \notin sent /\ call.sender = InstanceOf[call.key]
              /\ call' = [call EXCEPT !.pc = "send"]
    PROVE  CallInHand'
<1>1. CASE \E answer : Reply(answer)
  BY <1>1 DEF CallInHand, At, Reply
<1>2. CASE call' = [call EXCEPT !.pc = "execute"]
  BY <1>2 DEF CallInHand, At
<1>3. CASE call.key \notin sent /\ call' = [call EXCEPT !.pc = "sender"]
  BY <1>3 DEF CallInHand, At
<1>4. CASE call.key \notin sent /\ call.sender = InstanceOf[call.key]
           /\ call' = [call EXCEPT !.pc = "send"]
  BY <1>4 DEF CallInHand, At
<1> QED
  BY <1>1, <1>2, <1>3, <1>4

(* A fresh call, and none, is in hand. *)
LEMMA IdleIsInHand == call' = NoCall => CallInHand'
<1>1. (CHOOSE k \in Keys : TRUE) \in Keys
  BY AdapterAssumption
<1> QED
  BY <1>1 DEF NoCall, CallInHand, At

(* The adapters that send no mail. *)
LEMMA OthersSendNothing ==
    ASSUME PaidInv,
           \/ Vault \/ QueueTask \/ DraftEmail \/ DraftCandidate \/ Research \/ DeepResearch
           \/ \E n \in 1 .. Len(tasks) + 1, o \in Marks : MarkOutcome(n, o)
           \/ BeginSend \/ ResolveSender
    PROVE  PaidInv'
<1>1. ~At("idle") /\ CallInHand /\ UNCHANGED <<sent, receipts, mailbox, paid>>
  BY DEF PaidInv, Vault, QueueTask, DraftEmail, DraftCandidate, Research, DeepResearch,
     MarkOutcome, BeginSend, ResolveSender, Executing, At, history
<1>2. \/ \E answer : Reply(answer)
      \/ call' = [call EXCEPT !.pc = "execute"]
      \/ call.key \notin sent /\ call' = [call EXCEPT !.pc = "sender"]
      \/ call.key \notin sent /\ call.sender = InstanceOf[call.key]
         /\ call' = [call EXCEPT !.pc = "send"]
  <2>1. CASE Vault
    BY <2>1 DEF Vault
  <2>2. CASE QueueTask
    BY <2>2 DEF QueueTask
  <2>3. CASE DraftEmail \/ DraftCandidate
    BY <2>3 DEF DraftEmail, DraftCandidate
  <2>4. CASE Research
    BY <2>4 DEF Research
  <2>5. CASE DeepResearch
    BY <2>5 DEF DeepResearch
  <2>6. CASE \E n \in 1 .. Len(tasks) + 1, o \in Marks : MarkOutcome(n, o)
    BY <2>6 DEF MarkOutcome
  <2>7. CASE BeginSend
    BY <2>7 DEF BeginSend
  <2>8. CASE ResolveSender
    BY <2>8, <1>1 DEF ResolveSender, MaySend, CallInHand
  <2> QED
    BY <2>1, <2>2, <2>3, <2>4, <2>5, <2>6, <2>7, <2>8
<1>3. CallInHand'
  BY <1>1, <1>2, CallMovesOn
<1> QED
  BY <1>1, <1>3, NothingLeaves DEF Known, PaidInv

(* Every step keeps the invariant. *)
LEMMA NextPaid == PaidInv /\ [AdapterNext]_adapterVars => PaidInv'
<1> SUFFICES ASSUME PaidInv, [AdapterNext]_adapterVars PROVE PaidInv'
  OBVIOUS
<1>1. CASE UNCHANGED adapterVars
  BY <1>1 DEF adapterVars, history, PaidInv, CallInHand, At, Known, Mails
<1>2. ASSUME NEW k \in Keys, NEW name \in Intents, NEW args \in BOOLEAN,
             NEW c \in Instances \cup {"none"}, Ask(k, name, args, c)
      PROVE  PaidInv'
  <2> DEFINE by == Resolve(name)
             sender == IF InstanceOf[k] \in Bound THEN InstanceOf[k] ELSE c
  <2>1. call' = [NoCall EXCEPT !.pc = "vault", !.key = k, !.args = args, !.by = by,
                   !.sender = sender]
        /\ receipts[k] = NoAnswer /\ UNCHANGED <<sent, receipts, mailbox, paid>>
    BY <1>2 DEF Ask, history
  <2> HIDE DEF by, sender
  <2>2. CallInHand'
    BY <2>1 DEF NoCall, CallInHand, At
  <2> QED
    BY <2>1, <2>2, NothingLeaves DEF Known, PaidInv
<1>3. CASE \/ Vault \/ QueueTask \/ DraftEmail \/ DraftCandidate \/ Research \/ DeepResearch
           \/ \E n \in 1 .. Len(tasks) + 1, o \in Marks : MarkOutcome(n, o)
           \/ BeginSend \/ ResolveSender
  BY <1>3, OthersSendNothing
<1>4. CASE Send
  <2>1. At("send") /\ receipts' = receipts /\ CallInHand
    BY <1>4 DEF Send, PaidInv
  <2>2. \E answer : Reply(answer)
    BY <1>4 DEF Send
  <2>3. call'.pc = "reply" /\ call'.key = call.key /\ CallInHand'
    BY <2>1, <2>2 DEF Reply, CallInHand, At
  <2>4. call.sender \in Instances
    BY <2>1, AdapterAssumption DEF CallInHand
  <2>5. CASE Deliver
    <3>1. \/ sent' = sent \cup {call.key} /\ paid' = paid
          \/ sent' = sent /\ paid' = [paid EXCEPT ![call.key] = @ + 1]
          \/ mailbox' = mailbox
      BY <1>4 DEF Send, history, Forgets
    <3>2. mailbox' # mailbox
      BY <2>5 DEF Deliver, PaidInv
    <3> QED
      BY <2>1, <2>3, <2>4, <2>5, <3>1, <3>2, MailLeaves
  <2>6. CASE UNCHANGED <<mailbox, sent, paid>>
    BY <2>1, <2>3, <2>6, NothingLeaves DEF Known, PaidInv
  <2> QED
    BY <1>4, <2>5, <2>6 DEF Send, history
<1>5. CASE SaveReceipt
  <2>1. CallInHand' /\ UNCHANGED <<sent, mailbox, paid>> /\ At("reply")
        /\ receipts' = [receipts EXCEPT ![call.key] = call.answer]
    BY <1>5, IdleIsInHand DEF SaveReceipt, history
  <2>2. receipts[call.key] = NoAnswer
    BY <2>1 DEF PaidInv, CallInHand, At
  <2>3. DOMAIN receipts' = Keys /\ \A k \in Keys : Known(k) => Known(k)'
    BY <2>1, <2>2 DEF Known, PaidInv
  <2> QED
    BY <2>1, <2>3, NothingLeaves
<1>6. CASE Cancel
  <2>1. CallInHand' /\ UNCHANGED <<sent, receipts>>
    BY <1>6, IdleIsInHand DEF Cancel
  <2>2. CASE At("send") /\ Deliver /\ Forgets(call.key)
    <3>1. call.sender \in Instances
      BY <2>2, AdapterAssumption DEF PaidInv, CallInHand
    <3> QED
      BY <2>1, <2>2, <3>1, MailLeaves DEF Forgets
  <2>3. CASE UNCHANGED <<mailbox, paid>>
    BY <2>1, <2>3, NothingLeaves DEF Known, PaidInv
  <2> QED
    BY <1>6, <2>2, <2>3 DEF Cancel, Hides
<1>7. CASE Restart
  <2>1. /\ sent' = {} /\ UNCHANGED <<mailbox, receipts, call>> /\ At("idle")
        /\ paid' = [k \in Keys |-> IF k \in sent /\ receipts[k] = NoAnswer
                                   THEN paid[k] + 1 ELSE paid[k]]
    BY <1>7 DEF Restart
  <2>2. CallInHand'
    BY <2>1 DEF PaidInv, CallInHand, At
  <2>3. paid' \in [Keys -> Nat]
    BY <2>1 DEF PaidInv
  <2>4. ASSUME NEW k \in Keys PROVE Mails(k)' <= paid'[k] + IF Known(k)' THEN 1 ELSE 0
    <3>1. Mails(k)' = Mails(k)
      BY <2>1 DEF Mails
    <3>2. Mails(k) = Cardinality(MailsIn(mailbox, k))
      BY DEF Mails, MailsIn
    <3>3. Mails(k) \in Nat
      BY <3>2, MailsAreCounted DEF PaidInv
    <3>4. paid[k] \in Nat /\ (Mails(k) <= paid[k] + IF Known(k) THEN 1 ELSE 0)
      BY DEF PaidInv
    <3>5. CASE k \in sent /\ receipts[k] = NoAnswer
      <4>1. paid'[k] = paid[k] + 1 /\ Known(k) /\ ~Known(k)'
        BY <2>1, <3>5 DEF Known
      <4> QED
        BY <3>1, <3>3, <3>4, <4>1
    <3>6. CASE ~(k \in sent /\ receipts[k] = NoAnswer)
      <4>1. paid'[k] = paid[k] /\ (Known(k) => Known(k)')
        BY <2>1, <3>6 DEF Known
      <4> QED
        BY <3>1, <3>3, <3>4, <4>1
    <3> QED
      BY <3>5, <3>6
  <2> QED
    BY <2>1, <2>2, <2>3, <2>4 DEF PaidInv
<1> QED
  BY <1>1, <1>2, <1>3, <1>4, <1>5, <1>6, <1>7 DEF AdapterNext, Perform

(* A mail leaves under its own instance's sender, and a second one under a key
   only for a fault that lost the first one's receipt (SendEmailAdapter.execute
   under Gateway.invoke). *)
THEOREM SecondMailsArePaidFor == AdapterSpec => []MailIsPaidFor
<1>1. PaidInv => MailIsPaidFor
  <2> SUFFICES ASSUME PaidInv, NEW k \in Keys PROVE Mails(k) <= 1 + paid[k]
    BY DEF PaidInv, MailIsPaidFor
  <2>1. Mails(k) = Cardinality(MailsIn(mailbox, k))
    BY DEF Mails, MailsIn
  <2>2. Mails(k) \in Nat /\ paid[k] \in Nat
    BY <2>1, MailsAreCounted DEF PaidInv
  <2>3. Mails(k) <= paid[k] + IF Known(k) THEN 1 ELSE 0
    BY DEF PaidInv
  <2> QED
    BY <2>2, <2>3
<1> QED
  BY <1>1, InitPaid, NextPaid, PTL DEF AdapterSpec

-----------------------------------------------------------------------------
(* Every receipt tells what happened *)

(* The answers the adapters give. *)
LEMMA AnswerTypes ==
    /\ NoAnswer \in Answers /\ NoAnswer.status = "none" /\ NoAnswer.by = "human_task"
    /\ Ok \in Answers /\ Ok.status = "ok"
    /\ Error \in Answers /\ Error.status = "error"
    /\ \A n \in Nat : Queued(n) \in Answers /\ Queued(n).status = "queued_manual" /\ Queued(n).task = n
    /\ \A page \in Pages : LET a == [Ok EXCEPT !.page = page] IN a \in Answers /\ a.status = "ok"
    /\ \A n \in Nat : LET a == [Ok EXCEPT !.task = n]
                      IN  a \in Answers /\ a.status = "ok" /\ a.task = n
<1>1. NoAnswer \in Answers /\ NoAnswer.status = "none" /\ NoAnswer.by = "human_task"
  BY DEF NoAnswer, Answers, Adapted, Pages
<1>2. Ok = [status |-> "ok", by |-> "human_task", task |-> 0, page |-> "none"]
      /\ Error = [status |-> "error", by |-> "human_task", task |-> 0, page |-> "none"]
  BY DEF Ok, Error, NoAnswer
<1>3. ASSUME NEW n \in Nat
      PROVE  Queued(n) = [status |-> "queued_manual", by |-> "human_task", task |-> n, page |-> "none"]
  <2> DEFINE q == [NoAnswer EXCEPT !.status = "queued_manual"]
  <2>1. q = [status |-> "queued_manual", by |-> "human_task", task |-> 0, page |-> "none"]
    BY DEF NoAnswer
  <2>2. Queued(n) = [q EXCEPT !.task = n]
    BY DEF Queued
  <2> QED
    BY <2>1, <2>2
<1>4. \A page \in Pages : [Ok EXCEPT !.page = page] =
         [status |-> "ok", by |-> "human_task", task |-> 0, page |-> page]
  BY <1>2
<1>5. \A n \in Nat : [Ok EXCEPT !.task = n] =
         [status |-> "ok", by |-> "human_task", task |-> n, page |-> "none"]
  BY <1>2
<1>6. Ok \in Answers /\ Ok.status = "ok" /\ Error \in Answers /\ Error.status = "error"
  BY <1>2 DEF Answers, Adapted, Pages
<1>7. \A n \in Nat : Queued(n) \in Answers /\ Queued(n).status = "queued_manual" /\ Queued(n).task = n
  BY <1>3 DEF Answers, Adapted, Pages
<1>8. ASSUME NEW page \in Pages
      PROVE  [Ok EXCEPT !.page = page] \in Answers /\ [Ok EXCEPT !.page = page].status = "ok"
  <2>1. [status |-> "ok", by |-> "human_task", task |-> 0, page |-> page] \in Answers
    BY DEF Answers, Adapted
  <2> QED
    BY <1>4, <2>1
<1>9. \A n \in Nat : LET a == [Ok EXCEPT !.task = n]
                     IN  a \in Answers /\ a.status = "ok" /\ a.task = n
  BY <1>5 DEF Answers, Adapted, Pages
<1> QED
  BY <1>1, <1>6, <1>7, <1>8, <1>9

(* What a reply leaves of the call in hand. *)
LEMMA ReplyTypes ==
    ASSUME call \in Calls, NEW answer \in Answers, Reply(answer)
    PROVE  /\ call' \in Calls /\ call'.pc = "reply" /\ call'.key = call.key /\ call'.by = call.by
           /\ call'.answer.status = answer.status /\ call'.answer.by = call.by
           /\ call'.answer.task = answer.task
<1> DEFINE given == [answer EXCEPT !.by = call.by]
<1>1. given \in Answers /\ given.status = answer.status /\ given.by = call.by /\ given.task = answer.task
  BY DEF Calls, Answers
<1>2. call' = [pc |-> "reply", key |-> call.key, by |-> call.by, args |-> call.args,
               sender |-> call.sender, answer |-> given]
  BY DEF Reply, Calls
<1> HIDE DEF given
<1> QED
  BY <1>1, <1>2 DEF Calls

LEMMA MoveTypes ==
    ASSUME call \in Calls, NEW pc \in {"execute", "sender", "send"}, call' = [call EXCEPT !.pc = pc]
    PROVE  /\ call' \in Calls /\ call'.pc = pc /\ call'.key = call.key /\ call'.by = call.by
           /\ call'.answer = call.answer
BY DEF Calls

LEMMA NoCallType == NoCall \in Calls /\ NoCall.pc = "idle"
<1>1. (CHOOSE k \in Keys : TRUE) \in Keys
  BY AdapterAssumption
<1> QED
  BY <1>1, AnswerTypes DEF NoCall, Calls, Adapted

LEMMA ResolveTypes == \A name \in Intents : Resolve(name) \in {name, "human_task"} /\ Resolve(name) \in Adapted
BY DEF Resolve, Adapted

LEMMA PageTypes ==
    /\ Found \subseteq Pages
    /\ \A p : PageOf(p) \subseteq Pages
    /\ Excerpt \subseteq Pages
BY DEF Found, PageOf, Excerpt, Pages

LEMMA InitAdapterTypes == AdapterInit => AdapterTypes
<1> SUFFICES ASSUME AdapterInit PROVE AdapterTypes
  OBVIOUS
<1>1. call \in Calls
  BY NoCallType DEF AdapterInit
<1>2. receipts \in [Keys -> Answers]
  BY AnswerTypes DEF AdapterInit
<1> QED
  BY <1>1, <1>2, AdapterAssumption DEF AdapterInit, AdapterTypes

(* The adapters that queue and mail nothing answer, or go on to do so. *)
LEMMA QuietSteps ==
    ASSUME AdapterTypes,
           Vault \/ DraftEmail \/ DraftCandidate \/ Research \/ DeepResearch \/ BeginSend \/ ResolveSender
    PROVE  /\ UNCHANGED <<build, tasks, sent, mailbox, receipts, intent, paid, hidden, mishaps>>
           /\ drafts' \subseteq Keys /\ call.pc \in {"vault", "execute", "sender"}
           /\ \/ \E answer \in Answers :
                    /\ Reply(answer) /\ answer.status \in {"ok", "error"}
                    /\ answer.status = "ok" /\ call.by = "send_email" => call.key \in sent
                    /\ answer.status = "ok" => call.by # "mark_outcome"
              \/ \E pc \in {"execute", "sender", "send"} :
                    /\ call' = [call EXCEPT !.pc = pc]
                    /\ pc \in {"sender", "send"} => call.by = "send_email" \/ At("sender")
<1> USE DEF history
<1>1. CASE Vault
  BY <1>1, AnswerTypes DEF Vault, At, AdapterTypes
<1>2. CASE DraftEmail
  BY <1>2, AnswerTypes DEF DraftEmail, Executing, At, AdapterTypes
<1>3. CASE DraftCandidate
  BY <1>3, AnswerTypes DEF DraftCandidate, Executing, At, AdapterTypes, Calls
<1>4. CASE Research
  <2>1. /\ UNCHANGED <<build, tasks, sent, drafts, mailbox, receipts, intent, paid, hidden, mishaps>>
        /\ call.pc = "execute" /\ call.by \in {"lead_research_batch", "read_url"}
    BY <1>4 DEF Research, Executing, At
  <2>2. \/ Reply(Error)
        \/ \E page \in Pages : Reply([Ok EXCEPT !.page = page])
    BY <1>4, PageTypes DEF Research
  <2>3. CASE Reply(Error)
    BY <2>1, <2>3, AnswerTypes DEF AdapterTypes
  <2>4. CASE \E page \in Pages : Reply([Ok EXCEPT !.page = page])
    BY <2>1, <2>4, AnswerTypes DEF AdapterTypes
  <2> QED
    BY <2>2, <2>3, <2>4
<1>5. CASE DeepResearch
  <2>1. /\ UNCHANGED <<build, tasks, sent, drafts, mailbox, receipts, intent, paid, hidden, mishaps>>
        /\ call.pc = "execute" /\ call.by = "deep_research"
    BY <1>5 DEF DeepResearch, Executing, At
  <2>2. \/ Reply(Error)
        \/ \E page \in Pages : Reply([Ok EXCEPT !.page = page])
    BY <1>5, PageTypes DEF DeepResearch
  <2>3. CASE Reply(Error)
    BY <2>1, <2>3, AnswerTypes DEF AdapterTypes
  <2>4. CASE \E page \in Pages : Reply([Ok EXCEPT !.page = page])
    BY <2>1, <2>4, AnswerTypes DEF AdapterTypes
  <2> QED
    BY <2>2, <2>3, <2>4
<1>6. CASE BeginSend
  BY <1>6, AnswerTypes DEF BeginSend, Executing, At, AdapterTypes
<1>7. CASE ResolveSender
  BY <1>7, AnswerTypes DEF ResolveSender, At, AdapterTypes
<1> QED
  BY <1>1, <1>2, <1>3, <1>4, <1>5, <1>6, <1>7

(* What the two adapters that keep tasks do. *)
LEMMA TaskSteps ==
    ASSUME AdapterTypes,
           QueueTask \/ \E n \in 1 .. Len(tasks) + 1, o \in Marks : MarkOutcome(n, o)
    PROVE  /\ UNCHANGED <<build, sent, drafts, mailbox, receipts, intent, paid, hidden, mishaps>>
           /\ call.pc = "execute"
           /\ \/ Reply(Error) /\ UNCHANGED tasks
              \/ /\ call.by \in Queueing /\ UNCHANGED tasks
                 /\ \E n \in TasksOf(call.key) : Reply(Queued(n))
              \/ /\ call.by \in Queueing /\ ~StoreRaises /\ TasksOf(call.key) = {}
                 /\ tasks' = Append(tasks, [key |-> call.key, outcome |-> "none"])
                 /\ Reply(Queued(Len(tasks) + 1))
              \/ /\ call.by = "mark_outcome"
                 /\ \E n \in DOMAIN tasks, o \in Marks :
                       /\ tasks' = [tasks EXCEPT ![n].outcome = o]
                       /\ Reply([Ok EXCEPT !.task = n])
<1> USE DEF history, Executing, At
<1>1. CASE QueueTask
  BY <1>1 DEF QueueTask, Queueing
<1>2. ASSUME NEW n \in 1 .. Len(tasks) + 1, NEW o \in Marks, MarkOutcome(n, o)
      PROVE  /\ UNCHANGED <<build, sent, drafts, mailbox, receipts, intent, paid, hidden, mishaps>>
             /\ call.pc = "execute" /\ call.by = "mark_outcome"
             /\ \/ Reply(Error) /\ UNCHANGED tasks
                \/ /\ n \in DOMAIN tasks
                   /\ tasks' = [tasks EXCEPT ![n].outcome = o]
                   /\ Reply([Ok EXCEPT !.task = n])
  BY <1>2 DEF MarkOutcome
<1> QED
  BY <1>1, <1>2

(* A mail that leaves counts for its own key. *)
LEMMA Delivered ==
    ASSUME AdapterTypes, Deliver, call.sender \in Instances
    PROVE  /\ mailbox' \in Seq([key : Keys, from : Instances])
           /\ \A k \in Keys : /\ Mails(k) \in Nat
                              /\ Mails(k)' = Mails(k) + IF call.key = k THEN 1 ELSE 0
<1> DEFINE mail == [key |-> call.key, from |-> call.sender]
<1>1. mail \in [key : Keys, from : Instances] /\ mailbox' = Append(mailbox, mail)
      /\ mail.key = call.key
  BY DEF AdapterTypes, Calls, Deliver
<1> HIDE DEF mail
<1>2. PICK T : T = [key : Keys, from : Instances]
  OBVIOUS
<1>3. mailbox \in Seq(T) /\ mail \in T
  BY <1>1, <1>2 DEF AdapterTypes
<1>4. ASSUME NEW k \in Keys
      PROVE  Mails(k) \in Nat /\ Mails(k)' = Mails(k) + IF call.key = k THEN 1 ELSE 0
  <2>1. Mails(k)' = Cardinality(MailsIn(Append(mailbox, mail), k))
    BY <1>1 DEF Mails, MailsIn
  <2>2. Mails(k) = Cardinality(MailsIn(mailbox, k))
    BY DEF Mails, MailsIn
  <2>3. Cardinality(MailsIn(Append(mailbox, mail), k)) =
           Cardinality(MailsIn(mailbox, k)) + IF mail.key = k THEN 1 ELSE 0
    BY <1>3, DeliveryCounts
  <2>4. Cardinality(MailsIn(mailbox, k)) \in Nat
    BY <1>3, MailsAreCounted
  <2> QED
    BY <1>1, <2>1, <2>2, <2>3, <2>4
<1>5. mailbox' \in Seq(T)
  BY <1>1, <1>3
<1> QED
  BY <1>2, <1>4, <1>5

LEMMA MailCount ==
    ASSUME AdapterTypes PROVE \A k : Mails(k) \in Nat
<1> SUFFICES ASSUME NEW k PROVE Mails(k) \in Nat
  OBVIOUS
<1>1. Mails(k) = Cardinality(MailsIn(mailbox, k))
  BY DEF Mails, MailsIn
<1> QED
  BY <1>1, MailsAreCounted DEF AdapterTypes

LEMMA AskTypes ==
    ASSUME NEW k \in Keys, NEW name \in Intents, NEW args \in BOOLEAN,
           NEW c \in Instances \cup {"none"}, Ask(k, name, args, c)
    PROVE  /\ call' \in Calls /\ call'.pc = "vault" /\ call'.key = k /\ call'.by = Resolve(name)
           /\ call'.answer = NoAnswer
<1> DEFINE by == Resolve(name)
           sender == IF InstanceOf[k] \in Bound THEN InstanceOf[k] ELSE c
<1>1. call' = [NoCall EXCEPT !.pc = "vault", !.key = k, !.args = args, !.by = by, !.sender = sender]
  BY DEF Ask
<1>2. by \in Adapted /\ sender \in Instances \cup {"none"}
  BY ResolveTypes, AdapterAssumption
<1> HIDE DEF by, sender
<1>3. call' = [pc |-> "vault", key |-> k, by |-> by, args |-> args, sender |-> sender,
               answer |-> NoAnswer]
  BY <1>1 DEF NoCall
<1> QED
  BY <1>2, <1>3, AnswerTypes DEF Calls, by

LEMMA AdapterTypeStep == AdapterTypes /\ CallInHand /\ [AdapterNext]_adapterVars => AdapterTypes'
<1> SUFFICES ASSUME AdapterTypes, CallInHand, [AdapterNext]_adapterVars PROVE AdapterTypes'
  OBVIOUS
<1> USE DEF history
<1>0. mishaps \in Nat /\ mishaps <= MaxMishaps
  BY AdapterAssumption DEF AdapterTypes
<1>1. ASSUME NEW k \in Keys, NEW name \in Intents, NEW args \in BOOLEAN,
             NEW c \in Instances \cup {"none"}, Ask(k, name, args, c)
      PROVE  AdapterTypes'
  <2>1. call' \in Calls
    BY <1>1, AskTypes
  <2> QED
    BY <1>1, <2>1 DEF Ask, AdapterTypes
<1>2. CASE Vault \/ DraftEmail \/ DraftCandidate \/ Research \/ DeepResearch \/ BeginSend \/ ResolveSender
  <2>1. call' \in Calls
    BY <1>2, QuietSteps, ReplyTypes, MoveTypes DEF AdapterTypes
  <2> QED
    BY <1>2, <2>1, QuietSteps DEF AdapterTypes
<1>3. CASE QueueTask \/ \E n \in 1 .. Len(tasks) + 1, o \in Marks : MarkOutcome(n, o)
  <2>1. tasks \in Seq([key : Keys, outcome : Marks \cup {"none"}]) /\ Len(tasks) + 1 \in Nat
    BY DEF AdapterTypes
  <2>2. call' \in Calls
    <3>1. \A n \in DOMAIN tasks : n \in Nat
      BY <2>1
    <3>2. \E answer \in Answers : Reply(answer)
      BY <1>3, <2>1, <3>1, TaskSteps, AnswerTypes DEF TasksOf
    <3> QED
      BY <3>2, ReplyTypes DEF AdapterTypes
  <2>3. tasks' \in Seq([key : Keys, outcome : Marks \cup {"none"}])
    <3>1. CASE UNCHANGED tasks
      BY <2>1, <3>1
    <3>2. CASE tasks' = Append(tasks, [key |-> call.key, outcome |-> "none"])
      BY <2>1, <3>2 DEF AdapterTypes, Calls
    <3>3. ASSUME NEW n \in DOMAIN tasks, NEW o \in Marks, tasks' = [tasks EXCEPT ![n].outcome = o]
          PROVE  tasks' \in Seq([key : Keys, outcome : Marks \cup {"none"}])
      <4> DEFINE T == [key : Keys, outcome : Marks \cup {"none"}]
                 marked == [tasks[n] EXCEPT !.outcome = o]
      <4>0. tasks \in Seq(T)
        BY <2>1
      <4> HIDE DEF T
      <4>1. tasks[n] \in T
        BY <4>0
      <4>2. marked \in T /\ tasks' = [tasks EXCEPT ![n] = marked]
        BY <3>3, <4>1 DEF T
      <4> HIDE DEF marked
      <4>4. tasks' \in Seq(T)
        BY <4>0, <4>2
      <4> QED
        BY <4>4 DEF T
    <3> QED
      BY <1>3, <3>1, <3>2, <3>3, TaskSteps
  <2> QED
    BY <1>3, <2>2, <2>3, TaskSteps DEF AdapterTypes
<1>4. CASE Send
  <2>1. /\ UNCHANGED <<build, tasks, drafts, receipts, intent>>
        /\ call.sender \in Instances /\ call.key \in Keys
    BY <1>4, AdapterAssumption DEF Send, CallInHand
  <2>2. call' \in Calls
    BY <1>4, AnswerTypes, ReplyTypes DEF Send, AdapterTypes
  <2>3. mailbox' \in Seq([key : Keys, from : Instances])
    BY <1>4, <2>1, Delivered DEF Send, AdapterTypes
  <2>4. sent' \subseteq Keys /\ hidden' \subseteq Keys
    BY <1>4, <2>1 DEF Send, Forgets, AdapterTypes
  <2>5. paid' \in [Keys -> 0 .. mishaps'] /\ mishaps' \in 0 .. MaxMishaps
    BY <1>0, <1>4, <2>1, AdapterAssumption DEF Send, Forgets, AdapterTypes
  <2> QED
    BY <2>1, <2>2, <2>3, <2>4, <2>5 DEF AdapterTypes
<1>5. CASE SaveReceipt
  <2>1. call' \in Calls /\ call.answer \in Answers /\ call.key \in Keys
    BY <1>5, NoCallType DEF SaveReceipt, AdapterTypes, Calls
  <2> QED
    BY <1>5, <2>1 DEF SaveReceipt, AdapterTypes
<1>6. CASE Cancel
  <2>1. /\ UNCHANGED <<build, tasks, sent, drafts, receipts, intent>>
        /\ call' \in Calls /\ call.key \in Keys
        /\ mishaps' = mishaps + 1 /\ mishaps' \in 0 .. MaxMishaps
    BY <1>0, <1>6, NoCallType, AdapterAssumption DEF Cancel, CallInHand
  <2>2. mailbox' \in Seq([key : Keys, from : Instances])
    BY <1>6, Delivered, AdapterAssumption DEF Cancel, CallInHand, AdapterTypes
  <2>3. hidden' \subseteq Keys
    BY <1>6, <2>1 DEF Cancel, Forgets, Hides, AdapterTypes
  <2>4. paid' \in [Keys -> 0 .. mishaps']
    <3>1. paid \in [Keys -> 0 .. mishaps]
      BY DEF AdapterTypes
    <3>2. paid' = paid \/ paid' = [paid EXCEPT ![call.key] = @ + 1]
      BY <1>6 DEF Cancel, Forgets, Hides
    <3> QED
      BY <1>0, <2>1, <3>1, <3>2
  <2> QED
    BY <2>1, <2>2, <2>3, <2>4 DEF AdapterTypes
<1>7. CASE Restart
  <2>1. paid' \in [Keys -> 0 .. mishaps'] /\ mishaps' \in 0 .. MaxMishaps
    BY <1>0, <1>7, AdapterAssumption DEF Restart, AdapterTypes
  <2>2. build' \in Builds
    BY <1>7 DEF Restart
  <2> QED
    BY <1>7, <2>1, <2>2 DEF Restart, AdapterTypes
<1>8. CASE UNCHANGED adapterVars
  BY <1>8 DEF adapterVars, AdapterTypes
<1> QED
  BY <1>1, <1>2, <1>3, <1>4, <1>5, <1>6, <1>7, <1>8 DEF AdapterNext, Perform

(* A task that is queued counts for its own key, and an outcome leaves it there. *)
LEMMA TasksMove ==
    ASSUME AdapterTypes
    PROVE  /\ UNCHANGED tasks => \A k : TasksOf(k)' = TasksOf(k)
           /\ tasks' = Append(tasks, [key |-> call.key, outcome |-> "none"]) =>
                 /\ \A k : TasksOf(k)' = IF k = call.key THEN TasksOf(k) \cup {Len(tasks) + 1}
                                         ELSE TasksOf(k)
                 /\ \A n \in DOMAIN tasks : n \in DOMAIN tasks' /\ tasks'[n] = tasks[n]
                 /\ tasks' # <<>>
           /\ \A n \in DOMAIN tasks, o \in Marks : tasks' = [tasks EXCEPT ![n].outcome = o] =>
                 /\ \A k : TasksOf(k)' = TasksOf(k)
                 /\ DOMAIN tasks' = DOMAIN tasks
                 /\ \A m \in DOMAIN tasks : tasks[m].outcome # "none" \/ m = n => tasks'[m].outcome # "none"
                 /\ tasks # <<>>
<1> DEFINE T == [key : Keys, outcome : Marks \cup {"none"}]
<1>1. tasks \in Seq(T)
  BY DEF AdapterTypes
<1>2. ASSUME UNCHANGED tasks PROVE \A k : TasksOf(k)' = TasksOf(k)
  BY <1>2 DEF TasksOf
<1>3. ASSUME tasks' = Append(tasks, [key |-> call.key, outcome |-> "none"])
      PROVE  /\ \A k : TasksOf(k)' = IF k = call.key THEN TasksOf(k) \cup {Len(tasks) + 1}
                                      ELSE TasksOf(k)
             /\ \A n \in DOMAIN tasks : n \in DOMAIN tasks' /\ tasks'[n] = tasks[n]
             /\ tasks' # <<>>
  <2> DEFINE task == [key |-> call.key, outcome |-> "none"]
  <2>1. task \in T /\ task.key = call.key /\ tasks' = Append(tasks, task)
    BY <1>3 DEF AdapterTypes, Calls
  <2> HIDE DEF T, task
  <2>2. /\ DOMAIN tasks' = DOMAIN tasks \cup {Len(tasks) + 1} /\ tasks'[Len(tasks) + 1] = task
        /\ \A n \in DOMAIN tasks : tasks'[n] = tasks[n]
    BY <1>1, <2>1
  <2>3. tasks' # <<>>
    BY <1>1, <2>1
  <2> QED
    BY <2>1, <2>2, <2>3 DEF TasksOf
<1>4. ASSUME NEW n \in DOMAIN tasks, NEW o \in Marks, tasks' = [tasks EXCEPT ![n].outcome = o]
      PROVE  /\ \A k : TasksOf(k)' = TasksOf(k)
             /\ DOMAIN tasks' = DOMAIN tasks
             /\ \A m \in DOMAIN tasks : tasks[m].outcome # "none" \/ m = n => tasks'[m].outcome # "none"
             /\ tasks # <<>>
  <2>1. \A m \in DOMAIN tasks : tasks[m] \in T
    <3> HIDE DEF T
    <3> QED
      BY <1>1
  <2>2. /\ DOMAIN tasks' = DOMAIN tasks
        /\ \A m \in DOMAIN tasks : /\ tasks'[m].key = tasks[m].key
                                   /\ tasks'[m].outcome = IF m = n THEN o ELSE tasks[m].outcome
    BY <1>4, <2>1
  <2>3. tasks # <<>>
    OBVIOUS
  <2> QED
    BY <2>2, <2>3, AdapterAssumption DEF TasksOf
<1> QED
  BY <1>2, <1>3, <1>4

LEMMA OneServesStep ==
    AdapterTypes /\ CallInHand /\ OneServesTheKey /\ [AdapterNext]_adapterVars => OneServesTheKey'
<1> SUFFICES ASSUME AdapterTypes, CallInHand, OneServesTheKey, [AdapterNext]_adapterVars
             PROVE  OneServesTheKey'
  OBVIOUS
<1> USE DEF history, At
<1>1. UNCHANGED build => \A name : Resolve(name)' = Resolve(name)
  BY DEF Resolve, CanHandle
<1>2. \A k : /\ UNCHANGED mailbox => Mails(k)' = Mails(k)
             /\ UNCHANGED tasks => TasksOf(k)' = TasksOf(k)
             /\ Mails(k) \in Nat
  BY MailCount DEF Mails, TasksOf
<1>3. call \in Calls /\ call.key \in Keys /\ intent \in [Keys -> Intents \cup {"none"}]
  BY DEF AdapterTypes, CallInHand
<1>4. ASSUME NEW k \in Keys, NEW name \in Intents, NEW args \in BOOLEAN,
             NEW c \in Instances \cup {"none"}, Ask(k, name, args, c)
      PROVE  OneServesTheKey'
  <2>1. call'.pc = "vault" /\ call'.key = k /\ call'.by = Resolve(name)
    BY <1>4, AskTypes
  <2>2. /\ UNCHANGED <<build, tasks, mailbox>> /\ intent' = [intent EXCEPT ![k] = name]
        /\ intent[k] \in {"none", name} /\ name # "none"
    BY <1>4 DEF Ask, Intents
  <2> QED
    BY <1>1, <1>2, <1>3, <2>1, <2>2 DEF OneServesTheKey
<1>5. CASE Vault \/ DraftEmail \/ DraftCandidate \/ Research \/ DeepResearch \/ BeginSend \/ ResolveSender
  <2>1. /\ UNCHANGED <<build, tasks, mailbox, intent>> /\ call.pc # "idle"
        /\ call'.key = call.key /\ call'.by = call.by
        /\ call'.pc \in {"sender", "send"} => call.by = "send_email"
    BY <1>3, <1>5, QuietSteps, ReplyTypes, MoveTypes DEF OneServesTheKey
  <2> QED
    BY <1>1, <1>2, <2>1 DEF OneServesTheKey
<1>6. CASE QueueTask \/ \E n \in 1 .. Len(tasks) + 1, o \in Marks : MarkOutcome(n, o)
  <2>1. UNCHANGED <<build, mailbox, intent>> /\ call.pc = "execute"
    BY <1>6, TaskSteps
  <2>2. call'.key = call.key /\ call'.by = call.by /\ call'.pc = "reply"
    <3>1. \A n \in DOMAIN tasks : n \in Nat
      BY DEF AdapterTypes
    <3>2. Len(tasks) + 1 \in Nat
      BY DEF AdapterTypes
    <3>3. \E answer \in Answers : Reply(answer)
      BY <1>6, <3>1, <3>2, TaskSteps, AnswerTypes DEF TasksOf
    <3> QED
      BY <1>3, <3>3, ReplyTypes
  <2>3. CASE UNCHANGED tasks
    BY <1>1, <1>2, <2>1, <2>2, <2>3 DEF OneServesTheKey
  <2>4. CASE /\ call.by \in Queueing /\ ~StoreRaises
             /\ tasks' = Append(tasks, [key |-> call.key, outcome |-> "none"])
    <3>1. build.backend = "memory"
      BY <2>4 DEF StoreRaises, AdapterTypes, Builds
    <3>2. \A k \in Keys : /\ Mails(k)' = Mails(k)
                          /\ TasksOf(k)' # {} => TasksOf(k) # {} \/ k = call.key
      BY <1>2, <2>1, <2>4, TasksMove
    <3>3. intent[call.key] # "none" /\ Resolve(intent[call.key]) \in Queueing
      BY <2>1, <2>4 DEF OneServesTheKey
    <3> QED
      BY <1>1, <2>1, <2>2, <3>1, <3>2, <3>3 DEF OneServesTheKey
  <2>5. CASE \E n \in DOMAIN tasks, o \in Marks : tasks' = [tasks EXCEPT ![n].outcome = o]
    <3>1. \A k \in Keys : Mails(k)' = Mails(k) /\ TasksOf(k)' = TasksOf(k)
      BY <1>2, <2>1, <2>5, TasksMove
    <3>2. tasks # <<>>
      BY <2>5, TasksMove
    <3> QED
      BY <1>1, <2>1, <2>2, <3>1, <3>2 DEF OneServesTheKey
  <2> QED
    BY <1>6, <2>3, <2>4, <2>5, TaskSteps
<1>7. CASE Send
  <2>1. /\ UNCHANGED <<build, tasks, intent>> /\ call.pc = "send"
        /\ call'.key = call.key /\ call'.by = call.by /\ call'.pc = "reply"
    BY <1>3, <1>7, AnswerTypes, ReplyTypes DEF Send
  <2>2. intent[call.key] = "send_email" /\ Resolve("send_email") = "send_email"
    BY <1>3, <2>1, ResolveTypes DEF OneServesTheKey
  <2>3. CASE UNCHANGED mailbox
    BY <1>1, <1>2, <2>1, <2>3 DEF OneServesTheKey
  <2>4. CASE Deliver
    <3>1. call.sender \in Instances
      BY <2>1, AdapterAssumption DEF CallInHand
    <3>2. \A k \in Keys : Mails(k)' > 0 => Mails(k) > 0 \/ k = call.key
      BY <2>4, <3>1, Delivered
    <3> QED
      BY <1>1, <1>2, <2>1, <2>2, <3>2 DEF OneServesTheKey
  <2> QED
    BY <1>7, <2>3, <2>4 DEF Send
<1>8. CASE SaveReceipt
  BY <1>1, <1>2, <1>8, NoCallType DEF SaveReceipt, OneServesTheKey
<1>9. CASE Cancel
  <2>1. UNCHANGED <<build, tasks, intent>> /\ call'.pc = "idle"
    BY <1>9, NoCallType DEF Cancel
  <2>2. CASE UNCHANGED mailbox
    <3>1. \A k \in Keys : Mails(k)' = Mails(k) /\ TasksOf(k)' = TasksOf(k)
      BY <1>2, <2>1, <2>2
    <3> QED
      BY <1>1, <2>1, <3>1 DEF OneServesTheKey
  <2>3. CASE At("send") /\ Deliver
    <3>1. call.sender \in Instances
      BY <2>3, AdapterAssumption DEF CallInHand
    <3>2. \A k \in Keys : Mails(k)' > 0 => Mails(k) > 0 \/ k = call.key
      BY <2>3, <3>1, Delivered
    <3>3. intent[call.key] = "send_email" /\ Resolve("send_email") = "send_email"
      BY <1>3, <2>3, ResolveTypes DEF OneServesTheKey
    <3> QED
      BY <1>1, <1>2, <2>1, <3>2, <3>3 DEF OneServesTheKey
  <2> QED
    BY <1>9, <2>2, <2>3 DEF Cancel
<1>10. CASE Restart
  <2>1. /\ build.backend = "mongo" /\ build'.backend = "mongo" /\ call.pc = "idle"
        /\ UNCHANGED <<tasks, mailbox, intent, call>>
    BY <1>10 DEF Restart
  <2>2. tasks = <<>>
    BY <2>1 DEF OneServesTheKey
  <2>3. \A k \in Keys : TasksOf(k)' = {}
    BY <2>1, <2>2 DEF TasksOf
  <2> QED
    BY <1>2, <2>1, <2>2, <2>3 DEF OneServesTheKey
<1>11. CASE UNCHANGED adapterVars
  BY <1>1, <1>2, <1>11 DEF adapterVars, OneServesTheKey
<1> QED
  BY <1>4, <1>5, <1>6, <1>7, <1>8, <1>9, <1>10, <1>11 DEF AdapterNext, Perform

(* What an answer tells stays told while no mail leaves and no task changes. *)
LEMMA TellsSame ==
    ASSUME NEW k, NEW answer, UNCHANGED <<tasks, mailbox>>, hidden \subseteq hidden', Tells(k, answer)
    PROVE  Tells(k, answer)'
BY DEF Tells, TasksOf, Mails

LEMMA TellsInHand ==
    ASSUME NEW c, c = call', Tells(c.key, c.answer)' PROVE Tells(call.key, call.answer)'
BY DEF Tells, TasksOf, Mails

(* Nothing is told by what is not an answer. *)
LEMMA NothingTold == \A k : Tells(k, NoAnswer) /\ Tells(k, NoAnswer)'
BY AnswerTypes DEF Tells

(* A fault that delivers nothing, and an answer that only says ok or error. *)
LEMMA AnswerInHand ==
    ASSUME AdapterTypes, CallInHand, AnswersTell, call.pc # "reply", call.pc # "idle",
           UNCHANGED <<tasks, mailbox, receipts, hidden, sent>>,
           NEW answer \in Answers, Reply(answer), answer.status \in {"ok", "error"},
           answer.status = "ok" /\ call.by = "send_email" => call.key \in sent,
           answer.status = "ok" => call.by # "mark_outcome"
    PROVE  AnswersTell'
<1> USE DEF At
<1>1. PICK c : c = call'
  OBVIOUS
<1>2. /\ c.pc = "reply" /\ c.key = call.key /\ call.key \in Keys /\ c.answer.by = call.by
      /\ c.answer.status = answer.status /\ receipts[call.key] = NoAnswer
  BY <1>1, ReplyTypes DEF AdapterTypes, CallInHand
<1>3. \A k : Mails(k)' = Mails(k) /\ TasksOf(k)' = TasksOf(k) /\ Mails(k) \in Nat
  BY MailCount DEF Mails, TasksOf
<1>4. Mails(call.key) = 0 \/ call.key \in hidden
  BY <1>2, <1>3 DEF AnswersTell
<1>5. answer.status = "ok" /\ call.by = "send_email" => Mails(call.key) > 0
  BY DEF AnswersTell
<1>6. Tells(c.key, c.answer)'
  BY <1>2, <1>3, <1>4, <1>5 DEF Tells
<1>7. \A k \in Keys : Tells(k, receipts[k])'
  BY TellsSame DEF AnswersTell
<1> QED
  BY <1>1, <1>2, <1>3, <1>6, <1>7, TellsInHand DEF AnswersTell

(* No reply is left in hand, and what is mailed without a receipt is hidden. *)
LEMMA NoAnswerInHand ==
    ASSUME AdapterTypes, AnswersTell, call'.pc # "reply", sent' \subseteq sent,
           UNCHANGED <<tasks, mailbox, receipts>>, hidden \subseteq hidden',
           At("reply") => call.key \in hidden' \/ Mails(call.key) = 0
    PROVE  AnswersTell'
<1> USE DEF At
<1>1. \A k : Mails(k)' = Mails(k) /\ TasksOf(k)' = TasksOf(k) /\ Mails(k) \in Nat
  BY MailCount DEF Mails, TasksOf
<1>2. \A k \in Keys : Tells(k, receipts[k])'
  BY TellsSame DEF AnswersTell
<1> QED
  BY <1>1, <1>2 DEF AnswersTell

(* A task is queued, found or marked. *)
LEMMA TaskTells ==
    ASSUME AdapterTypes, CallInHand, AnswersTell,
           QueueTask \/ \E n \in 1 .. Len(tasks) + 1, o \in Marks : MarkOutcome(n, o)
    PROVE  AnswersTell'
<1> USE DEF At
<1>1. PICK c : c = call'
  OBVIOUS
<1>2. /\ UNCHANGED <<build, sent, drafts, mailbox, receipts, intent, paid, hidden, mishaps>>
      /\ call.pc = "execute" /\ call \in Calls /\ call.key \in Keys /\ receipts[call.key] = NoAnswer
  BY TaskSteps DEF CallInHand, AdapterTypes
<1>3. \A k : Mails(k)' = Mails(k) /\ Mails(k) \in Nat
  BY <1>2, MailCount DEF Mails
<1>4. \A n \in DOMAIN tasks : n \in Nat
  BY DEF AdapterTypes
<1>5. Len(tasks) + 1 \in Nat /\ Len(tasks) + 1 \notin DOMAIN tasks
  BY DEF AdapterTypes
<1>6. CASE Reply(Error) /\ UNCHANGED tasks
  BY <1>2, <1>6, AnswerTypes, AnswerInHand
<1>7. CASE /\ call.by \in Queueing /\ UNCHANGED tasks
           /\ \E n \in TasksOf(call.key) : Reply(Queued(n))
  <2>1. PICK n \in TasksOf(call.key) : Reply(Queued(n))
    BY <1>7
  <2>2. n \in Nat /\ TasksOf(call.key) = {n}
    BY <1>2, <1>4 DEF TasksOf, AnswersTell
  <2>3. c.pc = "reply" /\ c.key = call.key /\ c.answer.by = call.by
        /\ c.answer.status = "queued_manual" /\ c.answer.task = n
    BY <1>1, <1>2, <2>1, <2>2, AnswerTypes, ReplyTypes
  <2>4. \A k : TasksOf(k)' = TasksOf(k)
    BY <1>7 DEF TasksOf
  <2>5. Tells(c.key, c.answer)'
    BY <2>2, <2>3, <2>4 DEF Tells
  <2>6. \A k \in Keys : Tells(k, receipts[k])'
    BY <1>2, <1>7, TellsSame DEF AnswersTell
  <2> QED
    BY <1>1, <1>2, <1>3, <2>3, <2>4, <2>5, <2>6, TellsInHand DEF AnswersTell
<1>8. CASE /\ call.by \in Queueing /\ TasksOf(call.key) = {}
           /\ tasks' = Append(tasks, [key |-> call.key, outcome |-> "none"])
           /\ Reply(Queued(Len(tasks) + 1))
  <2> DEFINE n == Len(tasks) + 1
  <2>1. c.pc = "reply" /\ c.key = call.key /\ c.answer.by = call.by
        /\ c.answer.status = "queued_manual" /\ c.answer.task = n
    BY <1>1, <1>2, <1>5, <1>8, AnswerTypes, ReplyTypes
  <2> HIDE DEF n
  <2>2. /\ \A k : TasksOf(k)' = IF k = call.key THEN {n} ELSE TasksOf(k)
        /\ \A m \in DOMAIN tasks : m \in DOMAIN tasks' /\ tasks'[m] = tasks[m]
    BY <1>8, TasksMove DEF n
  <2>3. Tells(c.key, c.answer)'
    BY <2>1, <2>2 DEF Tells
  <2>4. ASSUME NEW k \in Keys PROVE Tells(k, receipts[k])'
    <3>1. CASE k = call.key
      BY <1>2, <3>1, NothingTold
    <3>2. CASE k # call.key
      <4>1. PICK a : a = receipts[k]
        OBVIOUS
      <4>2. Tells(k, a)
        BY <4>1 DEF AnswersTell
      <4>3. Tells(k, a)'
        BY <1>2, <1>3, <2>2, <3>2, <4>2 DEF Tells
      <4> QED
        BY <1>2, <4>1, <4>3
    <3> QED
      BY <3>1, <3>2
  <2>5. \A k \in Keys : \A m1, m2 \in TasksOf(k)' : m1 = m2
    BY <2>2 DEF AnswersTell
  <2> QED
    BY <1>1, <1>2, <1>3, <2>1, <2>3, <2>4, <2>5, TellsInHand DEF AnswersTell
<1>9. ASSUME call.by = "mark_outcome", NEW n \in DOMAIN tasks, NEW o \in Marks,
             tasks' = [tasks EXCEPT ![n].outcome = o], Reply([Ok EXCEPT !.task = n])
      PROVE  AnswersTell'
  <2>1. c.pc = "reply" /\ c.key = call.key /\ c.answer.by = "mark_outcome"
        /\ c.answer.status = "ok" /\ c.answer.task = n
    <3> DEFINE a == [Ok EXCEPT !.task = n]
    <3>1. a \in Answers /\ a.status = "ok" /\ a.task = n /\ Reply(a)
      BY <1>4, <1>9, AnswerTypes
    <3> HIDE DEF a
    <3> QED
      BY <1>1, <1>2, <1>9, <3>1, ReplyTypes
  <2>2. /\ \A k : TasksOf(k)' = TasksOf(k)
        /\ DOMAIN tasks' = DOMAIN tasks
        /\ \A m \in DOMAIN tasks : tasks[m].outcome # "none" \/ m = n => tasks'[m].outcome # "none"
    BY <1>9, TasksMove
  <2>3. Tells(c.key, c.answer)'
    BY <2>1, <2>2 DEF Tells
  <2>4. ASSUME NEW k \in Keys PROVE Tells(k, receipts[k])'
    <3>1. PICK a : a = receipts[k]
      OBVIOUS
    <3>2. Tells(k, a)
      BY <3>1 DEF AnswersTell
    <3>3. Tells(k, a)'
      BY <1>2, <1>3, <2>2, <3>2 DEF Tells
    <3> QED
      BY <1>2, <3>1, <3>3
  <2> QED
    BY <1>1, <1>2, <1>3, <2>1, <2>2, <2>3, <2>4, TellsInHand DEF AnswersTell
<1> QED
  BY <1>6, <1>7, <1>8, <1>9, TaskSteps

(* The mail leaves, or not, and the transport's word is the answer. *)
LEMMA SendTells ==
    ASSUME AdapterTypes, CallInHand, OneServesTheKey, AnswersTell, Send
    PROVE  AnswersTell'
<1> USE DEF At, history
<1>1. PICK c : c = call'
  OBVIOUS
<1>2. /\ UNCHANGED <<build, tasks, drafts, receipts, intent>>
      /\ call.pc = "send" /\ call \in Calls /\ call.key \in Keys /\ receipts[call.key] = NoAnswer
      /\ call.sender \in Instances /\ call.by = "send_email"
  BY AdapterAssumption DEF Send, CallInHand, AdapterTypes, OneServesTheKey
<1>3. CASE Reply(Error) /\ UNCHANGED <<mailbox, sent, history>>
  BY <1>2, <1>3, AnswerTypes, AnswerInHand
<1>4. CASE /\ Deliver
           /\ \/ sent' = sent \cup {call.key} /\ Reply(Ok) /\ hidden' = hidden
              \/ sent' = sent /\ Reply(Error) /\ hidden' = hidden \cup {call.key}
  <2>1. \A k \in Keys : /\ Mails(k) \in Nat
                        /\ Mails(k)' = Mails(k) + IF call.key = k THEN 1 ELSE 0
    BY <1>2, <1>4, Delivered
  <2>2. \A k : TasksOf(k)' = TasksOf(k)
    BY <1>2 DEF TasksOf
  <2>3. /\ c.pc = "reply" /\ c.key = call.key /\ c.answer.by = "send_email"
        /\ \/ c.answer.status = "ok" /\ sent' = sent \cup {call.key} /\ hidden' = hidden
           \/ c.answer.status = "error" /\ sent' = sent /\ hidden' = hidden \cup {call.key}
    BY <1>1, <1>2, <1>4, AnswerTypes, ReplyTypes
  <2>4. Tells(c.key, c.answer)'
    BY <1>2, <2>1, <2>3 DEF Tells
  <2>5. ASSUME NEW k \in Keys PROVE Tells(k, receipts[k])'
    <3>1. PICK a : a = receipts[k]
      OBVIOUS
    <3>2. CASE k = call.key
      BY <1>2, <3>2, NothingTold
    <3>3. CASE k # call.key
      <4>1. Tells(k, a)
        BY <3>1 DEF AnswersTell
      <4>2. Tells(k, a)'
        BY <1>2, <2>1, <2>2, <2>3, <3>3, <4>1 DEF Tells
      <4> QED
        BY <1>2, <3>1, <4>2
    <3> QED
      BY <3>2, <3>3
  <2>6. \A k \in Keys : Mails(k)' > 0 /\ receipts'[k] = NoAnswer =>
           k \in hidden' \/ (c.pc = "reply" /\ c.key = k /\ c.answer.status = "ok")
    BY <1>2, <2>1, <2>3 DEF AnswersTell
  <2>7. \A k \in sent' : Mails(k)' > 0
    <3>1. sent \subseteq Keys /\ \A k \in sent : Mails(k) > 0
      BY DEF AnswersTell, AdapterTypes
    <3>2. \A k \in Keys : Mails(k) > 0 \/ k = call.key => Mails(k)' > 0
      BY <2>1
    <3> QED
      BY <1>2, <2>3, <3>1, <3>2
  <2>8. \A k \in Keys : \A m, n \in TasksOf(k)' : m = n
    BY <2>2 DEF AnswersTell
  <2> QED
    BY <1>1, <2>3, <2>4, <2>5, <2>6, <2>7, <2>8, TellsInHand DEF AnswersTell
<1> QED
  BY <1>3, <1>4 DEF Send, Forgets

LEMMA AnswersTellStep ==
    ASSUME AdapterTypes, CallInHand, OneServesTheKey, AnswersTell, [AdapterNext]_adapterVars
    PROVE  AnswersTell'
<1> USE DEF At, history
<1>1. ASSUME NEW k \in Keys, NEW name \in Intents, NEW args \in BOOLEAN,
             NEW c \in Instances \cup {"none"}, Ask(k, name, args, c)
      PROVE  AnswersTell'
  <2>1. call'.pc = "vault" /\ call.pc = "idle"
    BY <1>1, AskTypes DEF Ask
  <2> QED
    BY <1>1, <2>1, NoAnswerInHand DEF Ask
<1>2. CASE Vault \/ DraftEmail \/ DraftCandidate \/ Research \/ DeepResearch \/ BeginSend \/ ResolveSender
  <2>1. /\ UNCHANGED <<tasks, sent, mailbox, receipts, hidden>>
        /\ call.pc \in {"vault", "execute", "sender"}
    BY <1>2, QuietSteps
  <2>2. ASSUME NEW answer \in Answers, Reply(answer), answer.status \in {"ok", "error"},
               answer.status = "ok" /\ call.by = "send_email" => call.key \in sent,
               answer.status = "ok" => call.by # "mark_outcome"
        PROVE  AnswersTell'
    BY <2>1, <2>2, AnswerInHand
  <2>3. ASSUME NEW pc \in {"execute", "sender", "send"}, call' = [call EXCEPT !.pc = pc]
        PROVE  AnswersTell'
    <3>1. call'.pc # "reply"
      BY <2>3, MoveTypes DEF AdapterTypes
    <3> QED
      BY <2>1, <3>1, NoAnswerInHand
  <2> QED
    BY <1>2, <2>2, <2>3, QuietSteps
<1>3. CASE QueueTask \/ \E n \in 1 .. Len(tasks) + 1, o \in Marks : MarkOutcome(n, o)
  BY <1>3, TaskTells
<1>4. CASE Send
  BY <1>4, SendTells
<1>5. CASE SaveReceipt
  <2>1. /\ UNCHANGED <<tasks, sent, mailbox, hidden>> /\ call.pc = "reply" /\ call'.pc = "idle"
        /\ receipts' = [receipts EXCEPT ![call.key] = call.answer] /\ receipts[call.key] = NoAnswer
    BY <1>5, NoCallType DEF SaveReceipt, CallInHand
  <2>2. \A k : Mails(k)' = Mails(k) /\ TasksOf(k)' = TasksOf(k)
    BY <2>1 DEF Mails, TasksOf
  <2>3. ASSUME NEW k \in Keys PROVE Tells(k, receipts[k])'
    <3>1. PICK a : a = receipts'[k]
      OBVIOUS
    <3>2. Tells(k, a)
      BY <2>1, <3>1 DEF AnswersTell, AdapterTypes
    <3>3. Tells(k, a)'
      BY <2>1, <3>2, TellsSame
    <3> QED
      BY <3>1, <3>3
  <2>4. call.answer.status = "ok" => call.answer # NoAnswer
    BY AnswerTypes
  <2>5. \A k \in Keys : Mails(k)' > 0 /\ receipts'[k] = NoAnswer => k \in hidden'
    BY <2>1, <2>2, <2>4 DEF AnswersTell, AdapterTypes
  <2> QED
    BY <2>1, <2>2, <2>3, <2>5 DEF AnswersTell
<1>6. CASE Cancel
  <2>1. /\ UNCHANGED <<build, tasks, sent, receipts, intent>> /\ call.pc # "idle" /\ call'.pc = "idle"
        /\ call.key \in Keys /\ receipts[call.key] = NoAnswer
    BY <1>6, NoCallType DEF Cancel, CallInHand
  <2>2. CASE Mails(call.key) = 0 /\ UNCHANGED <<mailbox, hidden>>
    BY <2>1, <2>2, NoAnswerInHand
  <2>3. CASE Hides(call.key) /\ UNCHANGED mailbox
    BY <2>1, <2>3, NoAnswerInHand DEF Hides
  <2>4. CASE call.pc = "send" /\ Deliver /\ Forgets(call.key)
    <3>1. hidden' = hidden \cup {call.key} /\ call.sender \in Instances
      BY <2>4, AdapterAssumption DEF Forgets, CallInHand
    <3>2. \A k \in Keys : /\ Mails(k) \in Nat
                          /\ Mails(k)' = Mails(k) + IF call.key = k THEN 1 ELSE 0
      BY <2>4, <3>1, Delivered
    <3>3. \A k : TasksOf(k)' = TasksOf(k)
      BY <2>1 DEF TasksOf
    <3>4. ASSUME NEW k \in Keys PROVE Tells(k, receipts[k])'
      <4>1. PICK a : a = receipts[k]
        OBVIOUS
      <4>2. CASE k = call.key
        BY <2>1, <4>2, NothingTold
      <4>3. CASE k # call.key
        <5>1. Tells(k, a)
          BY <4>1 DEF AnswersTell
        <5>2. Tells(k, a)'
          BY <2>1, <3>1, <3>2, <3>3, <4>3, <5>1 DEF Tells
        <5> QED
          BY <2>1, <4>1, <5>2
      <4> QED
        BY <4>2, <4>3
    <3>5. \A k \in Keys : Mails(k)' > 0 /\ receipts'[k] = NoAnswer => k \in hidden'
      BY <2>1, <2>4, <3>1, <3>2 DEF AnswersTell
    <3>6. \A k \in sent' : Mails(k)' > 0
      <4>1. sent \subseteq Keys /\ \A k \in sent : Mails(k) > 0
        BY DEF AnswersTell, AdapterTypes
      <4>2. \A k \in Keys : Mails(k) > 0 => Mails(k)' > 0
        BY <3>2
      <4> QED
        BY <2>1, <4>1, <4>2
    <3>7. \A k \in Keys : \A m, n \in TasksOf(k)' : m = n
      BY <3>3 DEF AnswersTell
    <3> QED
      BY <2>1, <3>4, <3>5, <3>6, <3>7 DEF AnswersTell
  <2> QED
    BY <1>6, <2>2, <2>3, <2>4 DEF Cancel
<1>7. CASE Restart
  <2>1. /\ UNCHANGED <<tasks, mailbox, receipts, call, hidden>> /\ call.pc = "idle" /\ sent' = {}
    BY <1>7 DEF Restart
  <2> QED
    BY <2>1, NoAnswerInHand
<1>8. CASE UNCHANGED adapterVars
  <2>1. /\ UNCHANGED <<tasks, sent, mailbox, receipts, call, hidden>>
    BY <1>8 DEF adapterVars
  <2>2. \A k : Mails(k)' = Mails(k) /\ TasksOf(k)' = TasksOf(k)
    BY <2>1 DEF Mails, TasksOf
  <2>3. \A k \in Keys : Tells(k, receipts[k])'
    BY <2>1, TellsSame DEF AnswersTell
  <2>4. call.pc = "reply" => Tells(call.key, call.answer)'
    BY <2>1, TellsSame DEF AnswersTell
  <2> QED
    BY <2>1, <2>2, <2>3, <2>4 DEF AnswersTell
<1> QED
  BY <1>1, <1>2, <1>3, <1>4, <1>5, <1>6, <1>7, <1>8 DEF AdapterNext, Perform

LEMMA InitTold == AdapterInit => ToldInv
<1> SUFFICES ASSUME AdapterInit PROVE ToldInv
  OBVIOUS
<1>1. AdapterTypes /\ PaidInv
  BY InitAdapterTypes, InitPaid
<1>2. call.pc = "idle" /\ tasks = <<>> /\ sent = {} /\ \A k \in Keys : receipts[k] = NoAnswer
  BY NoCallType DEF AdapterInit
<1>3. \A k \in Keys : Mails(k) = 0 /\ TasksOf(k) = {}
  <2>1. mailbox = <<>> /\ tasks = <<>>
    BY DEF AdapterInit
  <2> QED
    BY <2>1, FS_EmptySet DEF Mails, TasksOf
<1>4. OneServesTheKey
  BY <1>2, <1>3 DEF OneServesTheKey, At
<1>5. AnswersTell
  BY <1>2, <1>3, NothingTold DEF AnswersTell, At
<1> QED
  BY <1>1, <1>4, <1>5 DEF ToldInv

LEMMA ToldInvHolds == AdapterSpec => []ToldInv
<1>1. AdapterInit => ToldInv
  BY InitTold
<1>2. ToldInv /\ [AdapterNext]_adapterVars => ToldInv'
  <2> SUFFICES ASSUME ToldInv, [AdapterNext]_adapterVars PROVE ToldInv'
    OBVIOUS
  <2>1. AdapterTypes /\ PaidInv /\ OneServesTheKey /\ AnswersTell /\ CallInHand
    BY DEF ToldInv, PaidInv
  <2>2. AdapterTypes' /\ PaidInv' /\ OneServesTheKey' /\ AnswersTell'
    BY <2>1, AdapterTypeStep, NextPaid, OneServesStep, AnswersTellStep
  <2> QED
    BY <2>2 DEF ToldInv
<1> QED
  BY <1>1, <1>2, PTL DEF AdapterSpec

(* Every variable of the adapters keeps its type, for any keys and any number
   of calls, cancellations and restarts. *)
THEOREM AdapterTypesHold == AdapterSpec => []AdapterTypes
<1>1. ToldInv => AdapterTypes
  BY DEF ToldInv
<1> QED
  BY <1>1, ToldInvHolds, PTL

(* What a receipt says is what happened: a queued_manual names the one task of
   its key, an ok send has a mail and an error has none that a fault did not
   hide, a marked task carries an outcome, and nothing is both mailed and
   handed to a human. *)
THEOREM ReceiptsTellTheTruth == AdapterSpec => []ReceiptsAreTrue
<1>1. ToldInv => ReceiptsAreTrue
  <2> SUFFICES ASSUME ToldInv, NEW k \in Keys
               PROVE  /\ Tells(k, receipts[k])
                      /\ Mails(k) = 0 \/ TasksOf(k) = {}
    BY DEF ReceiptsAreTrue, Tells
  <2>1. Tells(k, receipts[k])
    BY DEF ToldInv, AnswersTell
  <2>2. Mails(k) \in Nat
    BY MailCount DEF ToldInv
  <2>3. ASSUME Mails(k) > 0, TasksOf(k) # {} PROVE FALSE
    <3>1. tasks # <<>>
      BY <2>3 DEF TasksOf
    <3>2. intent[k] = "send_email" /\ Resolve("send_email") = "send_email"
      BY <2>3, <3>1 DEF ToldInv, OneServesTheKey
    <3>3. Resolve(intent[k]) \in Queueing
      BY <2>3 DEF ToldInv, OneServesTheKey
    <3> QED
      BY <3>2, <3>3 DEF Queueing
  <2> QED
    BY <2>1, <2>2, <2>3
<1> QED
  BY <1>1, ToldInvHolds, PTL
=============================================================================
