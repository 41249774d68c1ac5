--------------------------- MODULE HermesRunProofs ---------------------------
(***************************************************************************)
(* A key stands for one request until a fault makes the loop ask the model   *)
(* again, for any arguments and any number of steps, turns, parks and        *)
(* resumptions.                                                              *)
(***************************************************************************)
EXTENDS HermesRun, SequenceTheorems, FiniteSetTheorems, TLAPS

(* The session of a run that has just started has asked for nothing. *)
LEMMA InitFresh == Init => FreshInv
BY DEF Init, FreshInv, Shaped, Counted, InHand, NewSession, NoStep, Think, NoContinuation

(* What a turn hears changes neither the count nor the shape of the session. *)
LEMMA HeardKeepsCount ==
    ASSUME Shaped, NEW observed, NEW s, s = Heard(session, observed)
    PROVE  /\ s.index = session.index
           /\ s = [history |-> s.history, started |-> s.started, pending |-> s.pending,
                   index |-> s.index, cursor |-> s.cursor]
BY DEF Shaped, Heard

(* What it asks for raises the count by one exactly when it is a syscall. *)
LEMMA TakenCounts ==
    ASSUME Shaped, NEW ids, NEW action, NEW s, s = Taken(session, ids, action)
    PROVE  /\ s.index = IF action.kind = "call" THEN session.index + 1 ELSE session.index
           /\ s = [history |-> s.history, started |-> s.started, pending |-> s.pending,
                   index |-> s.index, cursor |-> s.cursor]
BY DEF Shaped, Taken

(* The call a session asks for next stands alone under its key. *)
LEMMA NextIsCurrent ==
    ASSUME Counted, NEW request, NEW s, request.key = NextKey(session, request.key[1]),
           s.index = session.index + 1
    PROVE  Current(s, request) /\ \A a \in attempts : a.key[2] <= s.index
<1>1. request.key[2] = session.index + 1 /\ session.index \in Nat
  BY DEF NextKey, Counted
<1>2. \A a \in attempts : a.key[2] \in Nat /\ a.key[2] <= session.index
  BY DEF Counted
<1> QED
  BY <1>1, <1>2 DEF Current

(* A turn leaves the count level with the call it asks for. *)
LEMMA RepliesAreFresh ==
    ASSUME Shaped, Counted, NEW name, NEW a, NEW n \in 0 .. 2, Reply(name, a, n)
    PROVE  Shaped' /\ Counted'
<1>1. pc' = "dispose" /\ attempts' = attempts
  BY DEF Reply
<1>2. CASE n = 0
  <2>1. step' = [step EXCEPT !.action = Think]
        /\ session' = [session EXCEPT !.history = Append(@, Assistant(<<>>)), !.cursor = @ + 1]
    BY <1>2 DEF Reply
  <2>2. Shaped'
    BY <2>1 DEF Shaped
  <2>3. session'.index = session.index /\ step'.action.kind = "think"
    BY <2>1 DEF Shaped, Think
  <2> QED
    BY <1>1, <2>2, <2>3 DEF Counted, InHand
<1>3. CASE n # 0
  <2> DEFINE action == ToAction(session, name, a)
  <2>1. PICK ids : session' = Taken(session, ids, action)
    BY <1>3 DEF Reply
  <2>2. step' = [step EXCEPT !.action = action]
    BY <1>3 DEF Reply
  <2>3. PICK s : s = session'
    OBVIOUS
  <2>4. /\ s.index = IF action.kind = "call" THEN session.index + 1 ELSE session.index
        /\ s = [history |-> s.history, started |-> s.started, pending |-> s.pending,
                index |-> s.index, cursor |-> s.cursor]
    BY <2>1, <2>3, TakenCounts
  <2>5. action.kind = "call" =>
           action.request.key = NextKey(session, action.request.key[1])
    BY DEF ToAction, NextKey, Think
  <2> HIDE DEF action
  <2>6. Shaped' /\ step'.action = action
    BY <2>2, <2>3, <2>4 DEF Shaped
  <2>7. CASE action.kind = "call"
    <3>1. s.index = session.index + 1
      BY <2>4, <2>7
    <3>2. Current(s, action.request) /\ \A b \in attempts : b.key[2] <= s.index
      BY <2>5, <2>7, <3>1, NextIsCurrent
    <3>3. s.index \in Nat /\ \A b \in attempts : b.key[2] \in Nat
      BY <3>1 DEF Counted
    <3>4. Current(session, step.action.request)'
      BY <1>1, <2>3, <2>6, <3>2 DEF Current
    <3> QED
      BY <1>1, <2>3, <2>6, <3>2, <3>3, <3>4 DEF Counted
  <2>8. CASE action.kind # "call"
    <3>1. session'.index = session.index /\ step'.action.kind # "call"
      BY <2>3, <2>4, <2>6, <2>8
    <3> QED
      BY <1>1, <2>6, <3>1 DEF Counted, InHand
  <2> QED
    BY <2>6, <2>7, <2>8
<1> QED
  BY <1>2, <1>3

(* Nothing else raises the count, and an attempt is of the call in hand. *)
LEMMA NextFresh == FreshInv /\ [Next]_vars => FreshInv'
<1> SUFFICES ASSUME FreshInv, [Next]_vars PROVE FreshInv'
  OBVIOUS
<1>1. CASE Fault
  BY <1>1 DEF Fault, FreshInv
<1>2. CASE faults # 0 /\ faults' = faults
  BY <1>2 DEF FreshInv
<1>3. CASE faults = 0 /\ faults' = faults
  <2> SUFFICES pc' # "pending" /\ ~conflicted' /\ Shaped' /\ Counted'
    BY <1>3 DEF FreshInv
  <2>1. pc # "pending" /\ ~conflicted /\ Shaped /\ Counted
    BY <1>3 DEF FreshInv
  <2>2. CASE UNCHANGED vars
    BY <2>1, <2>2 DEF vars, Shaped, Counted, InHand, Current
  <2>3. CASE Turn
    <3>1. pc' = "dispose" /\ conflicted' = conflicted
      BY <2>3 DEF Turn, Reply
    <3> QED
      BY <2>1, <2>3, <3>1, RepliesAreFresh DEF Turn
  <2>4. CASE BeginStep
    <3>1. PICK s : s = session' /\ s = Heard(session, step.observed)
      BY <2>4 DEF BeginStep
    <3>2. /\ s.index = session.index
          /\ s = [history |-> s.history, started |-> s.started, pending |-> s.pending,
                  index |-> s.index, cursor |-> s.cursor]
      BY <2>1, <3>1, HeardKeepsCount
    <3>3. Shaped'
      BY <2>1, <2>4, <3>1, <3>2 DEF BeginStep, Shaped
    <3> QED
      BY <2>1, <2>4, <3>1, <3>2, <3>3 DEF BeginStep, Counted, InHand
  <2>5. CASE PostTimesOut \/ PostRaises \/ TooManySteps \/ Note \/ ClaimFacts \/ FinishRun
    BY <2>1, <2>5 DEF PostTimesOut, PostRaises, TooManySteps, Note, ClaimFacts, FinishRun,
       Shaped, Counted, InHand
  <2>6. CASE Fulfil
    <3>1. Current(session, step.action.request)
      BY <2>1, <2>6 DEF Fulfil, Counted, InHand
    <3>2. Shaped' /\ session' = session /\ pc' = "step"
          /\ attempts' = attempts \cup {step.action.request} /\ conflicted' = conflicted
      BY <2>1, <2>6 DEF Fulfil, Shaped
    <3> QED
      BY <2>1, <3>1, <3>2 DEF Counted, InHand, Current
  <2>7. CASE Park
    <3>1. Current(session, step.action.request)
      BY <2>1, <2>7 DEF Park, Counted, InHand
    <3>2. Shaped' /\ session' = session /\ step' = step /\ pc' = "save"
          /\ attempts' = attempts \cup {step.action.request} /\ conflicted' = conflicted
      BY <2>1, <2>7 DEF Park, Shaped
    <3>3. Current(session, step.action.request)'
      BY <3>1, <3>2 DEF Current
    <3> QED
      BY <2>1, <3>1, <3>2, <3>3 DEF Counted, Current
  <2>8. CASE Clash
    <3>1. Current(session, step.action.request)
      BY <2>1, <2>8 DEF Clash, Counted, InHand
    <3>2. PICK a \in attempts : a.key = step.action.request.key /\ a # step.action.request
      BY <2>8 DEF Clash, Clashes
    <3> QED
      BY <3>1, <3>2 DEF Current
  <2>9. CASE SaveContinuation
    <3>1. Current(session, step.action.request)
      BY <2>1, <2>9 DEF SaveContinuation, Counted, InHand
    <3>2. /\ UNCHANGED <<session, step, attempts, conflicted>> /\ pc' = "parked"
          /\ saved'.session = session /\ saved'.request = step.action.request
      BY <2>9 DEF SaveContinuation
    <3>3. Current(session, saved.request)'
      BY <3>1, <3>2 DEF Current
    <3> QED
      BY <2>1, <3>2, <3>3 DEF Shaped, Counted, InHand
  <2>10. CASE Verify
    BY <2>1, <2>10 DEF Verify, Shaped, Counted, InHand
  <2>11. CASE Resume
    <3>1. saved.session = session /\ Current(session, saved.request)
      BY <2>1, <2>11 DEF Resume, Counted
    <3>2. /\ session' = session /\ attempts' = attempts /\ pc' = "dispose"
          /\ conflicted' = conflicted /\ Shaped' /\ step'.action.request = saved.request
      BY <2>1, <2>11, <3>1 DEF Resume, Resumed, NoStep, Shaped
    <3>3. Current(session, step.action.request)'
      BY <3>1, <3>2 DEF Current
    <3> QED
      BY <2>1, <3>2, <3>3 DEF Counted
  <2>12. CASE Reclaim
    BY <2>1, <2>12 DEF Reclaim
  <2>13. ~Fault
    BY <1>3 DEF Fault
  <2> QED
    BY <2>2, <2>3, <2>4, <2>5, <2>6, <2>7, <2>8, <2>9, <2>10, <2>11, <2>12, <2>13
       DEF Next, Drive
<1>4. Fault \/ faults' = faults
  BY DEF Next, Drive, Turn, Reply, BeginStep, PostTimesOut, PostRaises, TooManySteps, Note,
     ClaimFacts, FinishRun, Fulfil, Park, Clash, SaveContinuation, Verify, Resume, Reclaim, vars
<1> QED
  BY <1>1, <1>2, <1>3, <1>4

(* Without a fault the gateway is never asked for one key with two requests,
   however many calls the run makes, parks on and resumes (call_index in
   HermesSession.export_state). *)
THEOREM KeysStandAlone == Spec => []KeysAreFresh
<1>1. FreshInv => KeysAreFresh
  BY DEF FreshInv, KeysAreFresh
<1> QED
  BY <1>1, InitFresh, NextFresh, PTL DEF Spec

----------------------------------------------------------------------------
(* The history that is posted. *)

(* What a history asks and what answers it are its messages, one at a time. *)
LEMMA HistoryAppend ==
    ASSUME NEW h \in Seq(Messages), NEW m \in Messages
    PROVE  /\ Append(h, m) \in Seq(Messages)
           /\ DOMAIN Append(h, m) = DOMAIN h \cup {Len(h) + 1} /\ Len(h) + 1 \notin DOMAIN h
           /\ Append(h, m)[Len(h) + 1] = m
           /\ \A n \in DOMAIN h : Append(h, m)[n] = h[n]
<1>1. h \in [1 .. Len(h) -> Messages] /\ Len(h) \in Nat
  BY SeqDef, LenProperties
<1> HIDE DEF Messages
<1> QED
  BY <1>1, AppendProperties

LEMMA AskedAppend ==
    ASSUME NEW h \in Seq(Messages), NEW m \in Messages
    PROVE  Asked(Append(h, m)) =
             Asked(h) \cup (IF m.role = "assistant" THEN Range(m.ids) \ {NoId} ELSE {})
<1> DEFINE g == Append(h, m)
           N == Len(h) + 1
<1>1. /\ DOMAIN g = DOMAIN h \cup {N} /\ g[N] = m /\ N \notin DOMAIN h
      /\ \A n \in DOMAIN h : g[n] = h[n]
  BY HistoryAppend
<1> HIDE DEF g, N
<1>2. Asked(g) = Asked(h) \cup (IF m.role = "assistant" THEN Range(m.ids) \ {NoId} ELSE {})
  BY <1>1 DEF Asked
<1> QED
  BY <1>2 DEF g

LEMMA AnswersAppend ==
    ASSUME NEW h \in Seq(Messages), NEW m \in Messages, NEW id
    PROVE  /\ Answers(h, id) \in Nat
           /\ Answers(Append(h, m), id) =
                IF m.role = "tool" /\ m.ids = <<id>> THEN Answers(h, id) + 1 ELSE Answers(h, id)
<1> DEFINE g == Append(h, m)
           N == Len(h) + 1
           A(s) == {n \in DOMAIN s : s[n].role = "tool" /\ s[n].ids = <<id>>}
<1>1. /\ DOMAIN g = DOMAIN h \cup {N} /\ g[N] = m /\ N \notin DOMAIN h
      /\ \A n \in DOMAIN h : g[n] = h[n]
  BY HistoryAppend
<1>2. DOMAIN h = 1 .. Len(h) /\ Len(h) \in Nat
  BY LenProperties
<1>3. IsFiniteSet(DOMAIN h)
  BY <1>2, FS_Interval
<1>4. IsFiniteSet(A(h))
  BY <1>3, FS_Subset
<1> HIDE DEF g, N
<1>5. A(g) = IF m.role = "tool" /\ m.ids = <<id>> THEN A(h) \cup {N} ELSE A(h)
  BY <1>1
<1>6. N \notin A(h)
  BY <1>1
<1>7. Answers(h, id) = Cardinality(A(h)) /\ Answers(g, id) = Cardinality(A(g))
  BY DEF Answers
<1> HIDE DEF A
<1>8. Cardinality(A(h)) \in Nat /\ Cardinality(A(h) \cup {N}) = Cardinality(A(h)) + 1
  BY <1>4, <1>6, FS_CardinalityType, FS_AddElement
<1> QED
  BY <1>5, <1>7, <1>8 DEF g

(* A call of no turn so far has no answer yet. *)
LEMMA NotYetAnswered ==
    ASSUME NEW h \in Seq(Messages), NEW open, NEW t, Answered(h, open, t),
           NEW id, id # NoId, id \notin Said(t)
    PROVE  Answers(h, id) = 0 /\ id \notin Asked(h)
<1>1. \A n \in DOMAIN h : id \notin Range(h[n].ids)
  BY DEF Answered
<1>2. id \in Range(<<id>>)
  BY DEF Range
<1>3. {n \in DOMAIN h : h[n].role = "tool" /\ h[n].ids = <<id>>} = {}
  BY <1>1, <1>2
<1> QED
  BY <1>1, <1>3, FS_EmptySet DEF Answers, Asked

(* Only what is open among the calls of the turns so far matters. *)
LEMMA AskedWasSaid ==
    ASSUME NEW h \in Seq(Messages), NEW open, NEW t, Answered(h, open, t)
    PROVE  /\ Asked(h) \subseteq Said(t)
           /\ \A P : (\A id \in Said(t) : id \in open <=> id \in P) => Answered(h, P, t)
<1>1. Asked(h) \subseteq Said(t)
  BY DEF Answered, Asked
<1> QED
  BY <1>1 DEF Answered

(* A turn opens its own calls and answers none. *)
LEMMA TurnAsks ==
    ASSUME NEW h \in Seq(Messages), NEW open, NEW t \in Nat, Answered(h, open, t),
           NEW ids, Assistant(ids) \in Messages,
           Range(ids) \subseteq {NoId, <<t + 1, 1>>, <<t + 1, 2>>}
    PROVE  /\ Append(h, Assistant(ids)) \in Seq(Messages)
           /\ Answered(Append(h, Assistant(ids)), open \cup Range(ids), t + 1)
<1> DEFINE m == Assistant(ids)
           g == Append(h, m)
<1>0. m.role = "assistant" /\ m.ids = ids
  BY DEF Assistant
<1>1. /\ DOMAIN g = DOMAIN h \cup {Len(h) + 1} /\ g[Len(h) + 1] = m /\ g \in Seq(Messages)
      /\ \A n \in DOMAIN h : g[n] = h[n]
  BY HistoryAppend
<1>2. Asked(g) = Asked(h) \cup (Range(ids) \ {NoId})
  BY <1>0, AskedAppend
<1>3. \A id : Answers(g, id) = Answers(h, id)
  BY <1>0, AnswersAppend
<1>4. Said(t) \subseteq Said(t + 1) /\ {<<t + 1, 1>>, <<t + 1, 2>>} \subseteq Said(t + 1)
  BY DEF Said
<1>5. \A id \in Said(t) : id # <<t + 1, 1>> /\ id # <<t + 1, 2>>
  BY DEF Said
<1>6. Asked(h) \subseteq Said(t)
  BY AskedWasSaid
<1>7. NoId \notin Said(t)
  BY DEF Said, NoId
<1> HIDE DEF g, m
<1>8. \A n \in DOMAIN g : Range(g[n].ids) \subseteq {NoId} \cup Said(t + 1)
  BY <1>0, <1>1, <1>4 DEF Answered
<1>9. ASSUME NEW id \in Asked(g)
      PROVE  Answers(g, id) = IF id \in open \cup Range(ids) THEN 0 ELSE 1
  <2>1. CASE id \in Range(ids) \ {NoId}
    <3>1. Answers(h, id) = 0
      BY <2>1, <1>5, NotYetAnswered
    <3> QED
      BY <2>1, <3>1, <1>3
  <2>2. CASE id \in Asked(h)
    <3>1. id \notin Range(ids)
      BY <2>2, <1>5, <1>6, <1>7
    <3> QED
      BY <2>2, <3>1, <1>3 DEF Answered
  <2> QED
    BY <2>1, <2>2, <1>2
<1>10. Answered(g, open \cup Range(ids), t + 1)
  BY <1>8, <1>9 DEF Answered
<1> QED
  BY <1>1, <1>10 DEF g, m

(* A tool message answers the open call it names, and that one only. *)
LEMMA ToolAnswers ==
    ASSUME NEW h \in Seq(Messages), NEW open, NEW t \in Nat, Answered(h, open, t),
           NEW id \in open, id \in Said(t), Tool(id) \in Messages
    PROVE  /\ Append(h, Tool(id)) \in Seq(Messages)
           /\ Answered(Append(h, Tool(id)), open \ {id}, t)
<1> DEFINE m == Tool(id)
           g == Append(h, m)
<1>0. m.role = "tool" /\ m.ids = <<id>>
  BY DEF Tool
<1>1. /\ DOMAIN g = DOMAIN h \cup {Len(h) + 1} /\ g[Len(h) + 1] = m /\ g \in Seq(Messages)
      /\ \A n \in DOMAIN h : g[n] = h[n]
  BY HistoryAppend
<1>2. Asked(g) = Asked(h)
  BY <1>0, AskedAppend
<1>3. \A x : /\ Answers(h, x) \in Nat
            /\ Answers(g, x) = IF x = id THEN Answers(h, x) + 1 ELSE Answers(h, x)
  BY <1>0, AnswersAppend
<1>4. Range(m.ids) = {id}
  BY <1>0 DEF Range
<1> HIDE DEF g, m
<1>5. \A n \in DOMAIN g : Range(g[n].ids) \subseteq {NoId} \cup Said(t)
  BY <1>1, <1>4 DEF Answered
<1>6. \A x \in Asked(g) : Answers(g, x) = IF x \in open \ {id} THEN 0 ELSE 1
  BY <1>2, <1>3 DEF Answered
<1>7. Answered(g, open \ {id}, t)
  BY <1>5, <1>6 DEF Answered
<1> QED
  BY <1>1, <1>7 DEF g, m

(* What the constants of the module are. *)
LEMMA Shapes ==
    /\ NoRequest \in Requests /\ Think \in Actions
    /\ Prompt \in Seq(Messages)
    /\ NewSession \in Sessions /\ NoContinuation \in Continuations
    /\ \A i \in Ids : Tool(i) \in Messages /\ Assistant(<<i>>) \in Messages
    /\ \A i, j \in Ids : Assistant(<<i, j>>) \in Messages
    /\ Assistant(<<>>) \in Messages
    /\ NoPending \notin Ids /\ NoId \in Ids
<1>1. NoRequest \in Requests
  BY HermesAssumption DEF NoRequest, Requests, Keys
<1>2. Think \in Actions
  BY <1>1 DEF Think, Actions
<1>3. /\ [role |-> "system", ids |-> <<>>] \in Messages
      /\ [role |-> "user", ids |-> <<>>] \in Messages
  BY DEF Messages
<1>4. Prompt \in Seq(Messages)
  <2> HIDE DEF Messages
  <2> QED
    BY <1>3 DEF Prompt
<1>5. NewSession \in Sessions
  <2>1. <<>> \in Seq(Messages)
    OBVIOUS
  <2> HIDE DEF Messages
  <2> QED
    BY <2>1 DEF NewSession, Sessions, NoPending
<1>6. NoContinuation \in Continuations
  BY <1>1, <1>5 DEF NoContinuation, Continuations
<1>7. \A i \in Ids : Tool(i) \in Messages /\ Assistant(<<i>>) \in Messages
  BY DEF Tool, Assistant, Messages
<1>8. \A i, j \in Ids : Assistant(<<i, j>>) \in Messages
  BY DEF Assistant, Messages
<1>9. Assistant(<<>>) \in Messages
  BY DEF Assistant, Messages
<1>10. NoPending \notin Ids /\ NoId \in Ids
  BY DEF NoPending, NoId, Ids
<1> QED
  BY <1>1, <1>2, <1>4, <1>5, <1>6, <1>7, <1>8, <1>9, <1>10

(* The calls of the turns so far are named, and no placeholder is among them. *)
LEMMA SaidIds ==
    ASSUME NEW t \in 0 .. MaxTurns
    PROVE  Said(t) \subseteq Ids /\ NoId \notin Said(t) /\ NoPending \notin Said(t)
BY HermesAssumption DEF Said, Ids, NoId, NoPending

(* An empty conversation is in order. *)
LEMMA NewIsTidy ==
    ASSUME NEW t \in Nat
    PROVE  Tidy(NewSession, t) /\ Answered(Prompt, {NoPending}, t)
<1>1. Asked(<<>>) = {}
  BY DEF Asked
<1>2. Answered(<<>>, {NoPending}, t)
  BY <1>1 DEF Answered
<1>3. /\ NewSession.pending = NoPending /\ ~NewSession.started
      /\ NewSession.index = 0 /\ NewSession.history = <<>>
  BY DEF NewSession
<1>4. Tidy(NewSession, t)
  BY <1>2, <1>3 DEF Tidy
<1>5. /\ DOMAIN Prompt = 1 .. 2
      /\ \A n \in 1 .. 2 : Prompt[n].ids = <<>> /\ Prompt[n].role # "assistant"
  BY DEF Prompt
<1>6. Range(<<>>) = {}
  BY DEF Range
<1>7. Asked(Prompt) = {}
  BY <1>5 DEF Asked
<1>8. Answered(Prompt, {NoPending}, t)
  BY <1>5, <1>6, <1>7 DEF Answered
<1> QED
  BY <1>4, <1>8

(* Another turn elsewhere leaves a conversation in order. *)
LEMMA TidyStays ==
    ASSUME NEW s \in Sessions, NEW t \in Nat, Tidy(s, t)
    PROVE  Tidy(s, t + 1)
<1>1. Said(t) \subseteq Said(t + 1)
  BY DEF Said
<1>2. s.index \in Nat
  BY DEF Sessions
<1> QED
  BY <1>1, <1>2 DEF Tidy, Answered

(* What becomes of a session one field of which changes. *)
LEMMA HistoryChanges ==
    ASSUME NEW s \in Sessions, NEW g \in Seq(Messages), NEW r, r = [s EXCEPT !.history = g]
    PROVE  r \in Sessions /\ r.history = g /\ r.started = s.started
           /\ r.pending = s.pending /\ r.index = s.index
<1>1. PICK h, b, p, i, c : /\ s = [history |-> h, started |-> b, pending |-> p,
                                    index |-> i, cursor |-> c]
                           /\ h \in Seq(Messages) /\ b \in BOOLEAN
                           /\ p \in Ids \cup {<<-1, -1>>} /\ i \in Nat /\ c \in Nat
  BY DEF Sessions
<1> HIDE DEF Messages
<1> QED
  BY <1>1 DEF Sessions, NoPending

LEMMA SessionStarts ==
    ASSUME NEW s \in Sessions, NEW r, r = [s EXCEPT !.started = TRUE]
    PROVE  r \in Sessions /\ r.started /\ r.history = s.history
           /\ r.pending = s.pending /\ r.index = s.index
<1>1. PICK h, b, p, i, c : /\ s = [history |-> h, started |-> b, pending |-> p,
                                    index |-> i, cursor |-> c]
                           /\ h \in Seq(Messages) /\ b \in BOOLEAN
                           /\ p \in Ids \cup {<<-1, -1>>} /\ i \in Nat /\ c \in Nat
  BY DEF Sessions
<1> HIDE DEF Messages
<1> QED
  BY <1>1 DEF Sessions, NoPending

LEMMA PendingChanges ==
    ASSUME NEW s \in Sessions, NEW q \in Ids \cup {NoPending}, NEW r, r = [s EXCEPT !.pending = q]
    PROVE  r \in Sessions /\ r.pending = q /\ r.history = s.history
           /\ r.started = s.started /\ r.index = s.index
<1>1. PICK h, b, p, i, c : /\ s = [history |-> h, started |-> b, pending |-> p,
                                    index |-> i, cursor |-> c]
                           /\ h \in Seq(Messages) /\ b \in BOOLEAN
                           /\ p \in Ids \cup {<<-1, -1>>} /\ i \in Nat /\ c \in Nat
  BY DEF Sessions
<1> HIDE DEF Messages
<1> QED
  BY <1>1 DEF Sessions, NoPending

LEMMA IndexGrows ==
    ASSUME NEW s \in Sessions, NEW r, r = [s EXCEPT !.index = @ + 1]
    PROVE  r \in Sessions /\ r.index = s.index + 1 /\ r.history = s.history
           /\ r.started = s.started /\ r.pending = s.pending
<1>1. PICK h, b, p, i, c : /\ s = [history |-> h, started |-> b, pending |-> p,
                                    index |-> i, cursor |-> c]
                           /\ h \in Seq(Messages) /\ b \in BOOLEAN
                           /\ p \in Ids \cup {<<-1, -1>>} /\ i \in Nat /\ c \in Nat
  BY DEF Sessions
<1> HIDE DEF Messages
<1> QED
  BY <1>1 DEF Sessions, NoPending

LEMMA CursorGrows ==
    ASSUME NEW s \in Sessions, NEW r, r = [s EXCEPT !.cursor = @ + 1]
    PROVE  r \in Sessions /\ r.index = s.index /\ r.history = s.history
           /\ r.started = s.started /\ r.pending = s.pending
<1>1. PICK h, b, p, i, c : /\ s = [history |-> h, started |-> b, pending |-> p,
                                    index |-> i, cursor |-> c]
                           /\ h \in Seq(Messages) /\ b \in BOOLEAN
                           /\ p \in Ids \cup {<<-1, -1>>} /\ i \in Nat /\ c \in Nat
  BY DEF Sessions
<1> HIDE DEF Messages
<1> QED
  BY <1>1 DEF Sessions, NoPending

(* The fields of a session that changes in several. *)
LEMMA SessionFields ==
    ASSUME NEW s \in Sessions
    PROVE  /\ s.history \in Seq(Messages) /\ s.started \in BOOLEAN
           /\ s.pending \in Ids \cup {NoPending} /\ s.index \in Nat /\ s.cursor \in Nat
BY DEF Sessions, NoPending

(* A turn begins with the answer to the call that was pending, and with nothing *)
(* pending.                                                                 *)
LEMMA HeardTidy ==
    ASSUME NEW s \in Sessions, NEW t \in 0 .. MaxTurns, Tidy(s, t), NEW observed \in BOOLEAN,
           observed \/ s.pending = NoPending, NEW r, r = Heard(s, observed)
    PROVE  r \in Sessions /\ Tidy(r, t) /\ r.started /\ r.pending = NoPending
<1>0. t \in Nat
  BY HermesAssumption
<1>1. CASE ~s.started
  <2>1. s.pending = NoPending
    BY <1>1 DEF Tidy
  <2> DEFINE q == [s EXCEPT !.history = Prompt]
  <2>2. r = [q EXCEPT !.started = TRUE]
    BY <1>1, <2>1 DEF Heard
  <2>3. q \in Sessions /\ q.history = Prompt /\ q.pending = NoPending /\ q.index = s.index
    BY <2>1, HistoryChanges, Shapes
  <2> HIDE DEF q
  <2>4. /\ r \in Sessions /\ r.history = Prompt /\ r.started /\ r.pending = NoPending
        /\ r.index = s.index
    BY <2>2, <2>3, SessionStarts
  <2> QED
    BY <2>4, <1>0, NewIsTidy DEF Tidy
<1>2. CASE s.started /\ s.pending = NoPending
  BY <1>2 DEF Heard
<1>3. CASE s.started /\ s.pending # NoPending
  <2>1. s.pending \in Said(t) /\ Tool(s.pending) \in Messages
    BY <1>3, SaidIds, Shapes DEF Tidy
  <2> DEFINE h == Append(s.history, Tool(s.pending))
  <2>2. h \in Seq(Messages) /\ Answered(h, {s.pending} \ {s.pending}, t)
    BY <2>1, <1>0, ToolAnswers, SessionFields DEF Tidy
  <2> DEFINE q == [s EXCEPT !.history = h]
  <2>4. r = [q EXCEPT !.pending = NoPending]
    BY <1>3 DEF Heard
  <2> HIDE DEF h
  <2>3. \A id \in Said(t) : id \in {s.pending} \ {s.pending} <=> id \in {NoPending}
    BY SaidIds
  <2>5. Answered(h, {NoPending}, t)
    BY <2>2, <2>3, AskedWasSaid
  <2>6. q \in Sessions /\ q.history = h /\ q.started /\ q.index = s.index
    BY <1>3, <2>2, HistoryChanges
  <2> HIDE DEF q
  <2>7. /\ r \in Sessions /\ r.history = h /\ r.started /\ r.pending = NoPending
        /\ r.index = s.index
    BY <2>4, <2>6, PendingChanges
  <2> QED
    BY <2>5, <2>7 DEF Tidy
<1> QED
  BY <1>1, <1>2, <1>3

(* The answer of the model and the acknowledgements of its other calls leave    *)
(* the first call open, and that one only.                                  *)
LEMMA FirstStaysOpen ==
    ASSUME NEW h \in Seq(Messages), NEW t \in Nat, t < MaxTurns, Answered(h, {NoPending}, t),
           NEW ids, \/ ids = <<<<t + 1, 1>>>>
                    \/ \E b \in {<<t + 1, 2>>, NoId} : ids = <<<<t + 1, 1>>, b>>,
           NEW said, said = Append(h, Assistant(ids)) \o AckExtras(ids)
    PROVE  /\ said \in Seq(Messages) /\ Answered(said, {<<t + 1, 1>>}, t + 1)
           /\ Head(ids) = <<t + 1, 1>>
<1> DEFINE a == <<t + 1, 1>>
           b == <<t + 1, 2>>
           g == Append(h, Assistant(ids))
<1>1. t + 1 \in 0 .. MaxTurns /\ t + 1 \in Nat
  BY HermesAssumption
<1>2. a \in Said(t + 1) /\ b \in Said(t + 1) /\ a # b
  BY DEF Said
<1>3. a \in Ids /\ b \in Ids /\ NoId \in Ids
  BY <1>1, <1>2, SaidIds, Shapes
<1>4. a # NoId /\ b # NoId /\ NoId \notin Said(t + 1) /\ NoPending \notin Said(t + 1)
  BY <1>1, <1>2, SaidIds
<1> HIDE DEF a, b
<1>5. ids = <<a>> \/ ids = <<a, NoId>> \/ ids = <<a, b>>
  BY DEF a, b
<1>6. Assistant(ids) \in Messages /\ Tool(b) \in Messages
  BY <1>3, <1>5, Shapes
<1>7. Head(ids) = a
  BY <1>5
<1>8. Range(ids) \subseteq {NoId, a, b} /\ a \in Range(ids)
  <2>1. /\ Range(<<a>>) = {a} /\ Range(<<a, NoId>>) = {a, NoId} /\ Range(<<a, b>>) = {a, b}
    BY DEF Range
  <2> QED
    BY <2>1, <1>5
<1>9. g \in Seq(Messages) /\ Answered(g, {NoPending} \cup Range(ids), t + 1)
  BY <1>6, <1>8, TurnAsks DEF a, b
<1> HIDE DEF g
<1>10. CASE ids = <<a, b>>
  <2>1. AckExtras(ids) = <<Tool(b)>>
    BY <1>10, <1>4 DEF AckExtras
  <2>2. said = Append(g, Tool(b))
    <3> HIDE DEF Messages
    <3> QED
      BY <2>1, <1>6, <1>9 DEF g
  <2>3. b \in Range(ids) /\ Range(ids) = {a, b}
    BY <1>10 DEF Range
  <2>4. said \in Seq(Messages) /\ Answered(said, ({NoPending} \cup Range(ids)) \ {b}, t + 1)
    BY <2>2, <2>3, <1>1, <1>2, <1>6, <1>9, ToolAnswers
  <2>5. \A id \in Said(t + 1) : id \in ({NoPending} \cup Range(ids)) \ {b} <=> id \in {a}
    BY <2>3, <1>2, <1>4
  <2> QED
    BY <2>4, <2>5, <1>7, AskedWasSaid DEF a
<1>11. CASE ids = <<a>> \/ ids = <<a, NoId>>
  <2>1. AckExtras(ids) = <<>>
    BY <1>11 DEF AckExtras
  <2>2. said = g
    <3> HIDE DEF Messages
    <3> QED
      BY <2>1, <1>9 DEF g
  <2>3. Range(ids) = {a} \/ Range(ids) = {a, NoId}
    BY <1>11 DEF Range
  <2>4. \A id \in Said(t + 1) : id \in {NoPending} \cup Range(ids) <=> id \in {a}
    BY <2>3, <1>4
  <2> QED
    BY <2>2, <2>4, <1>7, <1>9, AskedWasSaid DEF a
<1> QED
  BY <1>5, <1>10, <1>11

(* After a turn with a tool call, a syscall is pending and nothing else is. *)
LEMMA TakenTidy ==
    ASSUME NEW s \in Sessions, NEW t \in Nat, t < MaxTurns, Tidy(s, t),
           s.started, s.pending = NoPending, NEW action,
           NEW ids, \/ ids = <<<<t + 1, 1>>>>
                    \/ \E b \in {<<t + 1, 2>>, NoId} : ids = <<<<t + 1, 1>>, b>>,
           NEW r, r = Taken(s, ids, action)
    PROVE  /\ r \in Sessions /\ Tidy(r, t + 1)
           /\ action.kind # "call" => r.pending = NoPending
<1> DEFINE said == Append(s.history, Assistant(ids)) \o AckExtras(ids)
           a == <<t + 1, 1>>
<1>1. s.history \in Seq(Messages) /\ s.index \in Nat /\ s.index <= t
  BY SessionFields DEF Tidy
<1>2. said \in Seq(Messages) /\ Answered(said, {a}, t + 1) /\ Head(ids) = a
  BY <1>1, FirstStaysOpen DEF Tidy
<1>3. t + 1 \in 0 .. MaxTurns /\ t + 1 \in Nat
  BY HermesAssumption
<1>4. a \in Said(t + 1)
  BY DEF Said
<1>5. a \in Ids /\ NoPending \notin Said(t + 1)
  BY <1>3, <1>4, SaidIds
<1> HIDE DEF said, a
<1>6. CASE action.kind = "call"
  <2> DEFINE q1 == [s EXCEPT !.history = said]
             q2 == [q1 EXCEPT !.pending = a]
             q3 == [q2 EXCEPT !.index = @ + 1]
  <2>1. r = [q3 EXCEPT !.cursor = @ + 1]
    BY <1>6, <1>2 DEF Taken, said
  <2>2. q1 \in Sessions /\ q1.history = said /\ q1.started /\ q1.index = s.index
    BY <1>2, HistoryChanges
  <2> HIDE DEF q1
  <2>3. /\ q2 \in Sessions /\ q2.history = said /\ q2.started /\ q2.index = s.index
        /\ q2.pending = a
    BY <2>2, <1>5, PendingChanges
  <2> HIDE DEF q2
  <2>4. /\ q3 \in Sessions /\ q3.history = said /\ q3.started /\ q3.index = s.index + 1
        /\ q3.pending = a
    BY <2>3, IndexGrows
  <2> HIDE DEF q3
  <2>5. /\ r \in Sessions /\ r.history = said /\ r.started /\ r.index = s.index + 1
        /\ r.pending = a
    BY <2>1, <2>4, CursorGrows
  <2> QED
    BY <2>5, <1>1, <1>2, <1>4, <1>6 DEF Tidy
<1>7. CASE action.kind # "call"
  <2> DEFINE h == Append(said, Tool(a))
             q1 == [s EXCEPT !.history = h]
  <2>1. r = [q1 EXCEPT !.cursor = @ + 1]
    BY <1>7, <1>2 DEF Taken, said
  <2>2. Tool(a) \in Messages
    BY <1>5, Shapes
  <2>3. h \in Seq(Messages) /\ Answered(h, {a} \ {a}, t + 1)
    BY <2>2, <1>2, <1>3, <1>4, ToolAnswers
  <2> HIDE DEF h
  <2>4. \A id \in Said(t + 1) : id \in {a} \ {a} <=> id \in {NoPending}
    BY <1>5
  <2>5. Answered(h, {NoPending}, t + 1)
    BY <2>3, <2>4, AskedWasSaid
  <2>6. /\ q1 \in Sessions /\ q1.history = h /\ q1.started /\ q1.index = s.index
        /\ q1.pending = NoPending
    BY <2>3, HistoryChanges
  <2> HIDE DEF q1
  <2>7. /\ r \in Sessions /\ r.history = h /\ r.started /\ r.index = s.index
        /\ r.pending = NoPending
    BY <2>1, <2>6, CursorGrows
  <2> QED
    BY <2>5, <2>7, <1>1 DEF Tidy
<1> QED
  BY <1>6, <1>7

(* A turn without a tool call asks nothing. *)
LEMMA SaidTidy ==
    ASSUME NEW s \in Sessions, NEW t \in Nat, Tidy(s, t), s.started, s.pending = NoPending,
           NEW r, r = [s EXCEPT !.history = Append(@, Assistant(<<>>)), !.cursor = @ + 1]
    PROVE  r \in Sessions /\ Tidy(r, t + 1) /\ r.pending = NoPending
<1> DEFINE h == Append(s.history, Assistant(<<>>))
           q1 == [s EXCEPT !.history = h]
<1>1. s.history \in Seq(Messages) /\ s.index \in Nat /\ s.index <= t
  BY SessionFields DEF Tidy
<1>2. Range(<<>>) = {}
  BY DEF Range
<1>3. h \in Seq(Messages) /\ Answered(h, {NoPending} \cup Range(<<>>), t + 1)
  BY <1>1, <1>2, TurnAsks, Shapes DEF Tidy
<1>4. r = [q1 EXCEPT !.cursor = @ + 1]
  OBVIOUS
<1> HIDE DEF h
<1>5. /\ q1 \in Sessions /\ q1.history = h /\ q1.started /\ q1.index = s.index
      /\ q1.pending = NoPending
  BY <1>3, HistoryChanges
<1> HIDE DEF q1
<1>6. /\ r \in Sessions /\ r.history = h /\ r.started /\ r.index = s.index
      /\ r.pending = NoPending
  BY <1>4, <1>5, CursorGrows
<1>7. Answered(h, {NoPending}, t + 1)
  BY <1>2, <1>3
<1>8. r.index <= t + 1
  BY <1>1, <1>6
<1>9. Answered(r.history, {r.pending}, t + 1)
  BY <1>6, <1>7
<1> QED
  BY <1>6, <1>8, <1>9 DEF Tidy

(* A conversation that is in order, and is the session's next, is so then. *)
LEMMA TidyNext ==
    ASSUME NEW s, NEW t, s = session', t = turns', Tidy(s, t)
    PROVE  Tidy(session, turns)'
BY DEF Tidy

LEMMA TidySaved ==
    ASSUME NEW s, NEW t, s = saved'.session, t = turns', Tidy(s, t)
    PROVE  Tidy(saved.session, turns)'
BY DEF Tidy

(* What becomes of a step when the model answers, a turn begins or a call ends. *)
LEMMA StepIsTyped ==
    ASSUME NEW s \in Steps, NEW r
    PROVE  /\ \A a \in Actions : r = [s EXCEPT !.action = a] => r \in Steps /\ r.action = a
           /\ s.count < MaxSteps /\ r = [s EXCEPT !.count = @ + 1, !.observed = FALSE, !.posts = 0]
                => r \in Steps /\ r.action = s.action
           /\ r = [s EXCEPT !.posts = 1] => r \in Steps /\ r.action = s.action
           /\ r = [s EXCEPT !.action = Think, !.observed = TRUE, !.approved = FALSE]
                => r \in Steps /\ r.action = Think /\ r.observed
<1>1. PICK a, o, c, p, w : /\ s = [action |-> a, observed |-> o, count |-> c,
                                   posts |-> p, approved |-> w]
                          /\ a \in Actions /\ o \in BOOLEAN /\ c \in 0 .. MaxSteps
                          /\ p \in 0 .. 1 /\ w \in BOOLEAN
  BY DEF Steps
<1>2. Think \in Actions
  BY Shapes
<1> HIDE DEF Actions
<1>3. ASSUME NEW b \in Actions, r = [s EXCEPT !.action = b] PROVE r \in Steps /\ r.action = b
  BY <1>1, <1>3 DEF Steps
<1>4. ASSUME s.count < MaxSteps, r = [s EXCEPT !.count = @ + 1, !.observed = FALSE, !.posts = 0]
      PROVE  r \in Steps /\ r.action = s.action
  <2>1. c + 1 \in 0 .. MaxSteps
    BY <1>1, <1>4, HermesAssumption
  <2>2. r = [action |-> a, observed |-> FALSE, count |-> c + 1, posts |-> 0, approved |-> w]
    BY <1>1, <1>4
  <2> QED
    BY <1>1, <2>1, <2>2 DEF Steps
<1>5. ASSUME r = [s EXCEPT !.posts = 1] PROVE r \in Steps /\ r.action = s.action
  BY <1>1, <1>5 DEF Steps
<1>6. ASSUME r = [s EXCEPT !.action = Think, !.observed = TRUE, !.approved = FALSE]
      PROVE  r \in Steps /\ r.action = Think /\ r.observed
  <2>1. r = [action |-> Think, observed |-> TRUE, count |-> c, posts |-> p, approved |-> FALSE]
    BY <1>1, <1>6
  <2> QED
    BY <1>1, <1>2, <2>1 DEF Steps
<1> QED
  BY <1>3, <1>4, <1>5, <1>6

(* The actions the model can ask for have their type while it answers. *)
LEMMA ActionsAreTyped ==
    ASSUME NEW s \in Sessions, s.index + 1 \in 1 .. MaxTurns, NEW a \in Args,
           NEW name \in {"think", "claim", "finish", "read", "effect"}
    PROVE  ToAction(s, name, a) \in Actions
<1>1. Think.request \in Requests /\ Think \in Actions
  BY Shapes DEF Think
<1>2. CASE name \in {"claim", "finish"}
  <2>1. ToAction(s, name, a) = [kind |-> name, request |-> Think.request]
    BY <1>2 DEF ToAction, Think
  <2> QED
    BY <1>1, <1>2, <2>1 DEF Actions
<1>3. CASE name \in {"read", "effect"}
  <2>1. NextKey(s, name) \in Keys
    BY <1>3 DEF NextKey, Keys
  <2>2. [key |-> NextKey(s, name), args |-> a] \in Requests
    BY <2>1 DEF Requests
  <2>3. ToAction(s, name, a) = [kind |-> "call",
                                request |-> [key |-> NextKey(s, name), args |-> a]]
    BY <1>3 DEF ToAction
  <2> QED
    BY <2>2, <2>3 DEF Actions
<1>4. CASE name = "think"
  BY <1>1, <1>4 DEF ToAction
<1> QED
  BY <1>2, <1>3, <1>4

LEMMA StepOf ==
    ASSUME NEW b \in Actions, NEW w \in BOOLEAN, NEW r,
           r = [action |-> b, observed |-> FALSE, count |-> 0, posts |-> 0, approved |-> w]
    PROVE  r \in Steps /\ r.action = b
<1>1. 0 \in 0 .. MaxSteps
  BY HermesAssumption
<1> HIDE DEF Actions
<1> QED
  BY <1>1 DEF Steps

(* A restored session is the saved one with its call in hand. *)
LEMMA RestoredIsTyped ==
    ASSUME NEW q \in Continuations, NEW r,
           r = [NoStep EXCEPT !.action = [kind |-> "call", request |-> q.request], !.approved = TRUE]
    PROVE  /\ r \in Steps /\ r.action.kind = "call" /\ r.action.request = q.request
           /\ q.session \in Sessions /\ q.claims \in Seq(1 .. MaxTurns)
<1>1. /\ q.request \in Requests /\ q.session \in Sessions /\ q.claims \in Seq(1 .. MaxTurns)
  BY DEF Continuations
<1> DEFINE b == [kind |-> "call", request |-> q.request]
<1>2. b \in Actions
  BY <1>1 DEF Actions
<1>3. r = [action |-> b, observed |-> FALSE, count |-> 0, posts |-> 0, approved |-> TRUE]
  BY DEF NoStep
<1>4. b.kind = "call" /\ b.request = q.request
  OBVIOUS
<1> HIDE DEF b
<1>5. r \in Steps /\ r.action = b
  BY <1>2, <1>3, StepOf, Zenon
<1> QED
  BY <1>1, <1>4, <1>5

(* Nothing has been said when the run is hydrated. *)
LEMMA InitHistory == Init => HistoryInv
<1> SUFFICES ASSUME Init PROVE HistoryInv
  OBVIOUS
<1>1. NoStep \in Steps
  BY Shapes, StepOf DEF NoStep
<1>2. TypeOK
  <2>1. <<>> \in Seq(1 .. MaxTurns)
    OBVIOUS
  <2>2. session \in Sessions /\ saved \in Continuations /\ claims \in Seq(1 .. MaxTurns)
    BY <2>1, Shapes DEF Init
  <2>3. step \in Steps
    BY <1>1 DEF Init
  <2>4. pc \in Working /\ attempts \subseteq Requests /\ conflicted \in BOOLEAN
    BY DEF Init, Working
  <2>5. turns \in 0 .. MaxTurns /\ faults \in 0 .. MaxFaults
    BY HermesAssumption DEF Init
  <2> QED
    BY <2>2, <2>3, <2>4, <2>5 DEF TypeOK
<1>3. Tidy(session, turns) /\ Tidy(saved.session, turns)
  BY NewIsTidy DEF Init, NoContinuation
<1>4. step.action.kind # "claim"
  BY DEF Init, NoStep, Think
<1>5. NothingOpen
  BY DEF Init, NothingOpen, NewSession
<1> QED
  BY <1>2, <1>3, <1>4, <1>5 DEF HistoryInv

(* A turn: the model answers. *)
LEMMA ReplyHistory ==
    ASSUME HistoryInv, NEW name \in {"think", "claim", "finish", "read", "effect"},
           NEW a \in Args, NEW n \in 0 .. 2, Reply(name, a, n)
    PROVE  HistoryInv'
<1>1. /\ pc = "post" /\ pc' = "dispose" /\ turns < MaxTurns /\ turns' = turns + 1
      /\ UNCHANGED <<claims, saved, attempts, conflicted, faults>>
  BY DEF Reply
<1>2. /\ session \in Sessions /\ session.started /\ session.pending = NoPending
      /\ Tidy(session, turns) /\ turns \in Nat /\ step \in Steps
      /\ saved \in Continuations /\ saved.session \in Sessions /\ Tidy(saved.session, turns)
  BY <1>1, HermesAssumption DEF HistoryInv, TypeOK, NothingOpen, Continuations
<1>3. PICK r, w : r = session' /\ w = step'
  OBVIOUS
<1>4. /\ r \in Sessions /\ Tidy(r, turns + 1) /\ w \in Steps
      /\ w.action.kind # "call" => r.pending = NoPending
  <2>1. CASE n = 0
    <3>1. r = [session EXCEPT !.history = Append(@, Assistant(<<>>)), !.cursor = @ + 1]
          /\ w = [step EXCEPT !.action = Think]
      BY <2>1, <1>3 DEF Reply
    <3> QED
      BY <3>1, <1>2, SaidTidy, StepIsTyped, Shapes
  <2>2. CASE n # 0
    <3> DEFINE action == ToAction(session, name, a)
    <3>1. w = [step EXCEPT !.action = action]
      BY <2>2, <1>3 DEF Reply
    <3>2. \E second \in {<<turns + 1, 2>>, NoId} :
             session' = Taken(session, IF n = 1 THEN <<<<turns + 1, 1>>>>
                                       ELSE <<<<turns + 1, 1>>, second>>, action)
      BY <2>2 DEF Reply
    <3>3. PICK ids : /\ r = Taken(session, ids, action)
                     /\ \/ ids = <<<<turns + 1, 1>>>>
                        \/ \E b \in {<<turns + 1, 2>>, NoId} : ids = <<<<turns + 1, 1>>, b>>
      BY <3>2, <1>3
    <3>4. session.index + 1 \in 1 .. MaxTurns
      BY SMTT(60), <1>1, <1>2, SessionFields, HermesAssumption DEF Tidy
    <3>5. action \in Actions
      BY <3>4, <1>2, ActionsAreTyped
    <3> HIDE DEF action
    <3>6. r \in Sessions /\ Tidy(r, turns + 1) /\ (action.kind # "call" => r.pending = NoPending)
      BY <3>3, <1>1, <1>2, TakenTidy
    <3>7. w \in Steps /\ w.action = action
      BY <3>1, <3>5, <1>2, StepIsTyped
    <3> QED
      BY <3>6, <3>7
  <2> QED
    BY SMTT(60), <2>1, <2>2
<1>5. TypeOK'
  <2>1. turns + 1 \in 0 .. MaxTurns
    BY <1>1, <1>2, HermesAssumption
  <2> QED
    BY <2>1, <1>1, <1>3, <1>4 DEF HistoryInv, TypeOK, Working
<1>6. Tidy(session, turns)'
  BY <1>1, <1>3, <1>4, TidyNext
<1>7. Tidy(saved.session, turns)'
  <2>1. Tidy(saved.session, turns + 1)
    BY <1>2, TidyStays
  <2> QED
    BY <2>1, <1>1, TidySaved
<1>8. NothingOpen'
  BY <1>1, <1>3, <1>4 DEF NothingOpen
<1>9. turns' >= 1
  BY <1>1, <1>2
<1> QED
  BY <1>5, <1>6, <1>7, <1>8, <1>9 DEF HistoryInv

(* A step that leaves both conversations alone leaves them in order. *)
LEMMA HistoryKept ==
    ASSUME HistoryInv, UNCHANGED <<session, saved, turns>>
    PROVE  Tidy(session, turns)' /\ Tidy(saved.session, turns)'
<1>1. Tidy(session, turns) /\ Tidy(saved.session, turns)
  BY DEF HistoryInv
<1> QED
  BY <1>1, TidyNext, TidySaved

(* An invocation that is gone leaves an empty session behind. *)
LEMMA AbandonHistory ==
    ASSUME HistoryInv, Abandon, UNCHANGED <<saved, turns, attempts>>,
           conflicted' \in BOOLEAN, faults' \in 0 .. MaxFaults
    PROVE  HistoryInv'
<1>1. turns \in Nat /\ saved \in Continuations /\ turns \in 0 .. MaxTurns /\ attempts \subseteq Requests
  BY HermesAssumption DEF HistoryInv, TypeOK
<1>2. pc' = "pending" /\ session' = NewSession /\ claims' = <<>> /\ step' = NoStep
  BY DEF Abandon
<1>3. Tidy(NewSession, turns) /\ Tidy(saved.session, turns)
  BY <1>1, NewIsTidy DEF HistoryInv
<1>4. Tidy(session, turns)' /\ Tidy(saved.session, turns)'
  BY <1>2, <1>3, TidyNext, TidySaved
<1>5. NoStep \in Steps /\ NoStep.action = Think
  BY Shapes, StepOf DEF NoStep
<1>6. NothingOpen'
  BY <1>2 DEF NothingOpen
<1>7. TypeOK'
  <2>1. <<>> \in Seq(1 .. MaxTurns)
    OBVIOUS
  <2> QED
    BY <1>1, <1>2, <1>5, <2>1, Shapes DEF TypeOK
<1>8. step'.action.kind # "claim"
  BY <1>2, <1>5 DEF Think
<1> QED
  BY <1>4, <1>6, <1>7, <1>8 DEF HistoryInv

(* A run that goes on from its continuation has the saved conversation. *)
LEMMA ResumedHistory ==
    ASSUME HistoryInv, Resumed, UNCHANGED <<saved, attempts, turns, conflicted, faults>>
    PROVE  HistoryInv'
<1>1. TypeOK /\ Tidy(saved.session, turns) /\ saved \in Continuations
  BY DEF HistoryInv, TypeOK
<1>2. session' = saved.session /\ claims' = saved.claims /\ pc' = "dispose"
  BY DEF Resumed
<1>3. /\ step' \in Steps /\ step'.action.kind = "call"
      /\ saved.session \in Sessions /\ saved.claims \in Seq(1 .. MaxTurns)
  <2>1. step' = [NoStep EXCEPT !.action = [kind |-> "call", request |-> saved.request],
                    !.approved = TRUE]
    BY DEF Resumed
  <2>2. PICK r : r = step'
    OBVIOUS
  <2>3. PICK q : q = saved
    OBVIOUS
  <2>4. r = [NoStep EXCEPT !.action = [kind |-> "call", request |-> q.request], !.approved = TRUE]
    BY <2>1, <2>2, <2>3
  <2>5. q \in Continuations
    BY <1>1, <2>3
  <2> QED
    BY <2>2, <2>3, <2>4, <2>5, RestoredIsTyped, Zenon
<1>4. TypeOK'
  BY <1>1, <1>2, <1>3 DEF TypeOK, Working
<1>5. Tidy(session, turns)' /\ Tidy(saved.session, turns)'
  BY <1>1, <1>2, TidyNext, TidySaved
<1>6. NothingOpen'
  BY <1>2, <1>3 DEF NothingOpen
<1> QED
  BY <1>3, <1>4, <1>5, <1>6 DEF HistoryInv

(* The conversations stay in order: one case per action. *)
LEMMA NextHistory == HistoryInv /\ [Next]_vars => HistoryInv'
<1> SUFFICES ASSUME HistoryInv, [Next]_vars PROVE HistoryInv'
  OBVIOUS
<1>0. /\ session \in Sessions /\ step \in Steps /\ saved \in Continuations /\ turns \in Nat
      /\ TypeOK /\ NothingOpen /\ Tidy(session, turns) /\ Tidy(saved.session, turns)
  BY HermesAssumption DEF HistoryInv, TypeOK
<1>1. CASE BeginStep
  <2>1. /\ pc = "step" /\ step.count < MaxSteps /\ pc' = "post"
        /\ UNCHANGED <<claims, saved, attempts, turns, conflicted, faults>>
    BY <1>1 DEF BeginStep
  <2>2. PICK r, w : r = session' /\ w = step'
    OBVIOUS
  <2>3. r = Heard(session, step.observed)
        /\ w = [step EXCEPT !.count = @ + 1, !.observed = FALSE, !.posts = 0]
    BY <1>1, <2>2 DEF BeginStep
  <2>4. step.observed \in BOOLEAN /\ (step.observed \/ session.pending = NoPending)
    BY <1>0, <2>1 DEF NothingOpen, Steps
  <2>5. turns \in 0 .. MaxTurns
    BY <1>0 DEF TypeOK
  <2>6. r \in Sessions /\ Tidy(r, turns) /\ r.started /\ r.pending = NoPending
    BY SMTT(60), <1>0, <2>3, <2>4, <2>5, HeardTidy
  <2>7. w \in Steps /\ w.action = step.action
    BY <1>0, <2>1, <2>3, StepIsTyped
  <2>8. TypeOK'
    BY <1>0, <2>1, <2>2, <2>6, <2>7 DEF TypeOK, Working
  <2>9. Tidy(session, turns)' /\ Tidy(saved.session, turns)'
    BY <1>0, <2>1, <2>2, <2>6, TidyNext, TidySaved
  <2>10. NothingOpen'
    BY <2>1, <2>2, <2>6 DEF NothingOpen
  <2> QED
    BY <2>1, <2>2, <2>7, <2>8, <2>9, <2>10 DEF HistoryInv
<1>2. CASE Turn
  BY <1>2, ReplyHistory DEF Turn
<1>3. CASE PostTimesOut
  <2>1. /\ pc = "post" /\ step' = [step EXCEPT !.posts = 1]
        /\ UNCHANGED <<session, pc, claims, saved, attempts, turns, conflicted, faults>>
    BY <1>3 DEF PostTimesOut
  <2>2. PICK w : w = step'
    OBVIOUS
  <2>3. w \in Steps /\ w.action = step.action
    BY <1>0, <2>1, <2>2, StepIsTyped
  <2>4. TypeOK'
    BY <1>0, <2>1, <2>2, <2>3 DEF TypeOK
  <2>5. NothingOpen'
    BY <1>0, <2>1 DEF NothingOpen
  <2> QED
    BY <2>1, <2>2, <2>3, <2>4, <2>5, HistoryKept DEF HistoryInv
<1>4. CASE PostRaises \/ TooManySteps \/ FinishRun \/ Park
  <2>1. /\ pc' \in {"crashed", "verify", "save"}
        /\ UNCHANGED <<session, step, claims, saved, turns, conflicted, faults>>
    BY <1>4 DEF PostRaises, TooManySteps, FinishRun, Park
  <2>2. attempts' \subseteq Requests
    <3>1. CASE Park
      <4>1. attempts' = attempts \cup {step.action.request}
        BY <3>1 DEF Park
      <4>2. step.action.request \in Requests
        BY <1>0 DEF Steps, Actions
      <4> QED
        BY <4>1, <4>2, <1>0 DEF TypeOK
    <3>2. CASE ~Park
      <4>1. attempts' = attempts
        BY <1>4, <3>2 DEF PostRaises, TooManySteps, FinishRun
      <4> QED
        BY <4>1, <1>0 DEF TypeOK
    <3> QED
      BY <3>1, <3>2
  <2>3. TypeOK'
    BY <1>0, <2>1, <2>2 DEF TypeOK, Working, Ended
  <2>4. NothingOpen'
    BY <2>1 DEF NothingOpen
  <2> QED
    BY <2>1, <2>3, <2>4, HistoryKept DEF HistoryInv
<1>5. CASE Note
  <2>1. /\ pc = "dispose" /\ step.action.kind = "think" /\ pc' = "step"
        /\ UNCHANGED <<session, step, claims, saved, attempts, turns, conflicted, faults>>
    BY <1>5 DEF Note
  <2>2. TypeOK'
    BY <1>0, <2>1 DEF TypeOK, Working
  <2>3. NothingOpen'
    BY <1>0, <2>1 DEF NothingOpen
  <2> QED
    BY <2>1, <2>2, <2>3, HistoryKept DEF HistoryInv
<1>6. CASE ClaimFacts
  <2>1. /\ pc = "dispose" /\ step.action.kind = "claim" /\ pc' = "step"
        /\ claims' = Append(claims, turns) /\ step' = [step EXCEPT !.action = Think]
        /\ UNCHANGED <<session, saved, attempts, turns, conflicted, faults>>
    BY SMTT(60), <1>6 DEF ClaimFacts
  <2>2. PICK w : w = step'
    OBVIOUS
  <2>3. w \in Steps /\ w.action = Think
    BY <1>0, <2>1, <2>2, StepIsTyped, Shapes
  <2>4. claims' \in Seq(1 .. MaxTurns)
    <3>1. turns \in 1 .. MaxTurns
      BY <2>1, HermesAssumption DEF HistoryInv, TypeOK
    <3>2. claims \in Seq(1 .. MaxTurns)
      BY <1>0 DEF TypeOK
    <3> QED
      BY <2>1, <3>1, <3>2, AppendProperties
  <2>5. TypeOK'
    BY <1>0, <2>1, <2>2, <2>3, <2>4 DEF TypeOK, Working
  <2>6. NothingOpen'
    BY <1>0, <2>1 DEF NothingOpen
  <2>7. step'.action.kind # "claim"
    BY <2>2, <2>3 DEF Think
  <2> QED
    BY <2>1, <2>5, <2>6, <2>7, HistoryKept DEF HistoryInv
<1>7. CASE Fulfil
  <2>1. /\ pc = "dispose" /\ pc' = "step"
        /\ attempts' = attempts \cup {step.action.request}
        /\ step' = [step EXCEPT !.action = Think, !.observed = TRUE, !.approved = FALSE]
        /\ UNCHANGED <<session, claims, saved, turns, conflicted, faults>>
    BY SMTT(60), <1>7 DEF Fulfil
  <2>2. PICK w : w = step'
    OBVIOUS
  <2>3. w \in Steps /\ w.action = Think /\ w.observed
    BY <1>0, <2>1, <2>2, StepIsTyped
  <2>4. step.action.request \in Requests
    BY <1>0 DEF Steps, Actions
  <2>5. TypeOK'
    BY <1>0, <2>1, <2>2, <2>3, <2>4 DEF TypeOK, Working
  <2>6. NothingOpen'
    BY <2>1, <2>2, <2>3 DEF NothingOpen
  <2>7. step'.action.kind # "claim"
    BY <2>2, <2>3 DEF Think
  <2> QED
    BY <2>1, <2>5, <2>6, <2>7, HistoryKept DEF HistoryInv
<1>8. CASE Clash
  <2>1. /\ Abandon /\ conflicted' \in BOOLEAN /\ faults' \in 0 .. MaxFaults
        /\ UNCHANGED <<saved, turns, attempts>>
    BY <1>8, <1>0 DEF Clash, TypeOK
  <2> QED
    BY <2>1, AbandonHistory
<1>9. CASE SaveContinuation
  <2>1. /\ pc' = "parked" /\ UNCHANGED <<session, step, claims, attempts, turns, conflicted, faults>>
        /\ saved' = [exists |-> TRUE, session |-> session, claims |-> claims,
                     request |-> step.action.request]
    BY <1>9 DEF SaveContinuation
  <2>2. step.action.request \in Requests /\ claims \in Seq(1 .. MaxTurns)
    BY <1>0 DEF Steps, Actions, TypeOK
  <2>3. saved' \in Continuations /\ saved'.session = session
    <3> DEFINE request == step.action.request
    <3>1. request \in Requests /\ saved' = [exists |-> TRUE, session |-> session,
                                           claims |-> claims, request |-> request]
      BY <2>1, <2>2
    <3> HIDE DEF request
    <3> QED
      BY <1>0, <2>2, <3>1 DEF Continuations
  <2>4. TypeOK'
    BY <1>0, <2>1, <2>3 DEF TypeOK
  <2>5. Tidy(session, turns)' /\ Tidy(saved.session, turns)'
    BY <1>0, <2>1, <2>3, TidyNext, TidySaved
  <2>6. NothingOpen'
    BY <2>1 DEF NothingOpen
  <2> QED
    BY <2>1, <2>4, <2>5, <2>6 DEF HistoryInv
<1>10. CASE Verify
  <2>1. /\ pc' \in {"crashed", "settled"} /\ (saved' = saved \/ saved' = NoContinuation)
        /\ UNCHANGED <<session, step, claims, attempts, turns, conflicted, faults>>
    BY <1>10 DEF Verify
  <2>2. saved' \in Continuations /\ (saved' = saved \/ saved'.session = NewSession)
    <3>1. NoContinuation.session = NewSession
      BY DEF NoContinuation
    <3> QED
      BY <1>0, <2>1, <3>1, Shapes
  <2>3. TypeOK'
    BY <1>0, <2>1, <2>2 DEF TypeOK, Ended
  <2>4. Tidy(session, turns)' /\ Tidy(saved.session, turns)'
    BY <1>0, <2>1, <2>2, NewIsTidy, TidyNext, TidySaved
  <2>5. NothingOpen'
    BY <2>1 DEF NothingOpen
  <2> QED
    BY <2>1, <2>3, <2>4, <2>5 DEF HistoryInv
<1>11. CASE Resume
  BY <1>11, ResumedHistory DEF Resume
<1>12. CASE Reclaim /\ saved.exists
  BY <1>12, ResumedHistory DEF Reclaim
<1>13. CASE Reclaim /\ ~saved.exists
  <2>1. /\ pc = "pending" /\ pc' = "step"
        /\ UNCHANGED <<session, step, claims, saved, attempts, turns, conflicted, faults>>
    BY <1>13 DEF Reclaim
  <2>2. TypeOK'
    BY <1>0, <2>1 DEF TypeOK, Working
  <2>3. session.pending = NoPending
    BY <1>0, <2>1 DEF NothingOpen, NewSession
  <2>4. NothingOpen'
    BY <2>1, <2>3 DEF NothingOpen
  <2> QED
    BY <2>1, <2>2, <2>4, HistoryKept DEF HistoryInv
<1>14. CASE Fault
  <2>1. faults' \in 0 .. MaxFaults
    BY <1>0, <1>14, HermesAssumption DEF Fault, TypeOK
  <2>2. Abandon /\ conflicted' \in BOOLEAN /\ UNCHANGED <<saved, turns, attempts>>
    BY <1>0, <1>14 DEF Fault, TypeOK
  <2> QED
    BY <2>1, <2>2, AbandonHistory
<1>15. CASE UNCHANGED vars
  <2>1. UNCHANGED <<session, pc, step, claims, saved, attempts, turns, conflicted, faults>>
    BY <1>15 DEF vars
  <2>2. TypeOK' /\ NothingOpen'
    BY <1>0, <2>1 DEF TypeOK, NothingOpen
  <2> QED
    BY <2>1, <2>2, HistoryKept DEF HistoryInv
<1> QED
  BY <1>1, <1>2, <1>3, <1>4, <1>5, <1>6, <1>7, <1>8, <1>9, <1>10, <1>11, <1>12, <1>13, <1>14, <1>15
     DEF Next, Drive

(* The conversations are in order in every reachable state. *)
LEMMA HistoryInvariance == Spec => []HistoryInv
BY InitHistory, NextHistory, PTL DEF Spec

(* Every variable of the session, its loop, its continuation and its keys keeps  *)
(* its type, for any arguments and any number of steps, turns and faults.       *)
THEOREM TypeCorrect == Spec => []TypeOK
<1>1. HistoryInv => TypeOK
  BY DEF HistoryInv
<1> QED
  BY <1>1, HistoryInvariance, PTL

(* Whatever the model asks for, with or without ids, and wherever the run parks   *)
(* and is resumed, every tool call in the history has exactly one answer when the *)
(* history is posted (HermesSession.step and its acknowledgements).            *)
THEOREM HistoriesAreAnswered == Spec => []PostedHistoryIsAnswered
<1>1. HistoryInv => PostedHistoryIsAnswered
  <2> SUFFICES ASSUME HistoryInv, pc = "post", NEW id \in Asked(session.history)
               PROVE  Answers(session.history, id) = 1
    BY DEF PostedHistoryIsAnswered
  <2>1. session.history \in Seq(Messages) /\ turns \in 0 .. MaxTurns
    BY SessionFields DEF HistoryInv, TypeOK
  <2>2. Answered(session.history, {NoPending}, turns)
    BY DEF HistoryInv, NothingOpen, Tidy
  <2>3. id # NoPending
    BY <2>1, <2>2, AskedWasSaid, SaidIds
  <2> QED
    BY <2>2, <2>3 DEF Answered
<1> QED
  BY <1>1, HistoryInvariance, PTL

----------------------------------------------------------------------------
(* The claims. *)

(* What is appended to a sequence keeps what it begins with. *)
LEMMA PrefixGrows ==
    ASSUME NEW S, NEW s \in Seq(S), NEW t \in Seq(S), NEW x \in S
    PROVE  /\ IsPrefix(t, t)
           /\ IsPrefix(s, t) => IsPrefix(s, Append(t, x))
<1>1. IsPrefix(t, t)
  BY LenProperties DEF IsPrefix
<1>2. ASSUME IsPrefix(s, t) PROVE IsPrefix(s, Append(t, x))
  <2>1. Len(s) \in Nat /\ Len(t) \in Nat /\ Len(s) <= Len(t)
    BY <1>2, LenProperties DEF IsPrefix
  <2>2. SubSeq(t, 1, Len(s)) = SubSeq(Append(t, x), 1, Len(s))
    <3>1. Append(t, x) \in Seq(S) /\ Len(Append(t, x)) = Len(t) + 1
      BY AppendProperties
    <3>2. \A n \in 1 .. Len(s) : Append(t, x)[n] = t[n]
      BY <2>1, AppendProperties
    <3> QED
      BY <2>1, <3>1, <3>2, SubSeqProperties
  <2> QED
    BY <1>2, <2>1, <2>2, AppendProperties DEF IsPrefix
<1> QED
  BY <1>1, <1>2

(* A claim of a later turn than any other goes behind them all. *)
LEMMA ClaimsAppend ==
    ASSUME NEW s \in Seq(1 .. MaxTurns), NEW t \in 1 .. MaxTurns, Increasing(s),
           \A n \in DOMAIN s : s[n] < t
    PROVE  /\ Increasing(Append(s, t))
           /\ \A n \in DOMAIN Append(s, t) : Append(s, t)[n] <= t
<1> DEFINE g == Append(s, t)
<1>1. /\ Len(s) \in Nat /\ DOMAIN s = 1 .. Len(s) /\ DOMAIN g = 1 .. (Len(s) + 1)
      /\ g[Len(s) + 1] = t /\ \A n \in 1 .. Len(s) : g[n] = s[n] /\ s[n] \in 1 .. MaxTurns
  <2>1. Len(s) \in Nat /\ DOMAIN s = 1 .. Len(s)
    BY LenProperties
  <2>2. g \in Seq(1 .. MaxTurns) /\ Len(g) = Len(s) + 1
    BY AppendProperties
  <2>3. DOMAIN g = 1 .. (Len(s) + 1)
    BY <2>2, LenProperties
  <2>4. \A n \in 1 .. Len(s) : g[n] = s[n]
    BY AppendProperties
  <2>5. g[Len(s) + 1] = t
    BY AppendProperties
  <2>6. \A n \in 1 .. Len(s) : s[n] \in 1 .. MaxTurns
    BY ElementOfSeq
  <2> QED
    BY <2>1, <2>3, <2>4, <2>5, <2>6
<1> HIDE DEF g
<1>2. \A n \in DOMAIN g : n = Len(s) + 1 \/ n \in DOMAIN s
  BY <1>1
<1>3. ASSUME NEW m \in DOMAIN g, NEW n \in DOMAIN g, m < n PROVE g[m] < g[n]
  BY <1>1, <1>2, <1>3 DEF Increasing
<1>4. \A n \in DOMAIN g : g[n] <= t
  BY <1>1, <1>2
<1> QED
  BY <1>3, <1>4 DEF Increasing, g

(* A claim is the number of the turn that made it. *)
LEMMA ClaimsAreTurns ==
    ASSUME NEW s \in Seq(1 .. MaxTurns)
    PROVE  \A n \in DOMAIN s : s[n] \in Nat
<1>1. DOMAIN s = 1 .. Len(s)
  BY LenProperties
<1>2. \A n \in 1 .. Len(s) : s[n] \in 1 .. MaxTurns
  BY ElementOfSeq
<1> QED
  BY <1>1, <1>2, HermesAssumption

(* What no step of the claims touches. *)
LEMMA ClaimsKept ==
    ASSUME ClaimsInv, UNCHANGED <<claims, saved, turns>>, pc' # "parked" \/ pc = "parked",
           pc # "pending" \/ pc' = "pending",
           pc' = "dispose" => step'.action.kind # "claim"
             \/ (pc = "dispose" /\ step.action.kind = "claim")
    PROVE  ClaimsInv'
BY DEF ClaimsInv, Increasing

(* The claims of an empty run, and of one that goes on from its continuation. *)
LEMMA NoClaims == Increasing(<<>>) /\ DOMAIN <<>> = {}
BY DEF Increasing

LEMMA AbandonClaims ==
    ASSUME ClaimsInv, Abandon, UNCHANGED <<saved, turns>>
    PROVE  ClaimsInv'
BY NoClaims DEF ClaimsInv, Abandon, Increasing

LEMMA ResumedClaims ==
    ASSUME HistoryInv, ClaimsInv, Resumed, UNCHANGED <<saved, turns>>
    PROVE  ClaimsInv'
<1>1. saved.claims \in Seq(1 .. MaxTurns)
  BY DEF HistoryInv, TypeOK, Continuations
<1>2. pc' = "dispose" /\ claims' = saved.claims /\ step'.action.kind = "call"
  BY DEF Resumed, NoStep
<1>3. IsPrefix(saved.claims, saved.claims)
  BY <1>1, LenProperties DEF IsPrefix
<1>4. IsPrefix(saved.claims, claims)'
  BY <1>2, <1>3 DEF IsPrefix
<1> QED
  BY <1>2, <1>4 DEF ClaimsInv, Increasing

(* Claims are of turns so far, the saved ones the first of them: one case per     *)
(* action.                                                                  *)
LEMMA NextClaims == HistoryInv /\ ClaimsInv /\ [Next]_vars => ClaimsInv'
<1> SUFFICES ASSUME HistoryInv, ClaimsInv, [Next]_vars PROVE ClaimsInv'
  OBVIOUS
<1>0. /\ claims \in Seq(1 .. MaxTurns) /\ saved.claims \in Seq(1 .. MaxTurns)
      /\ turns \in Nat /\ turns \in 0 .. MaxTurns
  BY HermesAssumption DEF HistoryInv, TypeOK, Continuations
<1>1. CASE Turn
  <2>1. /\ pc = "post" /\ pc' = "dispose" /\ turns' = turns + 1
        /\ UNCHANGED <<claims, saved>>
    BY <1>1 DEF Turn, Reply
  <2>2. \A n \in DOMAIN claims : claims[n] \in Nat /\ claims[n] <= turns
    BY <1>0, ClaimsAreTurns DEF ClaimsInv
  <2>3. \A n \in DOMAIN saved.claims : saved.claims[n] \in Nat /\ saved.claims[n] <= turns
    BY <1>0, ClaimsAreTurns DEF ClaimsInv
  <2>4. /\ \A n \in DOMAIN claims : claims[n] < turns + 1 /\ claims[n] <= turns + 1
        /\ \A n \in DOMAIN saved.claims : saved.claims[n] <= turns + 1
    BY <1>0, <2>2, <2>3
  <2> QED
    BY <2>1, <2>4 DEF ClaimsInv, Increasing
<1>2. CASE ClaimFacts
  <2>1. /\ pc = "dispose" /\ step.action.kind = "claim" /\ pc' = "step"
        /\ claims' = Append(claims, turns) /\ UNCHANGED <<saved, turns>>
    BY <1>2 DEF ClaimFacts
  <2>2. turns \in 1 .. MaxTurns
    BY <2>1, <1>0, HermesAssumption DEF HistoryInv
  <2>3. Increasing(claims) /\ \A n \in DOMAIN claims : claims[n] < turns
    BY <2>1 DEF ClaimsInv
  <2>4. /\ Increasing(Append(claims, turns))
        /\ \A n \in DOMAIN Append(claims, turns) : Append(claims, turns)[n] <= turns
    BY <1>0, <2>2, <2>3, ClaimsAppend
  <2>5. saved.exists => IsPrefix(saved.claims, Append(claims, turns))
    BY <1>0, <2>1, <2>2, PrefixGrows DEF ClaimsInv
  <2>6. PICK c : c = claims'
    OBVIOUS
  <2>7. /\ Increasing(c) /\ \A n \in DOMAIN c : c[n] <= turns
        /\ saved.exists => IsPrefix(saved.claims, c)
    BY <2>1, <2>4, <2>5, <2>6
  <2>8. (saved.exists => IsPrefix(saved.claims, claims))'
    BY <2>1, <2>6, <2>7 DEF IsPrefix
  <2> QED
    BY <2>1, <2>6, <2>7, <2>8 DEF ClaimsInv, Increasing
<1>3. CASE SaveContinuation
  <2>1. /\ pc = "save" /\ pc' = "parked" /\ saved'.claims = claims
        /\ UNCHANGED <<claims, turns>>
    BY <1>3 DEF SaveContinuation
  <2>2. IsPrefix(claims, claims)
    BY <1>0, LenProperties DEF IsPrefix
  <2>3. IsPrefix(saved.claims, claims)'
    BY <2>1, <2>2 DEF IsPrefix
  <2> QED
    BY <2>1, <2>3 DEF ClaimsInv, Increasing
<1>4. CASE Verify
  <2>1. /\ pc' \in {"crashed", "settled"} /\ (saved' = saved \/ saved' = NoContinuation)
        /\ pc = "verify" /\ UNCHANGED <<claims, turns>>
    BY <1>4 DEF Verify
  <2>2. CASE saved' = saved
    BY <2>1, <2>2, ClaimsKept
  <2>3. CASE saved' = NoContinuation
    <3>1. ~saved'.exists /\ saved'.claims = <<>>
      BY <2>3 DEF NoContinuation
    <3> QED
      BY <2>1, <3>1, NoClaims DEF ClaimsInv, Increasing
  <2> QED
    BY <2>1, <2>2, <2>3
<1>5. CASE Resume \/ (Reclaim /\ saved.exists)
  BY <1>5, ResumedClaims DEF Resume, Reclaim
<1>6. CASE Reclaim /\ ~saved.exists
  <2>1. /\ pc = "pending" /\ pc' = "step" /\ ~saved.exists
        /\ UNCHANGED <<claims, saved, turns>>
    BY <1>6 DEF Reclaim
  <2> QED
    BY <2>1 DEF ClaimsInv, Increasing
<1>7. CASE Clash \/ Fault
  BY <1>7, AbandonClaims DEF Clash, Fault
<1>8. CASE BeginStep \/ PostTimesOut \/ PostRaises \/ TooManySteps \/ Note \/ FinishRun
             \/ Fulfil \/ Park
  <2>1. /\ UNCHANGED <<claims, saved, turns>> /\ pc' # "parked" /\ pc # "pending"
        /\ pc' # "dispose"
    BY <1>8 DEF BeginStep, PostTimesOut, PostRaises, TooManySteps, Note, FinishRun, Fulfil, Park
  <2> QED
    BY <2>1, ClaimsKept
<1>9. CASE UNCHANGED vars
  <2>1. UNCHANGED <<pc, step, claims, saved, turns>>
    BY <1>9 DEF vars
  <2> QED
    BY <2>1, ClaimsKept
<1> QED
  BY <1>1, <1>2, <1>3, <1>4, <1>5, <1>6, <1>7, <1>8, <1>9 DEF Next, Drive

(* A park loses no claim of a model-driven run and no resumption repeats one        *)
(* (RunContinuation.claims): they stay in the order of the turns that made them.  *)
THEOREM ParksKeepTheClaims == Spec => []ClaimsSurviveParks
<1>1. Init => ClaimsInv
  BY NoClaims DEF Init, ClaimsInv, NoContinuation, NoStep, Think
<1>2. ClaimsInv => ClaimsSurviveParks
  BY DEF ClaimsInv, ClaimsSurviveParks, Increasing
<1> QED
  BY <1>1, <1>2, NextClaims, HistoryInvariance, PTL DEF Spec
=============================================================================
