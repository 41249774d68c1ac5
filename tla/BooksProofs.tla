----------------------------- MODULE BooksProofs -----------------------------
(***************************************************************************)
(* The books-prep mandate for any batches, documents, statements and        *)
(* failures: once a batch has settled every row of its documents is         *)
(* accounted for, and the heap holds a transaction once.                    *)
(***************************************************************************)
EXTENDS BooksRun, SequenceTheorems, FiniteSetTheorems, WellFoundedInduction, TLAPS

-----------------------------------------------------------------------------
(* Induction over the naturals, for sets of naturals *)

LEMMA LeastNat ==
    ASSUME NEW S \in SUBSET Nat, S # {}
    PROVE  \E n \in S : \A m \in S : n <= m
<1> DEFINE R == OpToRel(<, Nat)
<1>1. IsWellFoundedOn(R, Nat)
  BY NatLessThanWellFounded
<1>2. \A x, y \in Nat : <<y, x>> \in R <=> y < x
  BY DEF OpToRel
<1> HIDE DEF R
<1>3. \E x \in S : \A y \in S : ~ (<<y, x>> \in R)
  BY <1>1, WFMin
<1>4. PICK n \in S : \A m \in S : ~ (<<m, n>> \in R)
  BY <1>3
<1>5. \A m \in S : m \in Nat /\ n \in Nat /\ ~ (m < n)
  BY <1>2, <1>4
<1> QED
  BY <1>5

LEMMA Induct ==
    ASSUME NEW S, 0 \in S, \A n \in Nat : n \in S => n + 1 \in S
    PROVE  \A n \in Nat : n \in S
<1> SUFFICES ASSUME Nat \ S # {} PROVE FALSE
  OBVIOUS
<1>1. PICK n \in Nat \ S : \A m \in Nat \ S : n <= m
  BY LeastNat
<1>2. n # 0 /\ n - 1 \in Nat /\ ~ (n <= n - 1)
  BY <1>1
<1>3. n - 1 \in S
  BY <1>1, <1>2
<1>4. (n - 1) + 1 \in S
  BY <1>2, <1>3
<1> QED
  BY <1>1, <1>4

LEMMA InductTo ==
    ASSUME NEW N \in Nat, NEW S, 0 \in S, \A n \in 0 .. N - 1 : n \in S => n + 1 \in S
    PROVE  \A n \in 0 .. N : n \in S
<1> DEFINE T == {n \in Nat : n <= N => n \in S}
<1>1. 0 \in T
  OBVIOUS
<1>2. \A n \in Nat : n \in T => n + 1 \in T
  OBVIOUS
<1> HIDE DEF T
<1>3. \A n \in Nat : n \in T
  BY <1>1, <1>2, Induct
<1> QED
  BY <1>3 DEF T

-----------------------------------------------------------------------------
(* Sequences *)

(* The recursion of Kept has a solution, and Kept is its last value. *)
LEMMA KeptExists ==
    ASSUME NEW s, NEW places, Len(s) \in Nat
    PROVE  \E kept : /\ kept[0] = <<>>
                     /\ \A n \in 1 .. Len(s) :
                           kept[n] = IF n \in places THEN Append(kept[n - 1], s[n]) ELSE kept[n - 1]
                     /\ Kept(s, places) = kept[Len(s)]
<1> DEFINE Solves(g, n) ==
             g = [k \in 0 .. n |-> IF k = 0 THEN <<>>
                                   ELSE IF k \in places THEN Append(g[k - 1], s[k]) ELSE g[k - 1]]
           S == {n \in Nat : \E g : Solves(g, n)}
<1>1. 0 \in S
  <2> DEFINE g == [k \in 0 .. 0 |-> <<>>]
  <2>1. Solves(g, 0)
    OBVIOUS
  <2> QED
    BY <2>1
<1>2. ASSUME NEW n \in Nat, n \in S
      PROVE  n + 1 \in S
  <2>1. PICK g : Solves(g, n)
    BY <1>2
  <2> DEFINE h == [k \in 0 .. n + 1 |->
                     IF k <= n THEN g[k]
                     ELSE IF n + 1 \in places THEN Append(g[n], s[n + 1]) ELSE g[n]]
  <2>2. \A k \in 0 .. n + 1 :
           h[k] = IF k = 0 THEN <<>>
                  ELSE IF k \in places THEN Append(h[k - 1], s[k]) ELSE h[k - 1]
    <3> TAKE k \in 0 .. n + 1
    <3>1. CASE k = n + 1
      <4>1. k # 0 /\ ~ (k <= n) /\ k - 1 = n /\ n \in 0 .. n + 1 /\ k \in 0 .. n + 1
        BY <3>1
      <4>2. h[n] = g[n]
        BY <4>1
      <4>3. h[k] = IF n + 1 \in places THEN Append(g[n], s[n + 1]) ELSE g[n]
        BY <4>1
      <4> HIDE DEF h
      <4> QED
        BY <3>1, <4>1, <4>2, <4>3
    <3>2. CASE k <= n
      <4>1. k \in 0 .. n /\ \A j \in 0 .. n : h[j] = g[j]
        BY <3>2
      <4>2. k # 0 => k - 1 \in 0 .. n
        BY <3>2
      <4>3. g[k] = IF k = 0 THEN <<>>
                   ELSE IF k \in places THEN Append(g[k - 1], s[k]) ELSE g[k - 1]
        BY <2>1, <4>1
      <4> HIDE DEF h
      <4> QED
        BY <4>1, <4>2, <4>3
    <3> QED
      BY <3>1, <3>2
  <2>3. h = [k \in 0 .. n + 1 |-> h[k]]
    OBVIOUS
  <2> HIDE DEF h
  <2>4. Solves(h, n + 1)
    BY <2>2, <2>3
  <2>5. \E f : Solves(f, n + 1)
    BY <2>4
  <2> HIDE DEF Solves
  <2> QED
    BY <2>5
<1> HIDE DEF S
<1>3. \A n \in Nat : n \in S
  BY <1>1, <1>2, Induct
<1>4. \E g : Solves(g, Len(s))
  BY <1>3 DEF S
<1> DEFINE kept == CHOOSE g : Solves(g, Len(s))
<1>5. Solves(kept, Len(s))
  BY <1>4
<1>6. Kept(s, places) = kept[Len(s)]
  BY DEF Kept
<1> HIDE DEF kept
<1>7. kept[0] = <<>>
  BY <1>5
<1>8. ASSUME NEW n \in 1 .. Len(s)
      PROVE  kept[n] = IF n \in places THEN Append(kept[n - 1], s[n]) ELSE kept[n - 1]
  <2>1. n \in 0 .. Len(s) /\ n # 0
    OBVIOUS
  <2>2. kept[n] = IF n = 0 THEN <<>>
                  ELSE IF n \in places THEN Append(kept[n - 1], s[n]) ELSE kept[n - 1]
    BY <1>5, <2>1
  <2> QED
    BY <2>1, <2>2
<1> QED
  BY <1>6, <1>7, <1>8

LEMMA RangeOfAppend ==
    ASSUME NEW T, NEW s \in Seq(T), NEW x \in T
    PROVE  Range(Append(s, x)) = Range(s) \cup {x}
<1> DEFINE a == Append(s, x)
           L == Len(s)
<1>1. /\ L \in Nat /\ DOMAIN s = 1 .. L /\ DOMAIN a = 1 .. L + 1
      /\ a[L + 1] = x /\ \A i \in 1 .. L : a[i] = s[i]
  OBVIOUS
<1> HIDE DEF a, L
<1> QED
  BY <1>1 DEF Range, a

LEMMA RangeOfConcat ==
    ASSUME NEW T, NEW s \in Seq(T), NEW t \in Seq(T)
    PROVE  Range(s \o t) = Range(s) \cup Range(t)
<1> DEFINE c == s \o t
<1>1. /\ Len(s) \in Nat /\ Len(t) \in Nat
      /\ DOMAIN s = 1 .. Len(s) /\ DOMAIN t = 1 .. Len(t) /\ DOMAIN c = 1 .. Len(s) + Len(t)
      /\ \A i \in 1 .. Len(s) : c[i] = s[i]
      /\ \A i \in 1 .. Len(t) : c[Len(s) + i] = t[i]
  OBVIOUS
<1> HIDE DEF c
<1>2. \A i \in 1 .. Len(s) + Len(t) : i \in 1 .. Len(s) \/ (i - Len(s) \in 1 .. Len(t) /\ c[i] = t[i - Len(s)])
  BY <1>1
<1>3. \A i \in 1 .. Len(t) : Len(s) + i \in 1 .. Len(s) + Len(t)
  BY <1>1
<1>4. \A i \in 1 .. Len(s) : i \in 1 .. Len(s) + Len(t)
  BY <1>1
<1>5. ASSUME NEW x \in Range(c) PROVE x \in Range(s) \cup Range(t)
  <2>1. PICK i \in 1 .. Len(s) + Len(t) : x = c[i]
    BY <1>1 DEF Range
  <2> QED
    BY <1>1, <1>2, <2>1 DEF Range
<1>6. ASSUME NEW x \in Range(s) PROVE x \in Range(c)
  BY <1>1, <1>4 DEF Range
<1>7. ASSUME NEW x \in Range(t) PROVE x \in Range(c)
  <2>1. PICK i \in 1 .. Len(t) : x = t[i]
    BY <1>1 DEF Range
  <2>2. x = c[Len(s) + i]
    BY <1>1, <2>1
  <2> QED
    BY <1>1, <1>3, <2>2 DEF Range
<1> QED
  BY <1>5, <1>6, <1>7 DEF c

LEMMA RangeOfTail ==
    ASSUME NEW T, NEW s \in Seq(T), s # <<>>
    PROVE  Range(s) = {Head(s)} \cup Range(Tail(s))
<1> DEFINE first == <<Head(s)>>
           rest == Tail(s)
<1>1. rest \in Seq(T) /\ Head(s) \in T /\ s = first \o rest
  OBVIOUS
<1>2. first \in Seq(T)
  BY <1>1
<1>3. Range(first) = {Head(s)}
  BY <1>1 DEF Range
<1> HIDE DEF first, rest
<1>4. Range(first \o rest) = Range(first) \cup Range(rest)
  BY <1>1, <1>2, RangeOfConcat
<1>5. Range(s) = {Head(s)} \cup Range(rest)
  BY <1>1, <1>3, <1>4
<1> QED
  BY <1>5 DEF rest

(* Kept holds what stands at those places, and nothing else. *)
LEMMA KeptHolds ==
    ASSUME NEW T, NEW s \in Seq(T), NEW places
    PROVE  /\ Kept(s, places) \in Seq(T)
           /\ Range(Kept(s, places)) = {s[i] : i \in (DOMAIN s) \cap places}
<1> DEFINE L == Len(s)
<1>1. L \in Nat /\ DOMAIN s = 1 .. L
  OBVIOUS
<1>2. PICK kept : /\ kept[0] = <<>>
                  /\ \A n \in 1 .. L :
                        kept[n] = IF n \in places THEN Append(kept[n - 1], s[n]) ELSE kept[n - 1]
                  /\ Kept(s, places) = kept[L]
  BY <1>1, KeptExists
<1> DEFINE S == {n \in 0 .. L : /\ kept[n] \in Seq(T)
                                /\ Range(kept[n]) = {s[i] : i \in (1 .. n) \cap places}}
<1>3. 0 \in S
  <2>1. kept[0] \in Seq(T) /\ Range(kept[0]) = {}
    BY <1>2 DEF Range
  <2>2. 1 .. 0 = {}
    OBVIOUS
  <2> QED
    BY <1>1, <2>1, <2>2
<1>4. ASSUME NEW n \in 0 .. L - 1, n \in S
      PROVE  n + 1 \in S
  <2>1. /\ n + 1 \in 1 .. L /\ (n + 1) - 1 = n /\ s[n + 1] \in T
        /\ 1 .. n + 1 = (1 .. n) \cup {n + 1}
    BY <1>1
  <2>2. CASE n + 1 \in places
    <3>1. kept[n + 1] = Append(kept[n], s[n + 1])
      BY <1>2, <2>1, <2>2
    <3>2. kept[n + 1] \in Seq(T) /\ Range(kept[n + 1]) = Range(kept[n]) \cup {s[n + 1]}
      BY <1>4, <2>1, <3>1, RangeOfAppend
    <3> QED
      BY <1>1, <1>4, <2>1, <2>2, <3>2
  <2>3. CASE n + 1 \notin places
    <3>1. kept[n + 1] = kept[n]
      BY <1>2, <2>1, <2>3
    <3> QED
      BY <1>1, <1>4, <2>1, <2>3, <3>1
  <2> QED
    BY <2>2, <2>3
<1> HIDE DEF S
<1>5. \A n \in 0 .. L : n \in S
  BY <1>1, <1>3, <1>4, InductTo
<1>6. L \in 0 .. L
  BY <1>1
<1> QED
  BY <1>1, <1>2, <1>5, <1>6 DEF S

-----------------------------------------------------------------------------
(* Statements, ledgers and calls *)

LEMMA ExtractHolds == \A s \in Statements : Extract[s] \in Seq(Entry)
<1> TAKE s \in Statements
<1>1. s \in Seq(Entry)
  BY BooksAssumption
<1>2. Kept(s, {i \in DOMAIN s : s[i].dated}) \in Seq(Entry)
  BY <1>1, KeptHolds
<1> QED
  BY <1>2 DEF Extract

LEMMA TransactionsHold ==
    ASSUME files \in [Docs -> Statements], NEW d \in Docs
    PROVE  Transactions(d) \in Seq(Transaction)
<1> DEFINE rows == Extract[files[d]]
<1>1. Len(rows) \in Nat /\ DOMAIN rows = 1 .. Len(rows)
  BY ExtractHolds
<1> HIDE DEF rows
<1>2. \A i \in 1 .. Len(rows) : <<d, i>> \in Transaction
  BY <1>1 DEF Transaction
<1>3. Transactions(d) = [i \in 1 .. Len(rows) |-> <<d, i>>]
  BY <1>1 DEF Transactions, rows
<1> QED
  BY <1>1, <1>2, <1>3

LEMMA FreshHolds ==
    ASSUME NEW txns \in Seq(Transaction), NEW known
    PROVE  /\ Fresh(txns, known) \in Seq(Transaction)
           /\ Range(Fresh(txns, known)) = Range(txns) \ known
<1> DEFINE places == {i \in DOMAIN txns : txns[i] \notin known}
<1>1. /\ Kept(txns, places) \in Seq(Transaction)
      /\ Range(Kept(txns, places)) = {txns[i] : i \in (DOMAIN txns) \cap places}
  BY KeptHolds
<1>2. {txns[i] : i \in (DOMAIN txns) \cap places} = Range(txns) \ known
  BY DEF Range
<1> QED
  BY <1>1, <1>2 DEF Fresh

(* The ledger has a row for every transaction of the list. *)
LEMMA LedgerHolds ==
    ASSUME NEW txns \in Seq(Transaction)
    PROVE  /\ Ledger(txns) \in Seq(LedgerRow)
           /\ Range(txns) = {r.txn : r \in Range(Ledger(txns))}
<1> DEFINE rows == Ledger(txns)
<1>1. Len(txns) \in Nat /\ DOMAIN txns = 1 .. Len(txns)
  OBVIOUS
<1>2. \A i \in 1 .. Len(txns) : BalanceBreak(txns, i) \in BOOLEAN /\ Queued(txns, i) \in BOOLEAN
  BY DEF BalanceBreak, Queued
<1>3. DOMAIN rows = 1 .. Len(txns)
      /\ \A i \in 1 .. Len(txns) :
            rows[i] = [txn |-> txns[i], break |-> BalanceBreak(txns, i), queued |-> Queued(txns, i)]
  BY <1>1 DEF Ledger
<1>4. \A i \in 1 .. Len(txns) : rows[i] \in LedgerRow /\ rows[i].txn = txns[i]
  BY <1>1, <1>2, <1>3 DEF LedgerRow
<1>5. rows = [i \in 1 .. Len(txns) |-> rows[i]]
  BY <1>1 DEF Ledger
<1> HIDE DEF rows
<1>6. rows \in Seq(LedgerRow)
  BY <1>1, <1>4, <1>5
<1>7. Range(txns) = {r.txn : r \in Range(rows)}
  BY <1>1, <1>3, <1>4 DEF Range
<1> QED
  BY <1>6, <1>7 DEF rows

(* The facts of a ledger are its rows that are not queued. *)
LEMMA FactsHold ==
    ASSUME NEW rows \in Seq(LedgerRow)
    PROVE  /\ Facts(rows) \in Seq(LedgerRow)
           /\ Range(Facts(rows)) = {r \in Range(rows) : ~r.queued}
<1> DEFINE places == {i \in DOMAIN rows : ~rows[i].queued}
<1>1. /\ Kept(rows, places) \in Seq(LedgerRow)
      /\ Range(Kept(rows, places)) = {rows[i] : i \in (DOMAIN rows) \cap places}
  BY KeptHolds
<1>2. {rows[i] : i \in (DOMAIN rows) \cap places} = {r \in Range(rows) : ~r.queued}
  BY DEF Range
<1> QED
  BY <1>1, <1>2 DEF Facts

(* Every row that is queued has a call of its own, under a key that is not     *)
(* the export's.                                                               *)
LEMMA CallsHold ==
    ASSUME NEW rows \in Seq(LedgerRow)
    PROVE  /\ Calls(rows) \in Seq(SysCall)
           /\ \A r \in Range(rows) : r.queued =>
                 \E c \in Range(Calls(rows)) : c.key # 0 /\ c.args[1] = r
<1> DEFINE each == RowCalls(rows)
           places == {i \in DOMAIN rows : rows[i].queued}
           last == [key |-> 0, args |-> rows]
<1>1. Len(rows) \in Nat /\ DOMAIN rows = 1 .. Len(rows)
  OBVIOUS
<1>2. \A i \in 1 .. Len(rows) : <<rows[i]>> \in Seq(LedgerRow) /\ <<rows[i]>>[1] = rows[i]
  OBVIOUS
<1>3. /\ DOMAIN each = 1 .. Len(rows)
      /\ each = [i \in 1 .. Len(rows) |-> each[i]]
      /\ \A i \in 1 .. Len(rows) : each[i] = [key |-> i, args |-> <<rows[i]>>]
  BY <1>1 DEF RowCalls
<1>4. \A i \in 1 .. Len(rows) : each[i] \in SysCall /\ each[i].key = i /\ each[i].args[1] = rows[i]
  <2> TAKE i \in 1 .. Len(rows)
  <2>1. each[i] = [key |-> i, args |-> <<rows[i]>>]
    BY <1>3
  <2>2. i \in Nat /\ <<rows[i]>> \in Seq(LedgerRow) /\ <<rows[i]>> # <<>>
    BY <1>2
  <2>3. [key |-> i, args |-> <<rows[i]>>] \in SysCall
    BY <2>2 DEF SysCall
  <2>4. each[i].key = i /\ each[i].args = <<rows[i]>>
    BY <2>1
  <2> QED
    BY <1>2, <2>1, <2>3, <2>4
<1> HIDE DEF each
<1>5. each \in Seq(SysCall)
  BY <1>1, <1>3, <1>4
<1>6. /\ QueueCalls(rows) \in Seq(SysCall)
      /\ Range(QueueCalls(rows)) = {each[i] : i \in (DOMAIN each) \cap places}
  BY <1>5, KeptHolds DEF QueueCalls, each
<1>7. last \in SysCall
  BY DEF SysCall
<1>8. /\ Calls(rows) \in Seq(SysCall)
      /\ Range(Calls(rows)) = Range(QueueCalls(rows)) \cup {last}
  BY <1>6, <1>7, RangeOfAppend DEF Calls
<1>9. ASSUME NEW r \in Range(rows), r.queued
      PROVE  \E c \in Range(Calls(rows)) : c.key # 0 /\ c.args[1] = r
  <2>1. PICK i \in 1 .. Len(rows) : r = rows[i]
    BY <1>1, <1>9 DEF Range
  <2>2. i \in (DOMAIN each) \cap places
    BY <1>1, <1>3, <1>9, <2>1
  <2>3. each[i] \in Range(Calls(rows))
    BY <1>6, <1>8, <2>2
  <2>4. each[i].key # 0 /\ each[i].args[1] = r
    BY <1>4, <2>1
  <2> QED
    BY <2>3, <2>4
<1> QED
  BY <1>8, <1>9

-----------------------------------------------------------------------------
(* Types *)

LEMMA InitType == Init => TypeOK
<1> SUFFICES ASSUME Init PROVE TypeOK
  OBVIOUS
<1>1. SetToSeq(Batches) \in Seq(Batches)
  <2>1. /\ Cardinality(Batches) \in Nat
        /\ \E f \in [1 .. Cardinality(Batches) -> Batches] : IsInjective(f)
    BY BooksAssumption, FS_CardinalityType DEF ExistsBijection, Bijection, Injection, IsInjective
  <2>2. SetToSeq(Batches) \in [1 .. Cardinality(Batches) -> Batches]
    BY <2>1 DEF SetToSeq
  <2> QED
    BY <2>1, <2>2
<1> QED
  BY <1>1, BooksAssumption DEF Init, TypeOK

LEMMA RunIs == TypeOK => IF At("none") THEN run = NoRun ELSE run \in Invocation
  BY DEF TypeOK, At, NoRun, Invocation

LEMMA TypeNext == TypeOK /\ CallsPending /\ [Next]_vars => TypeOK'
<1> SUFFICES ASSUME TypeOK, CallsPending, [Next]_vars PROVE TypeOK'
  OBVIOUS
<1>0. IF At("none") THEN run = NoRun ELSE run \in Invocation
  BY RunIs
<1> USE DEF world, gateway, ledger
<1>1. CASE Claim
  <2>1. Head(line) \in Batches /\ Tail(line) \in Seq(Batches)
    BY <1>1 DEF Claim, TypeOK
  <2>2. NewRun(Head(line)) \in Invocation
    BY <2>1 DEF NewRun, Invocation
  <2> QED
    BY <1>1, <2>1, <2>2 DEF Claim, TypeOK
<1>2. CASE Hydrate
  <2>1. run \in Invocation
    BY <1>0, <1>2 DEF Hydrate, At
  <2>2. target[run.batch] \in Seq(Docs) /\ {f.row : f \in heap} \subseteq Transaction
    BY <2>1, BooksAssumption DEF TypeOK, Invocation
  <2>3. run' \in Invocation
    BY <1>2, <2>1, <2>2 DEF Hydrate, Invocation
  <2> QED
    BY <1>2, <2>3 DEF Hydrate, TypeOK
<1>3. CASE Ingest
  <2> DEFINE d == Head(run.docs)
             txns == IF Bounced(files[d]) THEN run.txns ELSE run.txns \o Transactions(d)
  <2>1. run \in Invocation
    BY <1>0, <1>3 DEF Ingest, At
  <2>2. d \in Docs /\ Tail(run.docs) \in Seq(Docs) /\ run.txns \in Seq(Transaction)
    BY <1>3, <2>1 DEF Ingest, Invocation
  <2>3. txns \in Seq(Transaction)
    BY <2>2, TransactionsHold DEF TypeOK
  <2>4. run' = [run EXCEPT !.docs = Tail(run.docs), !.txns = txns]
    BY <1>3 DEF Ingest
  <2> HIDE DEF txns, d
  <2>5. run' \in Invocation
    BY <2>1, <2>2, <2>3, <2>4 DEF Invocation
  <2> QED
    BY <1>3, <2>5 DEF Ingest, TypeOK
<1>4. CASE Categorize
  <2> DEFINE txns == Fresh(run.txns, run.known)
             rows == Ledger(txns)
  <2>1. run \in Invocation
    BY <1>0, <1>4 DEF Categorize, At
  <2>2. txns \in Seq(Transaction)
    BY <2>1, FreshHolds DEF Invocation
  <2>3. /\ run' = [run EXCEPT !.at = "call", !.calls = Calls(rows), !.facts = Facts(rows)]
        /\ plans' = [plans EXCEPT ![run.batch] = @ \cup {rows}]
    BY <1>4 DEF Categorize
  <2> HIDE DEF txns
  <2>4. rows \in Seq(LedgerRow)
    BY <2>2, LedgerHolds
  <2> HIDE DEF rows
  <2>5. Calls(rows) \in Seq(SysCall) /\ Facts(rows) \in Seq(LedgerRow)
    BY <2>4, CallsHold, FactsHold
  <2>6. run' \in Invocation
    BY <2>1, <2>3, <2>5 DEF Invocation
  <2>7. plans' \in [Batches -> SUBSET Seq(LedgerRow)]
    BY <2>1, <2>3, <2>4 DEF TypeOK, Invocation
  <2> QED
    BY <1>4, <2>6, <2>7 DEF Categorize, TypeOK
<1>5. ASSUME Fail, ~At("none")
      PROVE  run' \in {NoRun} \cup Invocation /\ line' \in Seq(Batches)
  BY <1>0, <1>5 DEF Fail, TypeOK, Invocation
<1>6. CASE Clash
  BY <1>5, <1>6 DEF Clash, At, TypeOK
<1>7. CASE Raise
  BY <1>5, <1>7, BooksAssumption DEF Raise, TypeOK
<1>8. ASSUME ~At("none"), run.calls # <<>>
      PROVE  Head(run.calls) \in SysCall /\ Tail(run.calls) \in Seq(SysCall)
  BY <1>0, <1>8 DEF Invocation
<1>9. CASE Replay
  <2>1. run \in Invocation /\ Tail(run.calls) \in Seq(SysCall)
    BY <1>0, <1>8, <1>9 DEF Replay, At
  <2>2. run' \in Invocation
    BY <1>9, <2>1 DEF Replay, Invocation
  <2> QED
    BY <1>9, <2>2 DEF Replay, TypeOK
<1>10. CASE Attempt
  <2>1. run \in Invocation /\ Head(run.calls) \in SysCall
    BY <1>0, <1>8, <1>10 DEF Attempt, At
  <2>2. run' \in Invocation
    BY <1>10, <2>1 DEF Attempt, Invocation
  <2>3. attempts' \in [Batches -> SUBSET SysCall]
    BY <1>10, <2>1 DEF Attempt, TypeOK, Invocation
  <2> QED
    BY <1>10, <2>2, <2>3 DEF Attempt, TypeOK
<1>11. CASE Execute
  <2>1. run \in Invocation /\ Head(run.calls) \in SysCall
    BY <1>0, <1>8, <1>11 DEF Execute, At, CallsPending
  <2>2. PICK result \in {"ok", "error"} :
          /\ faults' = IF result = "error" THEN faults + 1 ELSE faults
          /\ faults' <= MaxFaults
          /\ run' = [run EXCEPT !.at = "receipt", !.result = result]
          /\ tasks' = IF result = "ok" /\ Head(run.calls).key # 0
                        THEN tasks \cup {<<run.batch, Head(run.calls).args[1].txn>>} ELSE tasks
    BY <1>11 DEF Execute
  <2>3. run' \in Invocation
    BY <2>1, <2>2 DEF Invocation
  <2>4. faults' \in 0 .. MaxFaults
    BY <2>2, BooksAssumption DEF TypeOK
  <2>5. Head(run.calls).key # 0 => Head(run.calls).args[1] \in LedgerRow
    BY <2>1 DEF SysCall
  <2>6. tasks' \subseteq Batches \X Transaction
    BY <2>1, <2>2, <2>5 DEF TypeOK, Invocation, LedgerRow
  <2> QED
    BY <1>11, <2>3, <2>4, <2>6 DEF Execute, TypeOK
<1>12. CASE Receipt
  <2> DEFINE call == Head(run.calls)
             kept == [key |-> call.key, args |-> call.args, result |-> run.result]
  <2>1. run \in Invocation /\ call \in SysCall /\ Tail(run.calls) \in Seq(SysCall)
    BY <1>0, <1>8, <1>12 DEF Receipt, At, CallsPending
  <2>2. run.result \in {"ok", "error"}
    BY <1>12, <2>1 DEF Receipt, CallsPending, Invocation
  <2>3. kept \in [key : Nat, args : Seq(LedgerRow), result : {"ok", "error"}]
    BY <2>1, <2>2 DEF SysCall
  <2>4. /\ receipts' = [receipts EXCEPT ![run.batch] = @ \cup {kept}]
        /\ run' = [run EXCEPT !.at = "call", !.calls = Tail(run.calls)]
    BY <1>12 DEF Receipt
  <2> HIDE DEF kept
  <2>5. receipts' \in [Batches -> SUBSET [key : Nat, args : Seq(LedgerRow), result : {"ok", "error"}]]
    BY <2>1, <2>3, <2>4 DEF TypeOK, Invocation
  <2>6. run' \in Invocation
    BY <2>1, <2>4 DEF Invocation
  <2> QED
    BY <1>12, <2>5, <2>6 DEF Receipt, TypeOK
<1>13. ASSUME ~At("none"), NEW result \in {"settled", "crashed"}, Complete(result)
       PROVE  run' = NoRun /\ outcome' \in [Batches -> {"open", "settled", "crashed"}]
  BY <1>0, <1>13 DEF Complete, TypeOK, Invocation
<1>14. CASE Reject
  BY <1>13, <1>14 DEF Reject, At, TypeOK
<1>15. CASE Return
  BY <1>13, <1>15 DEF Return, At, TypeOK
<1>16. CASE Settle
  <2> DEFINE rows == {run.facts[i].txn : i \in DOMAIN run.facts}
  <2>1. run \in Invocation /\ rows \subseteq Transaction
    <3>1. run \in Invocation /\ run.facts \in Seq(LedgerRow)
      BY <1>0, <1>16 DEF Settle, At, Invocation
    <3>2. \A i \in DOMAIN run.facts : run.facts[i] \in LedgerRow
      BY <3>1
    <3> QED
      BY <3>1, <3>2 DEF LedgerRow
  <2>2. settled' = [settled EXCEPT ![run.batch] = @ \cup rows] /\ run' = [run EXCEPT !.at = "project"]
    BY <1>16 DEF Settle
  <2> HIDE DEF rows
  <2>3. settled' \in [Batches -> SUBSET Transaction] /\ run' \in Invocation
    BY <2>1, <2>2 DEF TypeOK, Invocation
  <2> QED
    BY <1>16, <2>3 DEF Settle, TypeOK
<1>17. CASE Project
  <2>1. run \in Invocation /\ Head(run.facts) \in LedgerRow /\ Tail(run.facts) \in Seq(LedgerRow)
    BY <1>0, <1>17 DEF Project, At, Invocation
  <2>2. heap' \subseteq [run : Batches, row : Transaction]
    BY <1>17, <2>1 DEF Project, TypeOK, Invocation, LedgerRow
  <2>3. run' \in Invocation
    BY <1>17, <2>1 DEF Project, Invocation
  <2> QED
    BY <1>17, <2>2, <2>3 DEF Project, TypeOK
<1>18. CASE UNCHANGED vars
  BY <1>18 DEF vars, TypeOK
<1> QED
  BY <1>1, <1>2, <1>3, <1>4, <1>6, <1>7, <1>9, <1>10, <1>11, <1>12, <1>14, <1>15, <1>16,
     <1>17, <1>18 DEF Next, Work

-----------------------------------------------------------------------------
(* What a step leaves and what it adds *)

(* The documents stay what they are, and what is accounted for stays so. *)
LEMMA NothingIsTakenBack ==
    ASSUME TypeOK, [Next]_vars
    PROVE  /\ \A docs : RowsIn(docs)' = RowsIn(docs)
           /\ target' = target
           /\ \A b \in Batches : RowsOf(b)' = RowsOf(b)
           /\ tasks \subseteq tasks'
           /\ \A b \in Batches : receipts[b] \subseteq receipts'[b]
           /\ HeapRows \subseteq HeapRows'
           /\ \A b \in Batches : Accounted(b) \subseteq Accounted(b)'
<1> USE DEF world, gateway, ledger
<1>1. files' = files /\ target' = target
  BY DEF Next, Work, vars, Claim, Hydrate, Ingest, Categorize, Clash, Replay, Attempt, Execute,
         Receipt, Reject, Settle, Project, Return, Raise
<1>2. tasks \subseteq tasks'
  BY DEF Next, Work, vars, Claim, Hydrate, Ingest, Categorize, Clash, Replay, Attempt, Execute,
         Receipt, Reject, Settle, Project, Return, Raise
<1>3. \A b \in Batches : receipts[b] \subseteq receipts'[b]
  <2>1. CASE Receipt
    <3> DEFINE kept == [key |-> Head(run.calls).key, args |-> Head(run.calls).args, result |-> run.result]
    <3>1. receipts' = [receipts EXCEPT ![run.batch] = @ \cup {kept}]
      BY <2>1 DEF Receipt
    <3> HIDE DEF kept
    <3> QED
      BY <3>1 DEF TypeOK
  <2>2. CASE receipts' = receipts
    BY <2>2
  <2> QED
    BY <2>1, <2>2 DEF Next, Work, vars, Claim, Hydrate, Ingest, Categorize, Clash, Replay, Attempt,
         Execute, Reject, Settle, Project, Return, Raise
<1>4. heap \subseteq heap'
  BY DEF Next, Work, vars, Claim, Hydrate, Ingest, Categorize, Clash, Replay, Attempt, Execute,
         Receipt, Reject, Settle, Project, Return, Raise
<1>5. \A docs : RowsIn(docs)' = RowsIn(docs)
  BY <1>1 DEF RowsIn, Transactions, Bounced
<1>6. \A b \in Batches : RowsOf(b)' = RowsOf(b)
  BY <1>1, <1>5 DEF RowsOf
<1>7. HeapRows \subseteq HeapRows'
  BY <1>4 DEF HeapRows
<1>8. \A b \in Batches : Accounted(b) \subseteq Accounted(b)'
  BY <1>2, <1>3 DEF Accounted, Unqueued
<1> QED
  BY <1>1, <1>2, <1>3, <1>5, <1>6, <1>7, <1>8

(* Only a return makes a batch settled. *)
LEMMA SettledOnReturn ==
    ASSUME TypeOK, [Next]_vars, NEW b \in Batches, outcome'[b] = "settled"
    PROVE  outcome[b] = "settled" \/ (Return /\ b = run.batch)
<1>1. CASE Return
  BY <1>1 DEF Return, Complete, TypeOK
<1>2. CASE Reject
  BY <1>2 DEF Reject, Complete, TypeOK
<1>3. CASE outcome' = outcome
  BY <1>3
<1> QED
  BY <1>1, <1>2, <1>3 DEF Next, Work, vars, world, gateway, ledger, Claim, Hydrate, Ingest, Categorize,
     Clash, Replay, Attempt, Execute, Receipt, Settle, Project, Raise

-----------------------------------------------------------------------------
(* The invocation and the world it works on *)

LEMMA CallsPendingNext == TypeOK /\ CallsPending /\ [Next]_vars => CallsPending'
<1> SUFFICES ASSUME TypeOK, CallsPending, [Next]_vars PROVE CallsPending'
  OBVIOUS
<1> DEFINE Told(log) == \A b \in Batches : \A r \in log[b] :
                          r.key # 0 /\ r.result = "ok" => <<b, r.args[1].txn>> \in tasks
<1>0. IF At("none") THEN run = NoRun ELSE run \in Invocation
  BY RunIs
<1>1. tasks \subseteq tasks' /\ Told(receipts)
  BY NothingIsTakenBack DEF CallsPending
<1> USE DEF world, gateway, ledger
<1>2. ASSUME run'.at \notin {"execute", "receipt"}, receipts' = receipts
      PROVE  CallsPending'
  BY <1>1, <1>2 DEF CallsPending, At
<1>3. NoRun.at = "none"
  BY DEF NoRun
<1>4. CASE Claim
  <2>1. run'.at = "hydrate"
    BY <1>4 DEF Claim, NewRun
  <2> QED
    BY <1>2, <1>4, <2>1 DEF Claim
<1>5. CASE Hydrate
  <2>1. run \in Invocation
    BY <1>0, <1>5 DEF Hydrate, At
  <2>2. run'.at = "ingest"
    BY <1>5, <2>1 DEF Hydrate, Invocation
  <2> QED
    BY <1>2, <1>5, <2>2 DEF Hydrate
<1>6. CASE Ingest
  <2>1. run'.at = "ingest"
    BY <1>0, <1>6 DEF Ingest, At, Invocation
  <2> QED
    BY <1>2, <1>6, <2>1 DEF Ingest
<1>7. CASE Categorize
  <2>1. run'.at = "call"
    BY <1>0, <1>7 DEF Categorize, At, Invocation
  <2> QED
    BY <1>2, <1>7, <2>1 DEF Categorize
<1>8. CASE Clash
  BY <1>2, <1>3, <1>8 DEF Clash, Fail
<1>9. CASE Replay
  <2>1. run'.at = "call"
    BY <1>0, <1>9 DEF Replay, At, Invocation
  <2> QED
    BY <1>2, <1>9, <2>1 DEF Replay
<1>10. CASE Attempt
  <2>1. run'.at = "execute" /\ run'.calls # <<>>
    BY <1>0, <1>10 DEF Attempt, At, Invocation
  <2> QED
    BY <1>1, <1>10, <2>1 DEF Attempt, CallsPending, At
<1>11. CASE Execute
  <2>1. PICK result \in {"ok", "error"} :
          /\ run' = [run EXCEPT !.at = "receipt", !.result = result]
          /\ tasks' = IF result = "ok" /\ Head(run.calls).key # 0
                        THEN tasks \cup {<<run.batch, Head(run.calls).args[1].txn>>} ELSE tasks
    BY <1>11 DEF Execute
  <2>2. run \in Invocation /\ run.calls # <<>>
    BY <1>0, <1>11 DEF Execute, At, CallsPending
  <2>3. /\ run'.at = "receipt" /\ run'.result = result /\ run'.calls = run.calls
        /\ run'.batch = run.batch
    BY <2>1, <2>2 DEF Invocation
  <2>4. receipts' = receipts
    BY <1>11 DEF Execute
  <2> QED
    BY <1>1, <2>1, <2>2, <2>3, <2>4 DEF CallsPending, At
<1>12. CASE Receipt
  <2> DEFINE call == Head(run.calls)
             kept == [key |-> call.key, args |-> call.args, result |-> run.result]
  <2>1. /\ receipts' = [receipts EXCEPT ![run.batch] = @ \cup {kept}]
        /\ run' = [run EXCEPT !.at = "call", !.calls = Tail(run.calls)]
    BY <1>12 DEF Receipt
  <2>2. kept.key = call.key /\ kept.args = call.args /\ kept.result = run.result
    OBVIOUS
  <2>3. kept.key # 0 /\ kept.result = "ok" => <<run.batch, kept.args[1].txn>> \in tasks
    BY <1>12, <2>2 DEF Receipt, CallsPending
  <2> HIDE DEF kept
  <2>4. run'.at = "call"
    BY <1>0, <1>12, <2>1 DEF Receipt, At, Invocation
  <2>5. \A b \in Batches : \A r \in receipts'[b] : r \in receipts[b] \/ (b = run.batch /\ r = kept)
    BY <2>1 DEF TypeOK
  <2> QED
    BY <1>1, <2>3, <2>4, <2>5 DEF CallsPending, At
<1>13. CASE Reject
  BY <1>2, <1>3, <1>13 DEF Reject, Complete
<1>14. CASE Settle
  <2>1. run'.at = "project"
    BY <1>0, <1>14 DEF Settle, At, Invocation
  <2> QED
    BY <1>2, <1>14, <2>1 DEF Settle
<1>15. CASE Project
  <2>1. run'.at = "project"
    BY <1>0, <1>15 DEF Project, At, Invocation
  <2> QED
    BY <1>2, <1>15, <2>1 DEF Project
<1>16. CASE Return
  BY <1>2, <1>3, <1>16 DEF Return, Complete
<1>17. CASE Raise
  BY <1>2, <1>3, <1>17 DEF Raise, Fail
<1>18. CASE UNCHANGED vars
  BY <1>18 DEF vars, CallsPending, At
<1> QED
  BY <1>4, <1>5, <1>6, <1>7, <1>8, <1>9, <1>10, <1>11, <1>12, <1>13, <1>14, <1>15, <1>16, <1>17,
     <1>18 DEF Next, Work

-----------------------------------------------------------------------------
(* The heap *)

LEMMA VerifiedHasUniqueKeys == \A facts : Verified(facts) => UniqueKeys(facts)
<1> TAKE facts
<1> DEFINE post == Postconditions(facts)
<1>1. UniqueKeys(facts) \in BOOLEAN
  BY DEF UniqueKeys
<1>2. "no_duplicate_commit" \in DOMAIN post /\ post["no_duplicate_commit"] = UniqueKeys(facts)
  BY DEF Postconditions
<1> HIDE DEF post
<1>3. Verified(facts) => post["no_duplicate_commit"] # FALSE
  BY <1>2 DEF Verified, Range, post
<1> QED
  BY <1>1, <1>2, <1>3

LEMMA TailHasUniqueKeys ==
    ASSUME NEW facts \in Seq(LedgerRow), facts # <<>>, UniqueKeys(facts)
    PROVE  /\ UniqueKeys(Tail(facts))
           /\ \A i \in DOMAIN Tail(facts) :
                 Tail(facts)[i].txn # Head(facts).txn /\ Tail(facts)[i] \in Range(facts)
<1> DEFINE rest == Tail(facts)
<1>1. /\ Len(facts) \in Nat /\ Len(facts) # 0 /\ DOMAIN facts = 1 .. Len(facts)
      /\ DOMAIN rest = 1 .. Len(facts) - 1
      /\ \A i \in DOMAIN rest : rest[i] = facts[i + 1] /\ i + 1 \in DOMAIN facts
      /\ Head(facts) = facts[1] /\ 1 \in DOMAIN facts
  OBVIOUS
<1> HIDE DEF rest
<1>2. \A i, j \in DOMAIN rest : i + 1 = j + 1 => i = j
  BY <1>1
<1>3. \A i \in DOMAIN rest : i + 1 # 1
  BY <1>1
<1> QED
  BY <1>1, <1>2, <1>3 DEF UniqueKeys, Range, rest

(* What an invocation knows of the heap, step by step. *)
LEMMA HeapNext ==
    ASSUME TypeOK, CallsPending, HeapHoldsEachRowOnce, HeapIsKnown, [Next]_vars
    PROVE  HeapHoldsEachRowOnce' /\ HeapIsKnown'
<1>0. IF At("none") THEN run = NoRun ELSE run \in Invocation
  BY RunIs
<1>1. NoRun.at = "none"
  BY DEF NoRun
<1> USE DEF world, gateway, ledger
<1>2. ASSUME heap' = heap, run'.at \in {"none", "hydrate"}
      PROVE  HeapHoldsEachRowOnce' /\ HeapIsKnown'
  BY <1>2 DEF HeapHoldsEachRowOnce, HeapIsKnown, At, Deciding
<1>3. ASSUME heap' = heap, run'.facts = run.facts, run'.known = run.known,
             run.at \in Deciding, run'.at \in Deciding
      PROVE  HeapHoldsEachRowOnce' /\ HeapIsKnown'
  BY <1>3 DEF HeapHoldsEachRowOnce, HeapIsKnown, HeapRows, At, Deciding
<1>4. CASE Claim
  <2>1. run'.at = "hydrate"
    BY <1>4 DEF Claim, NewRun
  <2> QED
    BY <1>2, <1>4, <2>1 DEF Claim
<1>5. CASE Hydrate
  <2>1. run \in Invocation
    BY <1>0, <1>5 DEF Hydrate, At
  <2>2. run'.at = "ingest" /\ run'.known = HeapRows
    BY <1>5, <2>1 DEF Hydrate, Invocation, HeapRows
  <2>3. heap' = heap
    BY <1>5 DEF Hydrate
  <2> QED
    BY <2>2, <2>3 DEF HeapHoldsEachRowOnce, HeapIsKnown, HeapRows, At, Deciding
<1>6. CASE Ingest
  <2>1. run'.at = "ingest" /\ run'.known = run.known /\ heap' = heap
    BY <1>0, <1>6 DEF Ingest, At, Invocation
  <2>2. At("ingest")
    BY <1>6 DEF Ingest
  <2> QED
    BY <2>1, <2>2 DEF HeapHoldsEachRowOnce, HeapIsKnown, HeapRows, At, Deciding
<1>7. CASE Categorize
  <2> DEFINE txns == Fresh(run.txns, run.known)
             rows == Ledger(txns)
  <2>1. run \in Invocation /\ heap' = heap /\ run.known = HeapRows
    BY <1>0, <1>7 DEF Categorize, At, HeapIsKnown
  <2>2. run' = [run EXCEPT !.at = "call", !.calls = Calls(rows), !.facts = Facts(rows)]
    BY <1>7 DEF Categorize
  <2>3. txns \in Seq(Transaction) /\ Range(txns) = Range(run.txns) \ HeapRows
    BY <2>1, FreshHolds DEF Invocation
  <2> HIDE DEF txns
  <2>4. rows \in Seq(LedgerRow) /\ Range(txns) = {r.txn : r \in Range(rows)}
    BY <2>3, LedgerHolds
  <2> HIDE DEF rows
  <2>5. Range(Facts(rows)) = {r \in Range(rows) : ~r.queued}
    BY <2>4, FactsHold
  <2>6. run'.at = "call" /\ run'.facts = Facts(rows) /\ run'.known = HeapRows
    BY <2>1, <2>2 DEF Invocation
  <2>7. \A r \in Range(Facts(rows)) : r.txn \notin HeapRows
    BY <2>3, <2>4, <2>5
  <2>8. \A i \in DOMAIN run'.facts : run'.facts[i] \in Range(Facts(rows))
    BY <2>6 DEF Range
  <2>9. \A i \in DOMAIN run'.facts : run'.facts[i].txn \notin HeapRows
    BY <2>7, <2>8
  <2> QED
    BY <2>1, <2>6, <2>9 DEF HeapHoldsEachRowOnce, HeapIsKnown, HeapRows, At, Deciding
<1>8. CASE Clash
  BY <1>1, <1>2, <1>8 DEF Clash, Fail
<1>9. CASE Replay
  <2>1. /\ heap' = heap /\ run'.facts = run.facts /\ run'.known = run.known
        /\ run.at = "call" /\ run'.at = "call"
    BY <1>0, <1>9 DEF Replay, At, Invocation
  <2> QED
    BY <1>3, <2>1 DEF Deciding
<1>10. CASE Attempt
  <2>1. /\ heap' = heap /\ run'.facts = run.facts /\ run'.known = run.known
        /\ run.at = "call" /\ run'.at = "execute"
    BY <1>0, <1>10 DEF Attempt, At, Invocation
  <2> QED
    BY <1>3, <2>1 DEF Deciding
<1>11. CASE Execute
  <2>1. /\ heap' = heap /\ run'.facts = run.facts /\ run'.known = run.known
        /\ run.at = "execute" /\ run'.at = "receipt"
    BY <1>0, <1>11 DEF Execute, At, Invocation
  <2> QED
    BY <1>3, <2>1 DEF Deciding
<1>12. CASE Receipt
  <2>1. /\ heap' = heap /\ run'.facts = run.facts /\ run'.known = run.known
        /\ run.at = "receipt" /\ run'.at = "call"
    BY <1>0, <1>12 DEF Receipt, At, Invocation
  <2> QED
    BY <1>3, <2>1 DEF Deciding
<1>13. CASE Reject
  BY <1>1, <1>2, <1>13 DEF Reject, Complete
<1>14. CASE Settle
  <2>1. /\ heap' = heap /\ run'.facts = run.facts
        /\ run.at = "call" /\ run'.at = "project"
    BY <1>0, <1>14 DEF Settle, At, Invocation
  <2>2. UniqueKeys(run.facts)
    BY <1>14, VerifiedHasUniqueKeys DEF Settle
  <2>3. \A i \in DOMAIN run.facts : run.facts[i].txn \notin HeapRows
    BY <2>1 DEF HeapIsKnown, Deciding
  <2>4. HeapRows' = HeapRows
    BY <2>1 DEF HeapRows
  <2>5. UniqueKeys(run.facts)'
    BY <2>1, <2>2 DEF UniqueKeys
  <2> QED
    BY <2>1, <2>3, <2>4, <2>5 DEF HeapHoldsEachRowOnce, HeapIsKnown, At, Deciding
<1>15. CASE Project
  <2> DEFINE fact == [run |-> run.batch, row |-> Head(run.facts).txn]
  <2>1. run \in Invocation /\ run.facts \in Seq(LedgerRow) /\ run.facts # <<>>
    BY <1>0, <1>15 DEF Project, At, Invocation
  <2>2. /\ UniqueKeys(run.facts)
        /\ \A i \in DOMAIN run.facts : run.facts[i].txn \notin HeapRows
    BY <1>15 DEF Project, HeapIsKnown, At
  <2>3. heap' = heap \cup {fact}
    BY <1>15 DEF Project
  <2>4. fact.row = Head(run.facts).txn
    OBVIOUS
  <2>5. fact.row \notin HeapRows
    <3>1. Head(run.facts) = run.facts[1] /\ 1 \in DOMAIN run.facts
      BY <2>1
    <3> QED
      BY <2>2, <2>4, <3>1
  <2> HIDE DEF fact
  <2>6. HeapHoldsEachRowOnce'
    BY <2>3, <2>5 DEF HeapHoldsEachRowOnce, HeapRows
  <2>7. run'.at = "project" /\ run'.facts = Tail(run.facts)
    BY <1>15, <2>1 DEF Project, At, Invocation
  <2>8. /\ UniqueKeys(Tail(run.facts))
        /\ \A i \in DOMAIN Tail(run.facts) :
              Tail(run.facts)[i].txn # fact.row /\ Tail(run.facts)[i] \in Range(run.facts)
    BY <2>1, <2>2, <2>4, TailHasUniqueKeys
  <2>9. HeapRows' = HeapRows \cup {fact.row}
    BY <2>3 DEF HeapRows
  <2>10. \A i \in DOMAIN Tail(run.facts) : Tail(run.facts)[i].txn \notin HeapRows'
    BY <2>2, <2>8, <2>9 DEF Range
  <2>11. UniqueKeys(run.facts)'
    BY <2>7, <2>8 DEF UniqueKeys
  <2> QED
    BY <2>6, <2>7, <2>10, <2>11 DEF HeapIsKnown, At, Deciding
<1>16. CASE Return
  BY <1>1, <1>2, <1>16 DEF Return, Complete
<1>17. CASE Raise
  BY <1>1, <1>2, <1>17 DEF Raise, Fail
<1>18. CASE UNCHANGED vars
  <2>1. UniqueKeys(run.facts)' <=> UniqueKeys(run.facts)
    BY <1>18 DEF vars, UniqueKeys
  <2> QED
    BY <1>18, <2>1 DEF vars, HeapHoldsEachRowOnce, HeapIsKnown, HeapRows, At, Deciding
<1> QED
  BY <1>4, <1>5, <1>6, <1>7, <1>8, <1>9, <1>10, <1>11, <1>12, <1>13, <1>14, <1>15, <1>16, <1>17,
     <1>18 DEF Next, Work

-----------------------------------------------------------------------------
(* The rows of a batch *)

(* One more statement read, or sent back. *)
LEMMA RowsInTail ==
    ASSUME files \in [Docs -> Statements], NEW docs \in Seq(Docs), docs # <<>>
    PROVE  RowsIn(Range(docs)) =
             (IF Bounced(files[Head(docs)]) THEN {} ELSE Range(Transactions(Head(docs))))
               \cup RowsIn(Range(Tail(docs)))
<1>1. Range(docs) = {Head(docs)} \cup Range(Tail(docs))
  BY RangeOfTail
<1> QED
  BY <1>1 DEF RowsIn

(* A ledger carries every transaction of its list: the queued rows in the      *)
(* calls, the others in the facts.                                             *)
LEMMA LedgerCarries ==
    ASSUME NEW txns \in Seq(Transaction)
    PROVE  \A t \in Range(txns) :
             \/ \E c \in Range(Calls(Ledger(txns))) : c.key # 0 /\ c.args[1].txn = t
             \/ \E f \in Range(Facts(Ledger(txns))) : f.txn = t
<1> DEFINE rows == Ledger(txns)
<1>1. rows \in Seq(LedgerRow) /\ Range(txns) = {r.txn : r \in Range(rows)}
  BY LedgerHolds
<1> HIDE DEF rows
<1>2. \A r \in Range(rows) : r.queued => \E c \in Range(Calls(rows)) : c.key # 0 /\ c.args[1] = r
  BY <1>1, CallsHold
<1>3. Range(Facts(rows)) = {r \in Range(rows) : ~r.queued}
  BY <1>1, FactsHold
<1>4. ASSUME NEW t \in Range(txns)
      PROVE  \/ \E c \in Range(Calls(rows)) : c.key # 0 /\ c.args[1].txn = t
             \/ \E f \in Range(Facts(rows)) : f.txn = t
  <2>1. PICK r \in Range(rows) : r.txn = t
    BY <1>1, <1>4
  <2>2. CASE r.queued
    BY <1>2, <2>1, <2>2
  <2>3. CASE ~r.queued
    BY <1>3, <2>1, <2>3
  <2> QED
    BY <2>2, <2>3
<1> QED
  BY <1>4 DEF rows

(* A call that has been made, now or by an earlier invocation, has brought its *)
(* row to the queue or was answered by an error.                               *)
LEMMA CallIsAccounted ==
    ASSUME TypeOK, CallsPending, NEW b \in Batches, NEW r \in receipts[b], r.key # 0
    PROVE  r.args[1].txn \in Accounted(b)
<1>1. r.result \in {"ok", "error"}
  BY DEF TypeOK
<1>2. CASE r.result = "ok"
  <2> DEFINE t == <<b, r.args[1].txn>>
  <2>1. t \in tasks /\ t[1] = b /\ t[2] = r.args[1].txn
    BY <1>2 DEF CallsPending
  <2> HIDE DEF t
  <2> QED
    BY <2>1 DEF Accounted
<1>3. CASE r.result = "error"
  BY <1>3 DEF Accounted, Unqueued
<1> QED
  BY <1>1, <1>2, <1>3

(* What is left to call after the first call. *)
LEMMA ToCallTail ==
    ASSUME run.calls \in Seq(SysCall), run.calls # <<>>, NEW t \in ToCall
    PROVE  \/ Head(run.calls).key # 0 /\ t = Head(run.calls).args[1].txn
           \/ \E c \in Range(Tail(run.calls)) : c.key # 0 /\ t = c.args[1].txn
<1>1. Range(run.calls) = {Head(run.calls)} \cup Range(Tail(run.calls))
  BY RangeOfTail
<1> QED
  BY <1>1 DEF ToCall

LEMMA RowsNext ==
    ASSUME TypeOK, CallsPending, HeapIsKnown, RowsAreCarried, [Next]_vars
    PROVE  RowsAreCarried'
<1>0. IF At("none") THEN run = NoRun ELSE run \in Invocation
  BY RunIs
<1>1. NoRun.at = "none"
  BY DEF NoRun
<1>2. /\ \A docs : RowsIn(docs)' = RowsIn(docs)
      /\ target' = target
      /\ \A b \in Batches : RowsOf(b)' = RowsOf(b)
      /\ HeapRows \subseteq HeapRows'
      /\ \A b \in Batches : Accounted(b) \subseteq Accounted(b)'
  BY NothingIsTakenBack
<1> USE DEF world, gateway, ledger
<1>3. ASSUME run'.at \in {"none", "hydrate"}
      PROVE  RowsAreCarried'
  BY <1>3 DEF RowsAreCarried, At, Deciding
<1>4. ASSUME run \in Invocation, run.at \in Deciding, run'.at \in Deciding,
             run'.batch = run.batch, run'.facts = run.facts,
             \A t \in ToCall : t \in ToCall' \cup Accounted(run.batch)'
      PROVE  RowsAreCarried'
  <2>1. run.batch \in Batches
    BY <1>4 DEF Invocation
  <2>2. RowsOf(run.batch) \subseteq HeapRows \cup Accounted(run.batch) \cup ToCall \cup ToProject
    BY <1>4 DEF RowsAreCarried
  <2>3. ToProject' = ToProject
    BY <1>4 DEF ToProject
  <2>4. RowsOf(run.batch)' \subseteq HeapRows' \cup Accounted(run.batch)' \cup ToCall' \cup ToProject'
    BY <1>2, <1>4, <2>1, <2>2, <2>3
  <2> QED
    BY <1>4, <2>4 DEF RowsAreCarried, At, Deciding
<1>5. CASE Claim
  <2>1. run'.at = "hydrate"
    BY <1>5 DEF Claim, NewRun
  <2> QED
    BY <1>3, <2>1
<1>6. CASE Hydrate
  <2>1. run \in Invocation
    BY <1>0, <1>6 DEF Hydrate, At
  <2>2. run'.at = "ingest" /\ run'.batch = run.batch /\ run'.docs = target[run.batch]
    BY <1>6, <2>1 DEF Hydrate, Invocation
  <2>3. RowsOf(run.batch)' = RowsIn(Range(run'.docs))
    BY <1>2, <2>1, <2>2 DEF RowsOf, Invocation
  <2>4. RowsIn(Range(run.docs))' = RowsIn(Range(run'.docs))
    BY <1>2 DEF Hydrate
  <2> QED
    BY <2>2, <2>3, <2>4 DEF RowsAreCarried, At, Deciding
<1>7. CASE Ingest
  <2> DEFINE d == Head(run.docs)
             txns == IF Bounced(files[d]) THEN run.txns ELSE run.txns \o Transactions(d)
  <2>1. /\ run \in Invocation /\ run.batch \in Batches
        /\ run.docs \in Seq(Docs) /\ run.docs # <<>> /\ d \in Docs /\ run.txns \in Seq(Transaction)
    BY <1>0, <1>7 DEF Ingest, At, Invocation
  <2>2. run' = [run EXCEPT !.docs = Tail(run.docs), !.txns = txns]
    BY <1>7 DEF Ingest
  <2>3. Range(txns) = Range(run.txns) \cup (IF Bounced(files[d]) THEN {} ELSE Range(Transactions(d)))
    <3>1. CASE Bounced(files[d])
      BY <3>1
    <3>2. CASE ~Bounced(files[d])
      <4>1. Transactions(d) \in Seq(Transaction)
        BY <2>1, TransactionsHold DEF TypeOK
      <4>2. Range(run.txns \o Transactions(d)) = Range(run.txns) \cup Range(Transactions(d))
        BY <2>1, <4>1, RangeOfConcat
      <4> QED
        BY <3>2, <4>2
    <3> QED
      BY <3>1, <3>2
  <2>4. RowsIn(Range(run.docs)) =
          (IF Bounced(files[d]) THEN {} ELSE Range(Transactions(d))) \cup RowsIn(Range(Tail(run.docs)))
    BY <2>1, RowsInTail DEF TypeOK
  <2>5. RowsOf(run.batch) \subseteq Range(run.txns) \cup RowsIn(Range(run.docs))
    BY <1>7 DEF Ingest, RowsAreCarried
  <2> HIDE DEF txns, d
  <2>6. /\ run'.at = "ingest" /\ run'.batch = run.batch
        /\ run'.txns = txns /\ run'.docs = Tail(run.docs)
    BY <1>7, <2>1, <2>2 DEF Ingest, At, Invocation
  <2>7. RowsOf(run.batch) \subseteq Range(txns) \cup RowsIn(Range(Tail(run.docs)))
    BY <2>3, <2>4, <2>5
  <2>8. RowsOf(run.batch)' = RowsOf(run.batch)
    BY <1>2, <2>1, <2>6
  <2>9. RowsIn(Range(run.docs))' = RowsIn(Range(Tail(run.docs)))
    BY <1>2, <2>6
  <2> QED
    BY <2>6, <2>7, <2>8, <2>9 DEF RowsAreCarried, At, Deciding
<1>8. CASE Categorize
  <2> DEFINE txns == Fresh(run.txns, run.known)
             rows == Ledger(txns)
  <2>1. /\ run \in Invocation /\ run.batch \in Batches /\ run.known = HeapRows
        /\ run.docs = <<>>
    BY <1>0, <1>8 DEF Categorize, At, HeapIsKnown, Invocation
  <2>2. run' = [run EXCEPT !.at = "call", !.calls = Calls(rows), !.facts = Facts(rows)]
    BY <1>8 DEF Categorize
  <2>3. txns \in Seq(Transaction) /\ Range(txns) = Range(run.txns) \ HeapRows
    BY <2>1, FreshHolds DEF Invocation
  <2>4. RowsIn(Range(run.docs)) = {}
    BY <2>1 DEF RowsIn, Range
  <2>5. RowsOf(run.batch) \subseteq Range(run.txns)
    BY <1>8, <2>4 DEF Categorize, RowsAreCarried
  <2> HIDE DEF txns
  <2>6. \A t \in Range(txns) :
           \/ \E c \in Range(Calls(rows)) : c.key # 0 /\ c.args[1].txn = t
           \/ \E f \in Range(Facts(rows)) : f.txn = t
    BY <2>3, LedgerCarries
  <2> HIDE DEF rows
  <2>7. run'.at = "call" /\ run'.batch = run.batch /\ run'.calls = Calls(rows) /\ run'.facts = Facts(rows)
    BY <2>1, <2>2 DEF Invocation
  <2>8. Range(txns) \subseteq ToCall' \cup ToProject'
    BY <2>6, <2>7 DEF ToCall, ToProject
  <2>9. RowsOf(run.batch)' = RowsOf(run.batch)
    BY <1>2, <2>1, <2>7
  <2>10. RowsOf(run.batch)' \subseteq HeapRows' \cup ToCall' \cup ToProject'
    BY <1>2, <2>3, <2>5, <2>8, <2>9
  <2> QED
    BY <2>7, <2>10 DEF RowsAreCarried, At, Deciding
<1>9. CASE Clash
  BY <1>1, <1>3, <1>9 DEF Clash, Fail
<1>10. CASE Replay
  <2> DEFINE call == Head(run.calls)
  <2>1. /\ run \in Invocation /\ run.batch \in Batches
        /\ run.calls \in Seq(SysCall) /\ run.calls # <<>> /\ run.at = "call"
    BY <1>0, <1>10 DEF Replay, At, Invocation
  <2>2. /\ run'.at = "call" /\ run'.batch = run.batch /\ run'.facts = run.facts
        /\ run'.calls = Tail(run.calls)
    BY <1>10, <2>1 DEF Replay, Invocation
  <2>3. PICK r \in receipts[run.batch] : r.key = call.key /\ r.args = call.args
    BY <1>10 DEF Replay, Same, Conflict
  <2>4. call.key # 0 => call.args[1].txn \in Accounted(run.batch)
    BY <2>1, <2>3, CallIsAccounted
  <2>5. Accounted(run.batch) \subseteq Accounted(run.batch)'
    BY <1>2, <2>1, <2>2
  <2>6. ASSUME NEW t \in ToCall
        PROVE  t \in ToCall' \cup Accounted(run.batch)'
    BY <2>1, <2>2, <2>4, <2>5, ToCallTail DEF ToCall
  <2> QED
    BY <1>4, <2>1, <2>2, <2>6 DEF Deciding
<1>11. CASE Attempt
  <2>1. /\ run \in Invocation /\ run.at \in Deciding /\ run'.at \in Deciding
        /\ run'.batch = run.batch /\ run'.facts = run.facts /\ run'.calls = run.calls
    BY <1>0, <1>11 DEF Attempt, At, Invocation, Deciding
  <2> QED
    BY <1>4, <2>1 DEF ToCall
<1>12. CASE Execute
  <2>1. /\ run \in Invocation /\ run.at \in Deciding /\ run'.at \in Deciding
        /\ run'.batch = run.batch /\ run'.facts = run.facts /\ run'.calls = run.calls
    BY <1>0, <1>12 DEF Execute, At, Invocation, Deciding
  <2> QED
    BY <1>4, <2>1 DEF ToCall
<1>13. CASE Receipt
  <2> DEFINE call == Head(run.calls)
             kept == [key |-> call.key, args |-> call.args, result |-> run.result]
  <2>1. /\ run \in Invocation /\ run.batch \in Batches /\ run.at = "receipt"
        /\ run.calls \in Seq(SysCall) /\ run.calls # <<>> /\ run.result \in {"ok", "error"}
    BY <1>0, <1>13 DEF Receipt, At, Invocation, CallsPending
  <2>2. /\ run'.at = "call" /\ run'.batch = run.batch /\ run'.facts = run.facts
        /\ run'.calls = Tail(run.calls)
    BY <1>13, <2>1 DEF Receipt, Invocation
  <2>3. receipts' = [receipts EXCEPT ![run.batch] = @ \cup {kept}]
    BY <1>13 DEF Receipt
  <2>4. kept.key = call.key /\ kept.args = call.args /\ kept.result = run.result
    OBVIOUS
  <2> HIDE DEF kept
  <2>5. kept \in receipts'[run.batch]
    BY <2>1, <2>3 DEF TypeOK
  <2>6. call.key # 0 => call.args[1].txn \in Accounted(run.batch)'
    <3>1. CASE run.result = "ok"
      <4> DEFINE t == <<run.batch, call.args[1].txn>>
      <4>1. call.key # 0 => t \in tasks'
        BY <1>13, <3>1 DEF Receipt, CallsPending
      <4>2. t[1] = run'.batch /\ t[2] = call.args[1].txn
        BY <2>2
      <4> HIDE DEF t
      <4> QED
        BY <4>1, <4>2 DEF Accounted
    <3>2. CASE run.result = "error"
      <4>1. kept \in receipts'[run'.batch]
        BY <2>2, <2>5
      <4> QED
        BY <2>4, <3>2, <4>1 DEF Accounted, Unqueued
    <3> QED
      BY <2>1, <3>1, <3>2
  <2>7. ASSUME NEW t \in ToCall
        PROVE  t \in ToCall' \cup Accounted(run.batch)'
    BY <2>1, <2>2, <2>6, ToCallTail DEF ToCall
  <2> QED
    BY <1>4, <2>1, <2>2, <2>7 DEF Deciding
<1>14. CASE Reject
  BY <1>1, <1>3, <1>14 DEF Reject, Complete
<1>15. CASE Settle
  <2>1. /\ run \in Invocation /\ run.batch \in Batches /\ run.at = "call" /\ run.calls = <<>>
    BY <1>0, <1>15 DEF Settle, At, Invocation
  <2>2. run'.at = "project" /\ run'.batch = run.batch /\ run'.facts = run.facts
    BY <1>15, <2>1 DEF Settle, Invocation
  <2>3. ToCall = {} /\ ToProject' = ToProject
    BY <2>1, <2>2 DEF ToCall, ToProject, Range
  <2>4. RowsOf(run.batch) \subseteq HeapRows \cup Accounted(run.batch) \cup ToProject
    BY <2>1, <2>3 DEF RowsAreCarried, Deciding
  <2>5. RowsOf(run.batch)' \subseteq HeapRows' \cup Accounted(run.batch)' \cup ToProject'
    BY <1>2, <2>1, <2>2, <2>3, <2>4
  <2> QED
    BY <2>2, <2>5 DEF RowsAreCarried, At, Deciding
<1>16. CASE Project
  <2> DEFINE fact == Head(run.facts)
  <2>1. /\ run \in Invocation /\ run.batch \in Batches
        /\ run.facts \in Seq(LedgerRow) /\ run.facts # <<>>
    BY <1>0, <1>16 DEF Project, At, Invocation
  <2>2. run'.at = "project" /\ run'.batch = run.batch /\ run'.facts = Tail(run.facts)
    BY <1>16, <2>1 DEF Project, At, Invocation
  <2>3. Range(run.facts) = {fact} \cup Range(Tail(run.facts))
    BY <2>1, RangeOfTail
  <2>4. fact.txn \in HeapRows'
    <3> DEFINE added == [run |-> run.batch, row |-> fact.txn]
    <3>1. added \in heap' /\ added.row = fact.txn
      BY <1>16 DEF Project
    <3> HIDE DEF added, fact
    <3> QED
      BY <3>1 DEF HeapRows
  <2> HIDE DEF fact
  <2>5. ToProject \subseteq {fact.txn} \cup ToProject'
    BY <2>2, <2>3 DEF ToProject
  <2>6. RowsOf(run.batch) \subseteq HeapRows \cup Accounted(run.batch) \cup ToProject
    BY <1>16 DEF Project, RowsAreCarried
  <2>7. RowsOf(run.batch)' \subseteq HeapRows' \cup Accounted(run.batch)' \cup ToProject'
    BY <1>2, <2>1, <2>2, <2>4, <2>5, <2>6
  <2> QED
    BY <2>2, <2>7 DEF RowsAreCarried, At, Deciding
<1>17. CASE Return
  BY <1>1, <1>3, <1>17 DEF Return, Complete
<1>18. CASE Raise
  BY <1>1, <1>3, <1>18 DEF Raise, Fail
<1>19. CASE UNCHANGED vars
  <2>1. run' = run /\ ToCall' = ToCall /\ ToProject' = ToProject
    BY <1>19 DEF vars, ToCall, ToProject
  <2>2. CASE run = NoRun
    BY <1>1, <1>3, <2>1, <2>2
  <2>3. CASE run \in Invocation
    <3>1. run.batch \in Batches
      BY <2>3 DEF Invocation
    <3>2. RowsOf(run.batch)' = RowsOf(run.batch) /\ RowsIn(Range(run.docs))' = RowsIn(Range(run.docs))
      BY <1>2, <2>1, <3>1
    <3>3. HeapRows \subseteq HeapRows' /\ Accounted(run.batch) \subseteq Accounted(run.batch)'
      BY <1>2, <2>1, <3>1
    <3> QED
      BY <2>1, <3>2, <3>3 DEF RowsAreCarried, At, Deciding
  <2> QED
    BY <1>0, <2>2, <2>3
<1> QED
  BY <1>5, <1>6, <1>7, <1>8, <1>9, <1>10, <1>11, <1>12, <1>13, <1>14, <1>15, <1>16, <1>17, <1>18,
     <1>19 DEF Next, Work

LEMMA LostNext ==
    ASSUME TypeOK, RowsAreCarried, NoRowIsLost, [Next]_vars
    PROVE  NoRowIsLost'
<1> SUFFICES ASSUME NEW b \in Batches, outcome'[b] = "settled"
             PROVE  RowsOf(b)' \subseteq HeapRows' \cup Accounted(b)'
  BY DEF NoRowIsLost
<1>1. CASE outcome[b] = "settled"
  BY <1>1, NothingIsTakenBack DEF NoRowIsLost
<1>2. CASE Return /\ b = run.batch
  <2>1. ToProject = {}
    BY <1>2 DEF Return, ToProject, Range
  <2>2. RowsOf(b) \subseteq HeapRows \cup Accounted(b)
    BY <1>2, <2>1 DEF Return, RowsAreCarried
  <2>3. /\ RowsOf(b)' = RowsOf(b) /\ HeapRows \subseteq HeapRows'
        /\ Accounted(b) \subseteq Accounted(b)'
    BY NothingIsTakenBack
  <2> QED
    BY <2>2, <2>3
<1> QED
  BY <1>1, <1>2, SettledOnReturn

-----------------------------------------------------------------------------
(* The invariant and what follows from it *)

LEMMA InitInv == Init => IInv
<1> SUFFICES ASSUME Init PROVE IInv
  OBVIOUS
<1>1. TypeOK
  BY InitType
<1>2. run.at = "none"
  BY DEF Init, NoRun
<1>3. HeapIsKnown /\ RowsAreCarried
  BY <1>2 DEF HeapIsKnown, RowsAreCarried, At, Deciding
<1>4. CallsPending
  BY <1>2 DEF Init, CallsPending, At
<1>5. HeapHoldsEachRowOnce
  BY DEF Init, HeapHoldsEachRowOnce
<1>6. NoRowIsLost
  BY DEF Init, NoRowIsLost
<1> QED
  BY <1>1, <1>3, <1>4, <1>5, <1>6 DEF IInv

(* The inductive invariant is one. *)
LEMMA Invariance == Spec => []IInv
<1>1. IInv /\ [Next]_vars => IInv'
  BY TypeNext, CallsPendingNext, HeapNext, RowsNext, LostNext DEF IInv
<1> QED
  BY InitInv, <1>1, PTL DEF Spec

(* Every variable of the batches, their invocations and the logs of the        *)
(* gateway keeps its type.                                                     *)
THEOREM TypeCorrect == Spec => []TypeOK
<1>1. IInv => TypeOK
  BY DEF IInv
<1> QED
  BY Invariance, <1>1, PTL

(* When a batch has settled, every row of a statement that was not sent back   *)
(* is a fact of the ledger or in the accountant's queue, or queueing it was    *)
(* answered by an error: whichever invocation read it and wherever the earlier *)
(* ones failed (books_prep_playbook.py, gateway.py, settlement.py).            *)
THEOREM EveryRowIsAccountedFor == Spec => []NoRowIsLost
<1>1. IInv => NoRowIsLost
  BY DEF IInv
<1> QED
  BY Invariance, <1>1, PTL

(* The keys read at hydration and the verifier's no_duplicate_commit keep a    *)
(* transaction from becoming two facts, across batches and retries.           *)
THEOREM TransactionsAreFactsOnce == Spec => []HeapHoldsEachRowOnce
<1>1. IInv => HeapHoldsEachRowOnce
  BY DEF IInv
<1> QED
  BY Invariance, <1>1, PTL

-----------------------------------------------------------------------------
(* The work queue *)

(* Every batch stands once in the line they are enqueued in. *)
LEMMA LineInit ==
    ASSUME Init
    PROVE  /\ \A i, j \in DOMAIN line : line[i] = line[j] => i = j
           /\ Range(line) = Batches
<1> DEFINE N == Cardinality(Batches)
<1>1. /\ N \in Nat /\ IsFiniteSet(1 .. N) /\ Cardinality(1 .. N) = N
      /\ \E f \in [1 .. N -> Batches] : IsInjective(f)
  <2>1. N \in Nat /\ \E f \in [1 .. N -> Batches] : IsInjective(f)
    BY BooksAssumption, FS_CardinalityType DEF ExistsBijection, Bijection, Injection, IsInjective
  <2>2. IsFiniteSet(1 .. N) /\ Cardinality(1 .. N) = IF 1 > N THEN 0 ELSE N - 1 + 1
    BY <2>1, FS_Interval
  <2> QED
    BY <2>1, <2>2
<1>2. line \in [1 .. N -> Batches] /\ IsInjective(line)
  BY <1>1 DEF Init, SetToSeq
<1>3. line \in Injection(1 .. N, Batches)
  BY <1>2 DEF Injection, IsInjective
<1>4. line \in Surjection(1 .. N, Batches)
  BY <1>1, <1>3, BooksAssumption, FS_Injection
<1> QED
  BY <1>2, <1>4 DEF IsInjective, Surjection, Range

LEMMA LineInvInit == Init => LineInv
<1> SUFFICES ASSUME Init PROVE LineInv
  OBVIOUS
<1>1. \A i \in DOMAIN line : line[i] \in Batches
  BY LineInit DEF Range
<1>2. At("none")
  BY DEF Init, At, NoRun
<1> QED
  BY <1>1, <1>2, LineInit DEF Init, LineInv

(* What is at the head of a line without repetitions is not behind it. *)
LEMMA HeadIsOnce ==
    ASSUME NEW T, NEW s \in Seq(T), s # <<>>, \A i, j \in DOMAIN s : s[i] = s[j] => i = j
    PROVE  /\ \A i, j \in DOMAIN Tail(s) : Tail(s)[i] = Tail(s)[j] => i = j
           /\ \A i \in DOMAIN Tail(s) : i + 1 \in DOMAIN s /\ Tail(s)[i] = s[i + 1]
           /\ Head(s) \notin Range(Tail(s))
<1> DEFINE L == Len(s)
           t == Tail(s)
<1>1. /\ L \in Nat \ {0} /\ DOMAIN s = 1 .. L /\ DOMAIN t = 1 .. (L - 1)
      /\ Head(s) = s[1] /\ \A i \in 1 .. (L - 1) : t[i] = s[i + 1]
  OBVIOUS
<1> HIDE DEF L, t
<1>2. \A i \in DOMAIN t : i \in Int /\ i + 1 \in DOMAIN s /\ i + 1 # 1 /\ t[i] = s[i + 1]
  BY <1>1
<1>3. \A i, j \in DOMAIN t : t[i] = t[j] => i = j
  <2> SUFFICES ASSUME NEW i \in DOMAIN t, NEW j \in DOMAIN t, t[i] = t[j] PROVE i = j
    OBVIOUS
  <2>1. i + 1 = j + 1
    BY <1>2
  <2> QED
    BY <1>2, <2>1
<1>4. Head(s) \notin Range(t)
  <2> SUFFICES ASSUME NEW i \in DOMAIN t, t[i] = s[1] PROVE FALSE
    BY <1>1 DEF Range
  <2>1. i + 1 \in DOMAIN s /\ 1 \in DOMAIN s /\ s[i + 1] = s[1]
    BY <1>1, <1>2
  <2> QED
    BY <1>2, <2>1
<1> QED
  BY <1>2, <1>3, <1>4 DEF t

(* A batch that joins a line it is not in stands there once. *)
LEMMA JoinsOnce ==
    ASSUME NEW T, NEW s \in Seq(T), NEW x \in T, x \notin Range(s),
           \A i, j \in DOMAIN s : s[i] = s[j] => i = j
    PROVE  \A i, j \in DOMAIN Append(s, x) : Append(s, x)[i] = Append(s, x)[j] => i = j
<1> DEFINE L == Len(s)
           a == Append(s, x)
<1>1. /\ L \in Nat /\ DOMAIN s = 1 .. L /\ DOMAIN a = 1 .. L + 1
      /\ a[L + 1] = x /\ \A i \in 1 .. L : a[i] = s[i]
  OBVIOUS
<1> HIDE DEF L, a
<1>2. \A i \in DOMAIN a : i = L + 1 \/ (i \in DOMAIN s /\ a[i] = s[i])
  BY <1>1
<1>3. \A i \in DOMAIN s : s[i] # x
  BY DEF Range
<1>4. \A i, j \in DOMAIN a : a[i] = a[j] => i = j
  BY <1>1, <1>2, <1>3
<1> QED
  BY <1>4 DEF a

(* What becomes of the worker, the line and the outcomes in a step. *)
LEMMA BatchSteps ==
    ASSUME TypeOK, [Next]_vars
    PROVE  \/ Claim
           \/ ~At("none") /\ Fail /\ outcome' = outcome
           \/ /\ ~At("none") /\ line' = line
              /\ \E result \in {"settled", "crashed"} : Complete(result)
           \/ /\ ~At("none") /\ ~At("none")' /\ run'.batch = run.batch
              /\ UNCHANGED <<line, outcome>>
           \/ UNCHANGED <<run, line, outcome>>
<1>0. IF At("none") THEN run = NoRun ELSE run \in Invocation
  BY RunIs
<1>1. CASE Hydrate \/ Ingest \/ Categorize \/ Replay \/ Attempt \/ Execute \/ Receipt
           \/ Settle \/ Project
  <2>1. ~At("none") /\ UNCHANGED <<line, outcome>>
    BY <1>1 DEF Hydrate, Ingest, Categorize, Replay, Attempt, Execute, Receipt, Settle, Project,
       At, world, gateway, ledger
  <2>2. run \in Invocation
    BY <1>0, <2>1
  <2>3. \/ run' = [run EXCEPT !.at = "ingest", !.docs = target[run.batch], !.known = {f.row : f \in heap}]
        \/ \E docs, txns : At("ingest") /\ run' = [run EXCEPT !.docs = docs, !.txns = txns]
        \/ \E calls, facts : run' = [run EXCEPT !.at = "call", !.calls = calls, !.facts = facts]
        \/ \E calls : At("call") /\ run' = [run EXCEPT !.calls = calls]
        \/ run' = [run EXCEPT !.at = "execute"]
        \/ \E result : run' = [run EXCEPT !.at = "receipt", !.result = result]
        \/ \E calls : run' = [run EXCEPT !.at = "call", !.calls = calls]
        \/ run' = [run EXCEPT !.at = "project"]
        \/ \E facts : At("project") /\ run' = [run EXCEPT !.facts = facts]
    BY <1>1 DEF Hydrate, Ingest, Categorize, Replay, Attempt, Execute, Receipt, Settle, Project
  <2>4. run'.batch = run.batch /\ run'.at # "none"
    BY <2>2, <2>3 DEF Invocation, At
  <2> QED
    BY <2>1, <2>4 DEF At
<1>2. CASE Clash \/ Raise
  BY <1>2 DEF Clash, Raise, At
<1>3. CASE Reject \/ Return
  BY <1>3 DEF Reject, Return, At
<1>4. CASE UNCHANGED vars
  BY <1>4 DEF vars
<1> QED
  BY <1>1, <1>2, <1>3, <1>4 DEF Next, Work

(* In the line there is no batch twice, and none that is being run or is done. *)
LEMMA LineNext ==
    ASSUME TypeOK, LineInv, [Next]_vars
    PROVE  LineInv'
<1>0. IF At("none") THEN run = NoRun ELSE run \in Invocation /\ run.batch \in Batches
  BY RunIs DEF Invocation
<1>1. CASE Claim
  <2>1. line # <<>> /\ line' = Tail(line) /\ outcome' = outcome /\ run'.batch = Head(line)
    BY <1>1 DEF Claim, NewRun
  <2>2. /\ \A i, j \in DOMAIN line' : line'[i] = line'[j] => i = j
        /\ \A i \in DOMAIN line' : i + 1 \in DOMAIN line /\ line'[i] = line[i + 1]
        /\ Head(line) \notin Range(line')
    BY <2>1, HeadIsOnce DEF TypeOK, LineInv
  <2>3. outcome[Head(line)] = "open"
    BY <2>1 DEF TypeOK, LineInv
  <2> QED
    BY <2>1, <2>2, <2>3 DEF LineInv
<1>2. CASE ~At("none") /\ Fail /\ outcome' = outcome
  <2>0. PICK b \in Batches : b = run.batch
    BY <1>0, <1>2
  <2>1. /\ line \in Seq(Batches) /\ line' = Append(line, b) /\ run' = NoRun
        /\ b \notin Range(line) /\ outcome[b] = "open"
    BY <1>2, <2>0 DEF Fail, TypeOK, LineInv
  <2>2. \A i, j \in DOMAIN line : line[i] = line[j] => i = j
    BY DEF LineInv
  <2>3. \A i, j \in DOMAIN Append(line, b) : Append(line, b)[i] = Append(line, b)[j] => i = j
    BY <2>1, <2>2, JoinsOnce
  <2>4. Range(line') = Range(line) \cup {b}
    BY <2>1, RangeOfAppend
  <2>5. \A i \in DOMAIN line' : outcome[line'[i]] = "open"
    BY <2>1, <2>4 DEF LineInv, Range
  <2> QED
    BY <1>2, <2>1, <2>3, <2>5 DEF LineInv, At, NoRun
<1>3. ASSUME ~At("none"), line' = line, NEW result, Complete(result)
      PROVE  LineInv'
  <2>1. /\ run' = NoRun
        /\ \A b \in Batches \ {run.batch} : outcome'[b] = outcome[b]
        /\ run.batch \notin Range(line)
    BY <1>3 DEF Complete, TypeOK, LineInv
  <2>2. \A i \in DOMAIN line : line[i] \in Batches \ {run.batch}
    BY <2>1 DEF TypeOK, Range
  <2> QED
    BY <1>3, <2>1, <2>2 DEF LineInv, At, NoRun
<1>4. CASE /\ ~At("none") /\ ~At("none")' /\ run'.batch = run.batch
           /\ UNCHANGED <<line, outcome>>
  BY <1>4 DEF LineInv
<1>5. CASE UNCHANGED <<run, line, outcome>>
  BY <1>5 DEF LineInv, At
<1> QED
  BY <1>1, <1>2, <1>3, <1>4, <1>5, BatchSteps

LEMMA QueueInitRefines == Init => Queue!Init
<1> SUFFICES ASSUME Init PROVE Queue!Init
  OBVIOUS
<1>1. \A b \in Batches : ItemOf(b) = "pending"
  BY LineInit DEF Init, ItemOf
<1>2. Held = [k \in {"worker"} |-> {}]
  BY DEF Init, Held, At, NoRun
<1> QED
  BY <1>1, <1>2 DEF Queue!Init

(* Claiming, ending and failing a batch are the queue's operations. *)
LEMMA QueueStepRefines ==
    ASSUME TypeOK, LineInv, [Next]_vars
    PROVE  Queue!Next \/ UNCHANGED Queue!vars
<1> DEFINE rows == [b \in Batches |-> ItemOf(b)]
<1>0. IF At("none") THEN run = NoRun ELSE run \in Invocation /\ run.batch \in Batches
  BY RunIs DEF Invocation
<1>1. CASE Claim
  <2>0. PICK b \in Batches : b = Head(line)
    BY <1>1 DEF Claim, TypeOK
  <2>1. /\ At("none") /\ line # <<>> /\ line' = Tail(line) /\ outcome' = outcome
        /\ run'.at # "none" /\ run'.batch = b
    BY <1>1, <2>0 DEF Claim, NewRun
  <2>2. Range(line) = {b} \cup Range(line') /\ b \notin Range(line')
    BY <2>0, <2>1, RangeOfTail, HeadIsOnce DEF TypeOK, LineInv
  <2>3. outcome[b] = "open"
    BY <2>0, <2>1 DEF TypeOK, LineInv
  <2>4. ItemOf(b) = "pending" /\ ItemOf(b)' = "claimed"
    BY <2>1, <2>2, <2>3 DEF ItemOf
  <2>5. \A c \in Batches \ {b} : ItemOf(c)' = ItemOf(c)
    BY <2>1, <2>2 DEF ItemOf
  <2>6. rows' = [rows EXCEPT ![b] = "claimed"] /\ rows[b] = "pending"
    BY <2>3, <2>4, <2>5
  <2>7. Held["worker"] = {} /\ Held' = [Held EXCEPT !["worker"] = {b}]
    BY <2>1 DEF Held, At
  <2>8. Queue!Claim("worker", b)
    BY <2>6, <2>7 DEF Queue!Claim, Queue!Set, Queue!Hands
  <2> QED
    BY <2>8 DEF Queue!Next
<1>2. ASSUME NEW b \in Batches, NEW s \in {"completed", "pending"},
             ~At("none"), run.batch = b, run' = NoRun, ItemOf(b)' = s,
             \A c \in Batches \ {b} : ItemOf(c)' = ItemOf(c)
      PROVE  Queue!Next
  <2>1. ItemOf(b) = "claimed"
    BY <1>2 DEF ItemOf, LineInv
  <2>2. rows' = [rows EXCEPT ![b] = s] /\ rows[b] = "claimed"
    BY <1>2, <2>1
  <2>3. Held["worker"] = {b} /\ Held' = [Held EXCEPT !["worker"] = {}]
    BY <1>2 DEF Held, At, NoRun
  <2>4. Queue!Complete("worker", b) \/ Queue!Fail("worker", b)
    BY <2>2, <2>3 DEF Queue!Complete, Queue!Fail, Queue!Set, Queue!Hands
  <2> QED
    BY <2>4 DEF Queue!Next
<1>3. CASE ~At("none") /\ Fail /\ outcome' = outcome
  <2>0. PICK b \in Batches : b = run.batch
    BY <1>0, <1>3
  <2>1. run' = NoRun /\ Range(line') = Range(line) \cup {b}
    BY <1>3, <2>0, RangeOfAppend DEF Fail, TypeOK
  <2>2. ItemOf(b)' = "pending"
    BY <1>3, <2>0, <2>1 DEF ItemOf, LineInv
  <2>3. \A c \in Batches \ {b} : ItemOf(c)' = ItemOf(c)
    BY <1>3, <2>1 DEF ItemOf
  <2> QED
    BY <1>2, <1>3, <2>0, <2>1, <2>2, <2>3
<1>4. ASSUME ~At("none"), line' = line, NEW result \in {"settled", "crashed"}, Complete(result)
      PROVE  Queue!Next
  <2>0. PICK b \in Batches : b = run.batch
    BY <1>0, <1>4
  <2>1. /\ run' = NoRun
        /\ outcome' = [outcome EXCEPT ![b] = result] /\ DOMAIN outcome = Batches
    BY <1>4, <2>0 DEF Complete, TypeOK
  <2>2. ItemOf(b)' = "completed"
    BY <2>1 DEF ItemOf
  <2>3. \A c \in Batches \ {b} : ItemOf(c)' = ItemOf(c)
    BY <1>4, <2>1 DEF ItemOf
  <2> QED
    BY <1>2, <1>4, <2>0, <2>1, <2>2, <2>3
<1>5. CASE /\ ~At("none") /\ ~At("none")' /\ run'.batch = run.batch
           /\ UNCHANGED <<line, outcome>>
  BY <1>5 DEF Queue!vars, Held, ItemOf
<1>6. CASE UNCHANGED <<run, line, outcome>>
  BY <1>6 DEF Queue!vars, Held, ItemOf, At
<1> QED
  BY <1>1, <1>3, <1>4, <1>5, <1>6, BatchSteps

(* The batches of an instance make a work queue: each waits once in the line, is  *)
(* run by the worker that claimed it until it ends or fails, and has one outcome: *)
(* whatever its calls raise, no batch is left claimed and none is run twice at    *)
(* a time (scheduler.py, memory.py).                                            *)
THEOREM BatchesUseWorkQueue == Spec => ImplementsWorkQueue
<1>1. TypeOK /\ LineInv /\ [Next]_vars => LineInv'
  BY LineNext
<1>2. TypeOK /\ LineInv /\ [Next]_vars => [Queue!Next]_(Queue!vars)
  BY QueueStepRefines
<1> QED
  BY TypeCorrect, LineInvInit, QueueInitRefines, <1>1, <1>2, PTL
     DEF Spec, ImplementsWorkQueue, Queue!Spec
=============================================================================
