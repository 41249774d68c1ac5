------------------------------- MODULE Ledger -------------------------------
(***************************************************************************)
(* What JournalStore.append promises its callers (ports.py), and what the  *)
(* in-memory store does literally: one total order per instance, an append *)
(* that takes effect at one instant between the call and its return, an    *)
(* idempotency key that is spent once for the whole journal.               *)
(*                                                                         *)
(* Journal.tla, the optimistic protocol of the Mongo store, implements it. *)
(***************************************************************************)
EXTENDS Naturals, Sequences

CONSTANTS
    Instances,      (* instance_id values                                  *)
    Keys,           (* idempotency keys                                    *)
    NoKey,          (* idempotency_key = None                              *)
    Writers         (* coroutines that call append                         *)

VARIABLES
    ledger,         (* [Instances -> sequence of entries]: the total order *)
    open            (* [Writers -> the call being served, or NoCall]       *)

vars == <<ledger, open>>

Entry == [idempotency_key : Keys \cup {NoKey}, writer : Writers]
NoCall == [instance_id |-> "none", idempotency_key |-> NoKey]
Request == [instance_id : Instances, idempotency_key : Keys \cup {NoKey}]

Init ==
    /\ ledger = [i \in Instances |-> <<>>]
    /\ open = [w \in Writers |-> NoCall]

(* Some instance's order already holds an entry with key k. *)
Spent(k) == \E i \in Instances : \E n \in DOMAIN ledger[i] :
                ledger[i][n].idempotency_key = k

Call(w, r) ==
    /\ open[w] = NoCall
    /\ open' = [open EXCEPT ![w] = r]
    /\ UNCHANGED ledger

(* The append takes effect: the entry becomes the last of its instance. *)
Commit(w) ==
    /\ open[w] \in Request
    /\ open[w].idempotency_key # NoKey => ~Spent(open[w].idempotency_key)
    /\ ledger' = [ledger EXCEPT ![open[w].instance_id] =
                    Append(@, [idempotency_key |-> open[w].idempotency_key,
                               writer |-> w])]
    /\ open' = [open EXCEPT ![w] = NoCall]

(* DuplicateIdempotencyKey, JournalSeqContention or a cancelled caller: the
   call ends and leaves no entry. *)
Abort(w) ==
    /\ open[w] \in Request
    /\ open' = [open EXCEPT ![w] = NoCall]
    /\ UNCHANGED ledger

Next == \E w \in Writers :
    \/ \E r \in Request : Call(w, r)
    \/ Commit(w)
    \/ Abort(w)

Spec == Init /\ [][Next]_vars
=============================================================================
