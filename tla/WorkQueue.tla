----------------------------- MODULE WorkQueue ------------------------------
(***************************************************************************)
(* What the kernel's scheduler store promises its users (SchedulerStore in *)
(* kernel/ports.py), and what the in-memory store does (stores/memory.py): *)
(* every operation is one step on the row of one item.  The order in which *)
(* items are claimed and the clock are left to Scheduler.                   *)
(*                                                                         *)
(* A worker has at most one item in its hands.  The row does not say whose: *)
(* a worker that is cancelled, or whose last update raises, drops the item  *)
(* and leaves the row as it is.                                             *)
(***************************************************************************)
CONSTANTS
    Items,          (* work items                                           *)
    Workers         (* processes that run _worker_loop                      *)

VARIABLES
    row,            (* [Items -> the status of the item's row]              *)
    holds           (* [Workers -> the items the worker is busy with]       *)

vars == <<row, holds>>

Init ==
    /\ row \in [Items -> {"absent", "pending"}]
    /\ holds = [k \in Workers |-> {}]

Set(i, s) == row' = [row EXCEPT ![i] = s]
Hands(k, items) == holds' = [holds EXCEPT ![k] = items]

(* enqueue: setdefault by the deterministic work id *)
Enqueue(i) == row[i] = "absent" /\ Set(i, "pending") /\ UNCHANGED holds

(* claim_next *)
Claim(k, i) ==
    holds[k] = {} /\ row[i] = "pending" /\ Set(i, "claimed") /\ Hands(k, {i})

(* complete *)
Complete(k, i) ==
    holds[k] = {i} /\ row[i] = "claimed" /\ Set(i, "completed") /\ Hands(k, {})

(* fail(retry_at=now) *)
Fail(k, i) ==
    holds[k] = {i} /\ row[i] = "claimed" /\ Set(i, "pending") /\ Hands(k, {})

(* Cancellation, or an update that raises: neither complete nor fail. *)
Drop(k) == holds[k] # {} /\ Hands(k, {}) /\ UNCHANGED row

Next ==
    \/ \E i \in Items : Enqueue(i)
    \/ \E k \in Workers :
          \/ \E i \in Items : Claim(k, i) \/ Complete(k, i) \/ Fail(k, i)
          \/ Drop(k)

Spec == Init /\ [][Next]_vars

-----------------------------------------------------------------------------
(* What a user of the queue may rely on, and what the queue does not promise *)

(* A claimed item whose worker is gone. *)
Abandoned(i) == row[i] = "claimed" /\ \A k \in Workers : i \notin holds[k]

(* An item in somebody's hands is claimed and in nobody else's. *)
HeldOnce ==
    \A k \in Workers : \A i \in holds[k] :
       row[i] = "claimed" /\ \A j \in Workers \ {k} : i \notin holds[j]

(* What is completed is never run again; and "durable", but not "so a worker
   restart is safe" (operator.py): an abandoned item is lost for good, neither
   run again nor completed. *)
ItemsRest ==
    [][\A i \in Items :
          /\ row[i] = "completed" => row'[i] = "completed"
          /\ Abandoned(i) => Abandoned(i)']_vars
=============================================================================
