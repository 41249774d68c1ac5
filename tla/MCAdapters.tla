----------------------------- MODULE MCAdapters -----------------------------
(* A key of an instance with a sender bound and one of an instance without. *)
EXTENDS Adapters, TLC

CONSTANTS k1, k2, i1, i2

Owner == k1 :> i1 @@ k2 :> i2
=============================================================================
