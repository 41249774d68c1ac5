------------------------------ MODULE MCWatches ------------------------------
(* One instance with two runs, the second one settled through resume. *)
EXTENDS Watches, TLC

CONSTANTS i1, r1, r2

OwnerOf == r1 :> i1 @@ r2 :> i1
=============================================================================
