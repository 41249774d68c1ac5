----------------------------- MODULE MCJournal ------------------------------
(* Small instances of Journal for TLC: the writers, instances and keys of the
   cfg are model values, compared and nothing else. *)
EXTENDS Journal
=============================================================================
