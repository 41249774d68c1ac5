--------------------------- MODULE MCRunLifecycle ---------------------------
(* Small instances of RunLifecycle for TLC: the instance's ring is 1, a risky
   syscall requires 2. *)
EXTENDS RunLifecycle

(* lead-finder: one gated send, then reads *)
MCOneGated == <<2, 0>>

(* a Hermes session that drafts twice *)
MCTwoGated == <<2, 2>>
=============================================================================
