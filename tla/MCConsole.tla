------------------------------ MODULE MCConsole ------------------------------
EXTENDS Console, TLC
CONSTANTS r1, r2, m1
TwoRuns == r1 :> 1 @@ r2 :> 2
=============================================================================
