----------------------------- MODULE MCScheduler -----------------------------
\* A small instance of Scheduler: passes and users are interchangeable.
EXTENDS Scheduler, TLC

CONSTANTS p1, p2, p3, k1, k2, yes, no

\* One failure lengthens the delay.
MCDelays == 0 :> 1 @@ 1 :> 2

Symmetry == Permutations({p1, p2, p3}) \cup Permutations({k1, k2})
=============================================================================
