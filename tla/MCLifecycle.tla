----------------------------- MODULE MCLifecycle -----------------------------
\* A small instance of Lifecycle: two specifications, open over [0, 2) and
\* [1, 3), times up to 6, three dispute identities (two active
\* at most) and two providers.
EXTENDS Lifecycle, TLC

CONSTANTS s1, s2, yes, no, d1, d2, d3, p1, p2

MCOpenAt  == s1 :> 0 @@ s2 :> 1
MCCloseAt == s1 :> 2 @@ s2 :> 3
Symmetry  == Permutations({d1, d2, d3}) \cup Permutations({p1, p2})
=============================================================================
