------------------------------- MODULE MCWatch -------------------------------
(***************************************************************************)
(* Two passes of the source watch over one observation, where the first    *)
(* may outlive its lease.                                                  *)
(***************************************************************************)
EXTENDS SourceWatch, TLC
Symmetry == Permutations(Watchers)
=============================================================================
