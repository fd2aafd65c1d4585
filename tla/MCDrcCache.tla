---- MODULE MCDrcCache ----
\* Two processes on one cache, as model values: none is told from the other.
EXTENDS DrcCache, TLC

Symmetry == Permutations(Procs)
====
