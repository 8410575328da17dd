----------------------------- MODULE MCSolvers -----------------------------
EXTENDS Solvers, TLC

\* Solvers differ in nothing but their names, and so do submissions.
Alike == Permutations(Engines) \cup Permutations(Calls)
=============================================================================
