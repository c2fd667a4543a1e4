---------------------------- MODULE MCVectorTables ----------------------------
EXTENDS VectorTables, TLC

\* Nothing tells processes, repositories, sections or texts apart.  Dimensions are told
\* apart by LegacyDim.
Symmetry == Permutations(Procs) \cup Permutations(Repos) \cup Permutations(Sections) \cup Permutations(Texts)
=============================================================================
