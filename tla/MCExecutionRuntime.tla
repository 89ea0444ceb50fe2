------------------------- MODULE MCExecutionRuntime -------------------------
EXTENDS ExecutionRuntime, TLC

\* Runs are interchangeable.
Symmetry == Permutations(Run)
=============================================================================
