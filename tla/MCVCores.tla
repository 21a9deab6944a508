------------------------------ MODULE MCVCores ------------------------------
EXTENDS VCores, TLC

\* The tasks are alike and the properties are invariants.
TaskSymmetry == Permutations(Tasks)
=============================================================================
