---------------------------- MODULE MCExbashRun ----------------------------
EXTENDS ExbashRun, TLC

\* Handlers are interchangeable.
TaskSymmetry == Permutations(Tasks)
=============================================================================
