---------------------------- MODULE MCAlertOutbox ----------------------------
EXTENDS AlertOutbox, TLC

Symmetry == Permutations(Workers)
=============================================================================
