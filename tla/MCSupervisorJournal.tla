------------------------ MODULE MCSupervisorJournal ------------------------
EXTENDS SupervisorJournal, TLC

Symmetry == Permutations(Procs)
=============================================================================
