------------------------ MODULE MCReloadTransaction ------------------------
EXTENDS ReloadTransaction, TLC

\* Slots and entries are interchangeable: no action names one.
Symmetric == Permutations(Slots) \cup Permutations(Entries)
=============================================================================
