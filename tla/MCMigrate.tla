------------------------------ MODULE MCMigrate ------------------------------
EXTENDS DataMigration, TLC

MCSlugs == {"s", "t"}
Symmetry == Permutations(Procs)
=============================================================================
